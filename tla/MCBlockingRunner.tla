-------------------------- MODULE MCBlockingRunner --------------------------
(* Four calls on two threads.  Two functions hang, so every behaviour from  *)
(* no thread lost to all permits and all threads lost occurs; one other     *)
(* call has a deadline, so that a permit can be free while no thread is and *)
(* a cancelled item lies in the queue.                                      *)
EXTENDS BlockingRunner

CONSTANTS c1, c2, c3, c4

MCCalls   == {c1, c2, c3, c4}
MCHanging == {c1, c2}
MCBounded == {c3}
=============================================================================
