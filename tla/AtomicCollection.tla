-------------------------- MODULE AtomicCollection --------------------------
(***************************************************************************)
(* What a local vector collection promises its callers: every operation    *)
(* takes effect at one instant between its request and its answer, on      *)
(* whole generations.  The contents map each record to the operation that  *)
(* wrote it.  An error answer leaves open whether a write happened; a      *)
(* crash may, besides, hide a collection that was being written, and a     *)
(* removal that is interrupted leaves one that only a removal can clear.   *)
(***************************************************************************)
EXTENDS Naturals

CONSTANTS
    Ops,       \* operation instances
    Records,   \* record identifiers
    Batches,   \* the record sets an upsert may carry
    Sources,   \* source identifiers
    SourceOf,  \* [Records -> Sources]
    Absent,        \* a record that is not stored
    NoCollection,  \* no directory at the collection's path
    Damaged,       \* a directory left by an interrupted removal
    Unseen         \* no contents were returned

VARIABLES coll, req, stage, res

avars == <<coll, req, stage, res>>

Request ==
    [kind : {"ensure", "drop", "search"}]
        \cup [kind : {"upsert"}, recs : Batches]
        \cup [kind : {"forget"}, source : Sources]

Contents == [Records -> Ops \cup {Absent}]
Empty    == [r \in Records |-> Absent]
Usable(c) == c \notin {NoCollection, Damaged}

Reply(status, seen) == [status |-> status, seen |-> seen]
NoReply == Reply("none", Unseen)

\* The contents after a request that changes them.
Effect(o, c) ==
    CASE req[o].kind = "ensure" -> Empty
      [] req[o].kind = "drop"   -> NoCollection
      [] req[o].kind = "upsert" ->
           [r \in Records |-> IF r \in req[o].recs THEN o ELSE c[r]]
      [] req[o].kind = "forget" ->
           [r \in Records |-> IF SourceOf[r] = req[o].source THEN Absent ELSE c[r]]

\* Whether the request changes these contents, and its answer when it does not.
Stores(o, s) == \E r \in Records : SourceOf[r] = s /\ coll[r] # Absent
Writes(o) ==
    \/ req[o].kind = "ensure" /\ coll = NoCollection
    \/ req[o].kind = "drop" /\ coll # NoCollection
    \/ req[o].kind = "upsert" /\ Usable(coll)
    \/ req[o].kind = "forget" /\ Usable(coll) /\ Stores(o, req[o].source)

Answer(o) ==
    CASE coll = NoCollection -> Reply(IF req[o].kind = "drop" THEN "ok" ELSE "missing", Unseen)
      [] coll = Damaged      -> Reply("error", Unseen)
      [] OTHER -> Reply("ok", IF req[o].kind = "search" THEN coll ELSE Unseen)

AInit ==
    /\ coll \in {NoCollection, Empty}
    /\ req = [o \in Ops |-> [kind |-> "search"]]
    /\ stage = [o \in Ops |-> "idle"]
    /\ res = [o \in Ops |-> NoReply]

Ask(o) ==
    /\ stage[o] = "idle"
    /\ \E r \in Request : req' = [req EXCEPT ![o] = r]
    /\ stage' = [stage EXCEPT ![o] = "pending"]
    /\ UNCHANGED <<coll, res>>

Done(o, reply) ==
    /\ stage' = [stage EXCEPT ![o] = "done"]
    /\ res' = [res EXCEPT ![o] = reply]

Perform(o) ==
    /\ stage[o] = "pending" /\ Writes(o)
    /\ coll' = Effect(o, coll)
    /\ stage' = [stage EXCEPT ![o] = "performed"]
    /\ UNCHANGED <<req, res>>

\* A write that was performed is acknowledged, or fails to be.
Acknowledge(o) ==
    /\ stage[o] = "performed"
    /\ \/ Done(o, Reply("ok", Unseen)) /\ UNCHANGED coll
       \/ Done(o, Reply("error", Unseen))
          /\ coll' \in {coll} \cup (IF req[o].kind = "drop" THEN {Damaged} ELSE {})
    /\ UNCHANGED req

Respond(o) ==
    /\ stage[o] = "pending"
    /\ \/ ~Writes(o) /\ Done(o, Answer(o))
       \/ Done(o, Reply("error", Unseen))
    /\ UNCHANGED <<coll, req>>

\* A crash of the process: in-flight operations never answer.
ACrash ==
    LET inFlight == {o \in Ops : stage[o] \in {"pending", "performed"}} IN
    /\ stage' = [o \in Ops |-> IF o \in inFlight THEN "done" ELSE stage[o]]
    /\ res' = [o \in Ops |-> IF o \in inFlight THEN Reply("crashed", Unseen) ELSE res[o]]
    /\ coll' \in {coll}
         \cup (IF \E o \in inFlight : req[o].kind \in {"upsert", "forget"}
               THEN {NoCollection} ELSE {})
         \cup (IF \E o \in inFlight : req[o].kind = "drop" THEN {Damaged} ELSE {})
    /\ UNCHANGED req

ANext ==
    \/ \E o \in Ops : Ask(o) \/ Perform(o) \/ Acknowledge(o) \/ Respond(o)
    \/ ACrash

ASpec == AInit /\ [][ANext]_avars

=============================================================================
