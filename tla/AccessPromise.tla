---------------------------- MODULE AccessPromise ----------------------------
(***************************************************************************)
(* What an access control node promises, whatever its reader, its cache    *)
(* and its network do: the tool is switched on only for a card that the    *)
(* acserver has once given a permission, out of service only for one that  *)
(* it has once named a maintainer, and the tool has one user until it is   *)
(* switched off again.                                                     *)
(***************************************************************************)
EXTENDS Integers

CONSTANT Cards

VARIABLES
  inService,   \* whether the node holds the tool to be in service
  granted,     \* the highest permission the server ever gave to each card
  users        \* the cards the tool is on for: none, or one

promiseVars == <<inService, granted, users>>

PromiseInit ==
  /\ inService \in BOOLEAN
  /\ granted \in [Cards -> 0 .. 2]
  /\ users = {}

ServerGrants(c, level) ==
  /\ level > granted[c]
  /\ granted' = [granted EXCEPT ![c] = level]
  /\ UNCHANGED <<inService, users>>

ServiceChanges == inService' \in BOOLEAN /\ UNCHANGED <<granted, users>>

Start(c) ==
  /\ users = {}
  /\ granted[c] = 2 \/ (inService /\ granted[c] = 1)
  /\ users' = {c}
  /\ UNCHANGED <<inService, granted>>

Stop == users' = {} /\ UNCHANGED <<inService, granted>>

\* A reset: the tool is off, and the node relies on what it has saved.
Restart == users' = {} /\ inService' \in BOOLEAN /\ UNCHANGED granted

PromiseNext ==
  \/ \E c \in Cards, level \in 1 .. 2 : ServerGrants(c, level)
  \/ ServiceChanges
  \/ \E c \in Cards : Start(c)
  \/ Stop
  \/ Restart

PromiseSpec == PromiseInit /\ [][PromiseNext]_promiseVars

=============================================================================
