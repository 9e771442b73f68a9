---------------------------- MODULE VersionFeed ----------------------------
(***************************************************************************)
(* What a version event promises a subscriber, with no channel, lock or    *)
(* goroutine in sight.  A counter grows by one at a time.  Whoever         *)
(* subscribes starts from the counter of that moment and is then told of   *)
(* versions in increasing order, possibly skipping some, never one that    *)
(* has not been published and never the same one twice.                    *)
(*                                                                         *)
(* ModelStore implements this module; the live applications rely on it and *)
(* on nothing else about the stores.                                       *)
(***************************************************************************)
EXTENDS Naturals

CONSTANTS
  Subs,         \* the subscriptions that may ever be opened
  MaxVersion    \* bound: the counter stops here

VARIABLES
  version,      \* the counter
  feed,         \* feed[s]: "new", "open" or "ended"
  told          \* told[s]: the last version s knows of

vars == <<version, feed, told>>

TypeOK ==
  /\ version \in 1..MaxVersion
  /\ feed \in [Subs -> {"new", "open", "ended"}]
  /\ told \in [Subs -> 0..MaxVersion]

Init ==
  /\ version = 1
  /\ feed = [s \in Subs |-> "new"]
  /\ told = [s \in Subs |-> 0]

Publish ==
  /\ version < MaxVersion
  /\ version' = version + 1
  /\ UNCHANGED <<feed, told>>

Open(s) ==
  /\ feed[s] = "new"
  /\ feed' = [feed EXCEPT ![s] = "open"]
  /\ told' = [told EXCEPT ![s] = version]
  /\ UNCHANGED version

\* A value already in the channel may still be read once the feed has ended.
Tell(s, v) ==
  /\ feed[s] # "new"
  /\ told[s] < v
  /\ v <= version
  /\ told' = [told EXCEPT ![s] = v]
  /\ UNCHANGED <<version, feed>>

End(s) ==
  /\ feed[s] = "open"
  /\ feed' = [feed EXCEPT ![s] = "ended"]
  /\ UNCHANGED <<version, told>>

Next ==
  \/ Publish
  \/ \E s \in Subs : Open(s) \/ End(s) \/ \E v \in 1..MaxVersion : Tell(s, v)

Spec == Init /\ [][Next]_vars
=============================================================================
