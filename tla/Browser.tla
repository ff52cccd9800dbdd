------------------------------ MODULE Browser ------------------------------
(***************************************************************************)
(* What the pages of the admin client have in common.  A page is mounted   *)
(* in one browser tab: ui is the state of its hooks and refs, net the      *)
(* calls it has made through apiClient and not finished with, db the rows  *)
(* of the API it reads and writes.  JavaScript runs a handler up to its    *)
(* next await without interruption, so an action is a handler up to its    *)
(* first await, or what follows an await once the call has settled.  A     *)
(* call carries the variables its continuation captured.                   *)
(***************************************************************************)
EXTENDS Naturals, Sequences, FiniteSets

CONSTANTS Store,     \* the stores a user may select
          None,      \* no store, row or record
          MaxCalls,  \* bound: the user waits while so many calls are out
          MaxClicks  \* bound: how often the user acts

ASSUME BoundsAssumption == MaxCalls \in Nat /\ MaxClicks \in Nat

VARIABLES ui, net, db
vars == <<ui, net, db>>

\* An action of the user leaves the page in state u; ui.clicks counts them.
Room == Cardinality(net) < MaxCalls
Do(u) == ui.clicks < MaxClicks /\ ui' = [u EXCEPT !.clicks = @ + 1]

Calls(op) == {c \in net : c.op = op}
Settled(op) == {c \in net : c.op = op /\ c.st # "sent"}

\* A load whose response is used whenever it comes, and one whose response is used only
\* while its number is the newest: an overtaken call has no effect left and is dropped.
Start(calls) == net \cup calls
Restart(calls) == {c \in net : \A d \in calls : d.op # c.op} \cup calls

\* The fetch promise of request<T> resolves or rejects; a save is served by the API first,
\* and rejects also when the API has done its work and the answer is lost.  A load has no
\* effect on the API, so its answer is chosen when it is delivered.
Resolve(c) == (net \ {c}) \cup {[c EXCEPT !.st = "ok"]}
Reject(c) == (net \ {c}) \cup {[c EXCEPT !.st = "err"]}
Lose(ops) == \E c \in net :
  /\ c.op \in ops /\ c.st = "sent"
  /\ net' = Reject(c)
  /\ UNCHANGED <<ui, db>>
Answer == {"ok", "err"}

\* apiClient answers the same GET again for five seconds unless something was saved since.
\* Such an answer still knows all that the page itself has saved; where it matters what
\* others have done (JobPolling) the cache is part of the state.

\* What runs after the await of c, with the calls it makes next.
After(c, calls) == net' = (net \ {c}) \cup calls
=============================================================================
