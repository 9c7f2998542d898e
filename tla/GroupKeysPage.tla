---------------------------- MODULE GroupKeysPage ----------------------------
(***************************************************************************)
(* The page of the backoffice where an administrator manages the keys of   *)
(* the groups (api-keys-groups.tsx), and the operations of the server that *)
(* it calls (subscriptions/business.ts).                                   *)
(*                                                                         *)
(* The page keeps a copy of the subscriptions: their list, read a page at  *)
(* a time, the two secrets and the authorized addresses of each, read when *)
(* its row is opened. Calls may overlap, nothing cancels or orders them,   *)
(* and an answer is applied to whatever the page shows when it arrives.    *)
(***************************************************************************)
EXTENDS Naturals, Sequences, FiniteSets

CONSTANTS
  Listed,        \* the subscriptions of the groups, in the order of the list
  Limit,         \* rows of a page
  Call,          \* calls in flight at once
  NoKey,         \* no subscription
  NoData,        \* the data of a call that has none
  MaxAct,        \* bound: clicks of the administrator
  MaxFault       \* bound: calls that fail

Key == {Listed[i] : i \in DOMAIN Listed}

\* The ids of the subscriptions are distinct.
ASSUME ListedAssumption ==
  Listed \in Seq(Key) /\ \A i, j \in DOMAIN Listed : Listed[i] = Listed[j] => i = j
ASSUME LimitAssumption == Limit \in Nat \ {0}
ASSUME CallAssumption == IsFiniteSet(Call)
ASSUME NoKeyAssumption == NoKey \notin Key
ASSUME BoundAssumption == MaxAct \in Nat

VARIABLES
  subscriptions, \* API manager: what is left of Listed
  keys,          \* the versions of the two secrets of each subscription
  cidrs,         \* the version of its authorized addresses
  rows,          \* apiKeys: what the page shows
  offset,        \* pagination
  loaded,        \* mspData: the last page of the list that arrived
  crashed,       \* an effect threw: nothing catches it, the page is gone
  calls,         \* the calls in flight
  acts, faults,
  crossed,       \* history: a deletion reset the rows with other calls in flight
  raced,         \* history: subscriptions changed with an older answer on its way
  unanswered     \* history: subscriptions changed by a call that then failed

server == <<subscriptions, keys, cidrs>>
page == <<rows, offset, loaded, crashed>>
history == <<crossed, raced, unanswered>>
vars == <<server, page, calls, acts, faults, history>>

Existing == {subscriptions[i] : i \in DOMAIN subscriptions}

\* The versions are numbered from 1. 0 is the empty key, and the cidrs that are
\* undefined.
Version == 0..(MaxAct + 1)
Row == [primary : Version, secondary : Version, cidrs : Version]
EmptyRow == [primary |-> 0, secondary |-> 0, cidrs |-> 0]

\* What is in f, and what of g is not in f.
Over(f, g) ==
  [x \in DOMAIN f \cup DOMAIN g |-> IF x \in DOMAIN f THEN f[x] ELSE g[x]]

\* The first page of the rows that come after the first o.
PageFrom(o) ==
  SubSeq(subscriptions, o + 1,
         IF o + Limit < Len(subscriptions) THEN o + Limit ELSE Len(subscriptions))

\* step: "owned" once the server has seen that the user owns the subscription,
\* "done" when a key is regenerated and the keys are still to be read. listed and
\* row: what the answer carries.
Op == {"idle", "list", "keys", "cidrs", "regenerate", "update", "delete"}
Idle == [op |-> "idle", key |-> NoKey, which |-> "primary", offset |-> 0,
         step |-> "sent", listed |-> <<>>, row |-> EmptyRow]

Answered(c) == calls[c].step \in {"ok", "error"}
InFlight == {c \in Call : calls[c] # Idle}
About(k) == {c \in Call : calls[c].key = k}

-----------------------------------------------------------------------------
(* What the administrator does                                              *)

Send(c, call) == calls' = [calls EXCEPT ![c] = call]

Click(c) ==
  /\ ~ crashed
  /\ calls[c] = Idle
  /\ acts < MaxAct
  /\ acts' = acts + 1
  /\ UNCHANGED <<server, rows, crashed, faults, history>>

\* The button is there while the last page that arrived is a full one; a call
\* drops the data of the one before it.
LoadMore(c) ==
  /\ Click(c)
  /\ loaded # NoData
  /\ Len(loaded) = Limit
  /\ offset' = offset + Limit
  /\ loaded' = NoData
  /\ Send(c, [Idle EXCEPT !.op = "list", !.offset = offset'])

Complete(k) == rows[k].primary # 0 /\ rows[k].cidrs # 0

\* handleOnExpandClick: the keys first, the addresses next.
Expand(c, k) ==
  /\ Click(c)
  /\ ~ Complete(k)
  /\ Send(c, [Idle EXCEPT !.op = "keys", !.key = k])
  /\ UNCHANGED <<offset, loaded>>

\* The details of a row are drawn when all of them are there.
RegenerateKey(c, k, which) ==
  /\ Click(c)
  /\ Complete(k)
  /\ Send(c, [Idle EXCEPT !.op = "regenerate", !.key = k, !.which = which])
  /\ UNCHANGED <<offset, loaded>>

UpdateCidrs(c, k) ==
  /\ Click(c)
  /\ Complete(k)
  /\ Send(c, [Idle EXCEPT !.op = "update", !.key = k])
  /\ UNCHANGED <<offset, loaded>>

Delete(c, k) ==
  /\ Click(c)
  /\ Send(c, [Idle EXCEPT !.op = "delete", !.key = k])
  /\ UNCHANGED <<offset, loaded>>

-----------------------------------------------------------------------------
(* The server                                                               *)

Serving(c, op, step) == calls[c].op = op /\ calls[c].step = step

Become(c, step) == calls' = [calls EXCEPT ![c].step = step]

GetManageSubscriptions(c) ==
  /\ Serving(c, "list", "sent")
  /\ calls' = [calls EXCEPT ![c].step = "ok", ![c].listed = PageFrom(calls[c].offset)]
  /\ UNCHANGED <<server, page, acts, faults, history>>

ValidateOwnership(c) ==
  /\ calls[c].op \notin {"idle", "list"}
  /\ calls[c].step = "sent"
  /\ Become(c, IF calls[c].key \in Existing THEN "owned" ELSE "error")
  /\ UNCHANGED <<server, page, acts, faults, history>>

\* listSecrets, for whoever asked for the keys and after a regeneration.
ListSecrets(c) ==
  /\ Serving(c, "keys", "owned") \/ Serving(c, "regenerate", "done")
  /\ IF calls[c].key \in Existing
       THEN calls' = [calls EXCEPT ![c].step = "ok",
                                   ![c].row = Over(keys[calls[c].key], EmptyRow)]
       ELSE Become(c, "error")
  /\ UNCHANGED <<server, page, acts, faults, history>>

\* Every list of addresses is kept by the id of its subscription, whatever has
\* become of it.
RetrieveCidrs(c) ==
  /\ Serving(c, "cidrs", "owned")
  /\ calls' = [calls EXCEPT ![c].step = "ok", ![c].row.cidrs = cidrs[calls[c].key]]
  /\ UNCHANGED <<server, page, acts, faults, history>>

\* The answers about k that carry a value of the field, which is about to change.
Carrying(k, field) == {d \in About(k) : calls[d].row[field] # 0}

Regenerate(c) ==
  /\ Serving(c, "regenerate", "owned")
  /\ LET k == calls[c].key
     IN  IF k \in Existing
           THEN /\ keys' = [keys EXCEPT ![k][calls[c].which] = @ + 1]
                /\ Become(c, "done")
                /\ raced' = IF Carrying(k, "primary") # {} THEN raced \cup {k} ELSE raced
           ELSE /\ Become(c, "error")
                /\ UNCHANGED <<keys, raced>>
  /\ UNCHANGED <<subscriptions, cidrs, page, acts, faults, crossed, unanswered>>

UpsertCidrs(c) ==
  /\ Serving(c, "update", "owned")
  /\ LET k == calls[c].key
     IN  /\ cidrs' = [cidrs EXCEPT ![k] = @ + 1]
         /\ calls' = [calls EXCEPT ![c].step = "ok", ![c].row.cidrs = cidrs'[k]]
         /\ raced' = IF Carrying(k, "cidrs") # {} THEN raced \cup {k} ELSE raced
  /\ UNCHANGED <<subscriptions, keys, page, acts, faults, crossed, unanswered>>

Without(k) ==
  LET i == CHOOSE j \in DOMAIN subscriptions : subscriptions[j] = k
  IN  SubSeq(subscriptions, 1, i - 1)
        \o SubSeq(subscriptions, i + 1, Len(subscriptions))

\* A subscription that is not there any more is deleted as well as any other.
DeleteSubscription(c) ==
  /\ Serving(c, "delete", "owned")
  /\ subscriptions' = IF calls[c].key \in Existing THEN Without(calls[c].key)
                                                   ELSE subscriptions
  /\ Become(c, "ok")
  /\ UNCHANGED <<keys, cidrs, page, acts, faults, history>>

\* The call fails before or after the server has done its part.
Fail(c) ==
  /\ faults < MaxFault
  /\ calls[c] # Idle
  /\ calls[c].step # "error"
  /\ faults' = faults + 1
  /\ calls' = [calls EXCEPT
       ![c].step = "error",
       ![c].listed = <<>>,
       ![c].row = IF calls[c].op = "cidrs" THEN [@ EXCEPT !.cidrs = 0] ELSE EmptyRow]
  /\ unanswered' = IF \/ Serving(c, "regenerate", "done") \/ Serving(c, "regenerate", "ok")
                      \/ Serving(c, "update", "ok")
                     THEN unanswered \cup {calls[c].key}
                     ELSE unanswered
  /\ UNCHANGED <<server, page, acts, crossed, raced>>

-----------------------------------------------------------------------------
(* What the page does with the answers                                      *)

\* Wrong on purpose: the new values alone.
updateApiKeyOnly(k, newValues) == Over([j \in {k} |-> newValues], rows)

\* A row that is not there any more is made again.
updateApiKey(k, newValues) ==
  LET row == IF k \in DOMAIN rows THEN rows[k] ELSE EmptyRow
  IN  Over([j \in {k} |-> Over(newValues, row)], rows)

Arrives(c, op) ==
  /\ ~ crashed
  /\ calls[c].op = op
  /\ Answered(c)
  /\ UNCHANGED <<server, acts, faults>>

\* The rows of the page that arrives replace those of the same id. What is shown of
\* them is read again, unless a call about them is still to answer.
ListArrives(c) ==
  /\ Arrives(c, "list")
  /\ Send(c, Idle)
  /\ IF calls[c].step = "ok"
       THEN LET ids == {calls[c].listed[i] : i \in DOMAIN calls[c].listed}
                afresh == {k \in ids : About(k) = {}}
            IN  /\ rows' = Over([k \in ids |-> EmptyRow], rows)
                /\ loaded' = calls[c].listed
                /\ raced' = raced \ afresh
                /\ unanswered' = unanswered \ afresh
       ELSE UNCHANGED <<rows, loaded, raced, unanswered>>
  /\ UNCHANGED <<offset, crashed, crossed>>

KeysArrive(c) ==
  /\ Arrives(c, "keys")
  /\ calls' = [calls EXCEPT ![c].op = "cidrs", ![c].step = "sent"]
  /\ UNCHANGED <<page, history>>

\* The keys are shown whatever has become of the addresses, and are empty if they
\* could not be read.
CidrsArrive(c) ==
  /\ Arrives(c, "cidrs")
  /\ Send(c, Idle)
  /\ LET call == calls[c]
         secrets == [primary |-> call.row.primary, secondary |-> call.row.secondary]
     IN  rows' = updateApiKey(call.key, IF call.step = "ok" THEN call.row ELSE secrets)
  /\ UNCHANGED <<offset, loaded, crashed, history>>

\* The effect of keysData or cidrsData, which looks for the row without asking
\* whether it is there.
Show(c, newValues) ==
  IF calls[c].step = "error" THEN UNCHANGED <<rows, crashed>>
  ELSE IF calls[c].key \in DOMAIN rows
    THEN rows' = updateApiKey(calls[c].key, newValues) /\ UNCHANGED crashed
    ELSE crashed' = TRUE /\ UNCHANGED rows

\* Wrong on purpose: the answer does not say which subscription it is about, and
\* the effect drops it.
DropRegenerated(c) ==
  /\ Arrives(c, "regenerate")
  /\ Send(c, Idle)
  /\ UNCHANGED <<page, history>>

RegenerateArrives(c) ==
  /\ Arrives(c, "regenerate")
  /\ Send(c, Idle)
  /\ Show(c, [primary |-> calls[c].row.primary, secondary |-> calls[c].row.secondary])
  /\ UNCHANGED <<offset, loaded, history>>

UpdateArrives(c) ==
  /\ Arrives(c, "update")
  /\ Send(c, Idle)
  /\ Show(c, [cidrs |-> calls[c].row.cidrs])
  /\ UNCHANGED <<offset, loaded, history>>

\* Wrong on purpose: the list is read again over the rows that are there.
DeleteKeepsRows(c) ==
  /\ Arrives(c, "delete")
  /\ offset' = 0
  /\ loaded' = NoData
  /\ Send(c, [Idle EXCEPT !.op = "list"])
  /\ crossed' = (InFlight # {c})
  /\ UNCHANGED <<rows, crashed, raced, unanswered>>

\* handleDeleteClick after its await: whatever the answer, the list is read again
\* from the start, with the same call slot.
DeleteArrives(c) ==
  /\ Arrives(c, "delete")
  /\ rows' = <<>>
  /\ offset' = 0
  /\ loaded' = NoData
  /\ Send(c, [Idle EXCEPT !.op = "list"])
  /\ crossed' = (InFlight # {c})
  /\ UNCHANGED <<crashed, raced, unanswered>>

-----------------------------------------------------------------------------
Init ==
  /\ subscriptions = Listed
  /\ keys = [k \in Key |-> [primary |-> 1, secondary |-> 1]]
  /\ cidrs = [k \in Key |-> 1]
  /\ rows = <<>> /\ offset = 0 /\ loaded = NoData /\ crashed = FALSE
  /\ \E c \in Call :
       calls = [d \in Call |-> IF d = c THEN [Idle EXCEPT !.op = "list"] ELSE Idle]
  /\ acts = 0 /\ faults = 0
  /\ crossed = FALSE /\ raced = {} /\ unanswered = {}

Administrator ==
  \E c \in Call :
    \/ LoadMore(c)
    \/ \E k \in DOMAIN rows :
         \/ Expand(c, k)
         \/ \E which \in {"primary", "secondary"} : RegenerateKey(c, k, which)
         \/ UpdateCidrs(c, k)
         \/ Delete(c, k)

Server ==
  \E c \in Call :
    \/ GetManageSubscriptions(c)
    \/ ValidateOwnership(c)
    \/ ListSecrets(c)
    \/ RetrieveCidrs(c)
    \/ Regenerate(c)
    \/ UpsertCidrs(c)
    \/ DeleteSubscription(c)
    \/ Fail(c)

Answers ==
  \E c \in Call :
    \/ ListArrives(c)
    \/ KeysArrive(c)
    \/ CidrsArrive(c)
    \/ RegenerateArrives(c)
    \/ UpdateArrives(c)
    \/ DeleteArrives(c)

Next == Administrator \/ Server \/ Answers

Spec == Init /\ [][Next]_vars

-----------------------------------------------------------------------------
(* Properties                                                               *)

\* The rows are whole: whatever answer is merged into one, it has its two keys and
\* its addresses, empty or not. The calls and the server keep their shape.
TypeOK ==
  /\ Existing \subseteq Key
  /\ keys \in [Key -> [primary : Version, secondary : Version]]
  /\ cidrs \in [Key -> Version]
  /\ DOMAIN rows \subseteq Key
  /\ \A k \in DOMAIN rows : rows[k] \in Row
  /\ offset \in Nat
  /\ \A c \in Call :
       /\ calls[c].op \in Op
       /\ calls[c].key \in Key \cup {NoKey}
       /\ calls[c].step \in {"sent", "owned", "done", "ok", "error"}
       /\ calls[c].row \in Row
  /\ crashed \in BOOLEAN /\ crossed \in BOOLEAN
  /\ raced \subseteq Key /\ unanswered \subseteq Key

\* The list of the page is that of the server: once every call is answered, no key
\* that was deleted is shown, also when the deletion seemed to fail, and if the last
\* page arrived, the rows are all those up to it and the button says whether there
\* are more. The page has not crashed. Not so if other calls were in flight when a
\* deletion reset the rows: their answers bring back rows, or look for rows that are
\* gone (crossed).
ListAgrees ==
  ~ crossed =>
    /\ ~ crashed
    /\ InFlight = {} =>
         /\ DOMAIN rows \subseteq Existing
         /\ loaded # NoData =>
              /\ loaded = PageFrom(offset)
              /\ DOMAIN rows = {subscriptions[i] : i \in
                                  {j \in DOMAIN subscriptions : j <= offset + Limit}}

\* The keys that are copied from the page work: a key and the addresses that are
\* shown are those of the server, once the calls about the subscription are answered,
\* however rows are opened, changed, listed again and calls fail. Not so for a
\* subscription that was changed with an older answer on its way (raced), or by a
\* call whose answer was lost (unanswered), until its row is listed again.
KeysShownAreCurrent ==
  \A k \in (DOMAIN rows \cap Existing) \ (raced \cup unanswered) :
    About(k) = {} =>
      /\ rows[k].primary # 0 => /\ rows[k].primary = keys[k].primary
                                /\ rows[k].secondary = keys[k].secondary
      /\ rows[k].cidrs \in {0, cidrs[k]}
=============================================================================
