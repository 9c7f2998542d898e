---------------------------- MODULE Backoffice_proofs ----------------------------
(***************************************************************************)
(* Proofs about the parts of the backoffice that work on the API keys of   *)
(* groups, which share no state: the page of the keys (GroupKeysPage), for *)
(* any list of subscriptions, any size of the pages of the list and any    *)
(* number of calls and failures; and the export (ApiKeysExport), for any   *)
(* institutions and number of requests at work, any duration of the files, *)
(* any size of the pages and any changes of self-care.                     *)
(***************************************************************************)
EXTENDS GroupKeysPage, ApiKeysExport, FiniteSetTheorems, FunctionTheorems,
        SequenceTheorems, TLAPS

-----------------------------------------------------------------------------
(* The inductive invariants                                                 *)

CallRecord == [op : Op, key : Key \cup {NoKey}, which : {"primary", "secondary"},
               offset : Nat, step : {"sent", "owned", "done", "ok", "error"},
               listed : Seq(Key), row : Row]

\* The calls that will change a version on the server.
Pending == {c \in Call : /\ calls[c].op \in {"regenerate", "update"}
                         /\ calls[c].step \in {"sent", "owned"}}

\* TypeOK says nothing of what bounds the versions: every click makes at most one.
TypeInv ==
  /\ TypeOK
  /\ subscriptions \in Seq(Key)
  /\ rows \in [DOMAIN rows -> Row]
  /\ calls \in [Call -> CallRecord]
  /\ \A c \in Call : calls[c].key = NoKey <=> calls[c].op \in {"idle", "list"}
  /\ acts \in 0..MaxAct
  /\ \A k \in Key :
       /\ \A which \in {"primary", "secondary"} :
            keys[k][which] \in 1..(acts + 1 - Cardinality(Pending))
       /\ cidrs[k] \in 1..(acts + 1 - Cardinality(Pending))

\* Between two deletions rows are only added: the one a call is about is there when
\* its answer arrives, unless a deletion was answered in between.
Expected ==
  ~ crossed =>
    /\ ~ crashed
    /\ \A c \in Call : calls[c].key # NoKey => calls[c].key \in DOMAIN rows

First(o) == {subscriptions[i] : i \in {j \in DOMAIN subscriptions : j <= o}}

Deleting == \E c \in Call : calls[c].op = "delete"

\* While nothing is being deleted, the list is read one page at a time: either the
\* next page is on its way, and the rows are those before it, or it arrived, or it
\* could not be read, and then the page reads no other.
Listing ==
  ~ crossed /\ ~ Deleting =>
    /\ \A c \in Call : calls[c].op = "list" =>
         /\ \A d \in Call : calls[d].op = "list" => d = c
         /\ loaded = NoData
         /\ DOMAIN rows = First(offset)
         /\ calls[c].offset = offset
         /\ calls[c].step = "ok" => calls[c].listed = PageFrom(offset)
    /\ DOMAIN rows \subseteq Existing
    /\ loaded # NoData => /\ loaded = PageFrom(offset)
                          /\ DOMAIN rows = First(offset + Limit)

\* The answer of a call that changed a version is on its way.
Regenerated(call) == call.op = "regenerate" /\ call.step \in {"done", "ok"}
Updated(call) == call.op = "update" /\ call.step = "ok"

\* The versions in a row, or in an answer, are those of the server.
CurrentKeys(k, row) ==
  row.primary # 0 => row.primary = keys[k].primary /\ row.secondary = keys[k].secondary
CurrentCidrs(k, row) == row.cidrs \in {0, cidrs[k]}

\* An answer about k carries no old version, and a new one if it changed it.
Carries(k, call) ==
  /\ CurrentKeys(k, call.row) /\ CurrentCidrs(k, call.row)
  /\ Regenerated(call) /\ call.step = "ok" => call.row.primary # 0
  /\ Updated(call) => call.row.cidrs # 0

FreshAnswers(k) == \A c \in About(k) : Carries(k, calls[c])

\* The row of k shows an old version only while the answer that replaces it is on
\* its way.
FreshKeys(k) ==
  k \in DOMAIN rows =>
    CurrentKeys(k, rows[k]) \/ \E c \in About(k) : Regenerated(calls[c])
FreshCidrs(k) ==
  k \in DOMAIN rows =>
    CurrentCidrs(k, rows[k]) \/ \E c \in About(k) : Updated(calls[c])

\* The subscriptions that were not changed in a race or by a lost answer.
Trusted == Existing \ (raced \cup unanswered)

Fresh == \A k \in Trusted : FreshAnswers(k) /\ FreshKeys(k) /\ FreshCidrs(k)

-----------------------------------------------------------------------------
(* The operators                                                            *)

LEMMA EmptyRowType == EmptyRow \in Row
  BY BoundAssumption DEF EmptyRow, Row, Version

LEMMA OverSecrets ==
  ASSUME NEW row \in Row, NEW secrets \in [primary : Version, secondary : Version]
  PROVE  /\ Over(secrets, row) \in Row
         /\ Over(secrets, row).primary = secrets.primary
         /\ Over(secrets, row).secondary = secrets.secondary
         /\ Over(secrets, row).cidrs = row.cidrs
  BY DEF Over, Row

LEMMA OverCidrs ==
  ASSUME NEW row \in Row, NEW version \in Version, NEW new, new = [cidrs |-> version]
  PROVE  /\ Over(new, row) \in Row
         /\ Over(new, row).cidrs = version
         /\ Over(new, row).primary = row.primary
         /\ Over(new, row).secondary = row.secondary
  BY DEF Over, Row

LEMMA OverRow ==
  ASSUME NEW row \in Row, NEW new \in Row
  PROVE  Over(new, row) = new
  BY DEF Over, Row

\* Rows that are put over those that are there.
LEMMA OverRows ==
  ASSUME NEW ids \in SUBSET Key, NEW new \in [ids -> Row],
         rows \in [DOMAIN rows -> Row], DOMAIN rows \subseteq Key, rows' = Over(new, rows)
  PROVE  /\ rows' \in [DOMAIN rows' -> Row]
         /\ DOMAIN rows' = DOMAIN rows \cup ids
         /\ DOMAIN rows' \subseteq Key
         /\ \A k \in DOMAIN rows' : rows'[k] = IF k \in ids THEN new[k] ELSE rows[k]
  BY DEF Over

\* An answer that is merged into a row: the row has the new values, and of the old
\* ones those that are not new.
LEMMA UpdatedRows ==
  ASSUME TypeInv, NEW k \in Key, NEW newValues, rows' = updateApiKey(k, newValues),
         \A row \in Row : Over(newValues, row) \in Row
  PROVE  /\ rows' \in [DOMAIN rows' -> Row]
         /\ DOMAIN rows' = DOMAIN rows \cup {k}
         /\ DOMAIN rows' \subseteq Key
         /\ rows'[k] = Over(newValues, IF k \in DOMAIN rows THEN rows[k] ELSE EmptyRow)
         /\ \A j \in DOMAIN rows : j # k => rows'[j] = rows[j]
  <1> DEFINE row == IF k \in DOMAIN rows THEN rows[k] ELSE EmptyRow
             new == [j \in {k} |-> Over(newValues, row)]
  <1>1. row \in Row
    BY EmptyRowType DEF TypeInv
  <1>2. Over(newValues, row) \in Row
    BY <1>1
  <1>3. new \in [{k} -> Row] /\ new[k] = Over(newValues, row)
    BY <1>2
  <1>4. rows' = Over(new, rows)
    BY DEF updateApiKey
  <1> HIDE DEF new, row
  <1>5. /\ rows' \in [DOMAIN rows' -> Row]
        /\ DOMAIN rows' = DOMAIN rows \cup {k}
        /\ DOMAIN rows' \subseteq Key
        /\ \A j \in DOMAIN rows' : rows'[j] = IF j \in {k} THEN new[j] ELSE rows[j]
    <2>1. /\ {k} \in SUBSET Key /\ new \in [{k} -> Row]
          /\ rows \in [DOMAIN rows -> Row] /\ DOMAIN rows \subseteq Key
      BY <1>3 DEF TypeInv, TypeOK
    <2>2. QED
      BY <1>4, <2>1, OverRows
  <1>6. QED
    BY <1>3, <1>5 DEF row

LEMMA SubscriptionsType ==
  ASSUME TypeInv
  PROVE  /\ Len(subscriptions) \in Nat
         /\ DOMAIN subscriptions = 1..Len(subscriptions)
         /\ \A i \in DOMAIN subscriptions : subscriptions[i] \in Existing
  BY LenProperties DEF TypeInv, Existing

\* What is left has lost the subscription and nothing else came in.
LEMMA WithoutType ==
  ASSUME TypeInv, NEW k \in Existing, subscriptions' = Without(k)
  PROVE  subscriptions' \in Seq(Key) /\ Existing' \subseteq Existing
  <1> DEFINE i == CHOOSE j \in DOMAIN subscriptions : subscriptions[j] = k
             left == SubSeq(subscriptions, 1, i - 1)
             right == SubSeq(subscriptions, i + 1, Len(subscriptions))
  <1>1. i \in 1..Len(subscriptions) /\ Len(subscriptions) \in Nat
    BY SubscriptionsType DEF Existing
  <1> HIDE DEF i
  <1>2. \A j \in 1..Len(subscriptions) : subscriptions[j] \in Existing
    BY SubscriptionsType
  <1>3. left \in Seq(Existing)
    <2>1. \A j \in 1..(i - 1) : subscriptions[j] \in Existing
      BY <1>1, <1>2
    <2>2. 1 \in Int /\ i - 1 \in Int
      BY <1>1
    <2>3. QED
      BY <2>1, <2>2, SubSeqProperties
  <1>4. right \in Seq(Existing)
    <2>1. \A j \in (i + 1)..Len(subscriptions) : subscriptions[j] \in Existing
      BY <1>1, <1>2
    <2>2. i + 1 \in Int /\ Len(subscriptions) \in Int
      BY <1>1
    <2>3. QED
      BY <2>1, <2>2, SubSeqProperties
  <1>5. subscriptions' = left \o right
    BY DEF Without, i
  <1> HIDE DEF left, right
  <1>6. subscriptions' \in Seq(Existing)
    BY <1>3, <1>4, <1>5, ConcatProperties
  <1>7. Existing \subseteq Key
    BY DEF TypeInv, TypeOK
  <1>8. Existing' \subseteq Existing
    BY <1>6, LenProperties DEF Existing
  <1>9. QED
    BY <1>6, <1>7, <1>8, SeqMonotonic

-----------------------------------------------------------------------------
(* What the steps do to the calls                                           *)

\* A call becomes another, and the others stay.
Becomes(c, new) ==
  /\ calls' = [calls EXCEPT ![c] = new]
  /\ new \in CallRecord
  /\ new.key = NoKey <=> new.op \in {"idle", "list"}

LEMMA BecomesCalls ==
  ASSUME TypeInv, NEW c \in Call, NEW new, Becomes(c, new)
  PROVE  /\ calls' \in [Call -> CallRecord]
         /\ calls'[c] = new /\ \A d \in Call : d # c => calls'[d] = calls[d]
         /\ \A d \in Call : calls'[d].key = NoKey <=> calls'[d].op \in {"idle", "list"}
  BY DEF TypeInv, Becomes

LEMMA CallType ==
  ASSUME TypeInv, NEW c \in Call
  PROVE  /\ calls[c] \in CallRecord
         /\ calls[c].op \in Op /\ calls[c].row \in Row
         /\ calls[c].op \notin {"idle", "list"} => calls[c].key \in Key
  BY DEF TypeInv, CallRecord

LEMMA IdleCall ==
  /\ Idle \in CallRecord /\ Idle.key = NoKey /\ Idle.op = "idle"
  /\ Idle.step = "sent" /\ Idle.row = EmptyRow /\ Idle.offset = 0
  BY EmptyRowType DEF Idle, CallRecord, Op

\* A call that is sent about a subscription carries nothing yet.
Asked(new, k) ==
  /\ new \in CallRecord /\ new.key = k
  /\ new.op \in {"keys", "cidrs", "regenerate", "update", "delete"}
  /\ new.step = "sent" /\ new.row = EmptyRow

LEMMA AskedKeys ==
  ASSUME NEW k \in Key, NEW new, new = [Idle EXCEPT !.op = "keys", !.key = k]
  PROVE  Asked(new, k) /\ new.op = "keys"
  BY IdleCall DEF CallRecord, Op, Asked

LEMMA AskedRegenerate ==
  ASSUME NEW k \in Key, NEW which \in {"primary", "secondary"}, NEW new,
         new = [Idle EXCEPT !.op = "regenerate", !.key = k, !.which = which]
  PROVE  Asked(new, k) /\ new.op = "regenerate"
  BY IdleCall DEF CallRecord, Op, Asked

LEMMA AskedUpdate ==
  ASSUME NEW k \in Key, NEW new, new = [Idle EXCEPT !.op = "update", !.key = k]
  PROVE  Asked(new, k) /\ new.op = "update"
  BY IdleCall DEF CallRecord, Op, Asked

LEMMA AskedDelete ==
  ASSUME NEW k \in Key, NEW new, new = [Idle EXCEPT !.op = "delete", !.key = k]
  PROVE  Asked(new, k) /\ new.op = "delete"
  BY IdleCall DEF CallRecord, Op, Asked

\* A click on a row sends a call about it.
Asks(c, k) ==
  \/ Expand(c, k)
  \/ \E which \in {"primary", "secondary"} : RegenerateKey(c, k, which)
  \/ UpdateCidrs(c, k)
  \/ Delete(c, k)

LEMMA AskEffect ==
  ASSUME TypeInv, NEW c \in Call, NEW k \in DOMAIN rows, Asks(c, k)
  PROVE  /\ \E new : Becomes(c, new) /\ Asked(new, k)
         /\ calls[c] = Idle /\ ~ crashed /\ acts < MaxAct /\ acts' = acts + 1
         /\ UNCHANGED <<server, page, faults, history>>
  <1>1. k \in Key /\ k # NoKey
    BY NoKeyAssumption DEF TypeInv, TypeOK
  <1>2. /\ calls[c] = Idle /\ ~ crashed /\ acts < MaxAct /\ acts' = acts + 1
        /\ UNCHANGED <<server, page, faults, history>>
    BY DEF Asks, Expand, RegenerateKey, UpdateCidrs, Delete, Click, page
  <1>3. ASSUME NEW new, Asked(new, k), calls' = [calls EXCEPT ![c] = new]
        PROVE  Becomes(c, new) /\ Asked(new, k)
    BY <1>1, <1>3 DEF Becomes, Asked
  <1>4. CASE Expand(c, k)
    <2>1. PICK new : new = [Idle EXCEPT !.op = "keys", !.key = k]
      OBVIOUS
    <2>2. QED
      BY <1>1, <1>2, <1>3, <1>4, <2>1, AskedKeys DEF Expand, Send
  <1>5. ASSUME NEW which \in {"primary", "secondary"}, RegenerateKey(c, k, which)
        PROVE  \E new : Becomes(c, new) /\ Asked(new, k)
    <2>1. PICK new : new = [Idle EXCEPT !.op = "regenerate", !.key = k, !.which = which]
      OBVIOUS
    <2>2. QED
      BY <1>1, <1>2, <1>3, <1>5, <2>1, AskedRegenerate DEF RegenerateKey, Send
  <1>6. CASE UpdateCidrs(c, k)
    <2>1. PICK new : new = [Idle EXCEPT !.op = "update", !.key = k]
      OBVIOUS
    <2>2. QED
      BY <1>1, <1>2, <1>3, <1>6, <2>1, AskedUpdate DEF UpdateCidrs, Send
  <1>7. CASE Delete(c, k)
    <2>1. PICK new : new = [Idle EXCEPT !.op = "delete", !.key = k]
      OBVIOUS
    <2>2. QED
      BY <1>1, <1>2, <1>3, <1>7, <2>1, AskedDelete DEF Delete, Send
  <1>8. QED
    BY <1>2, <1>4, <1>5, <1>6, <1>7 DEF Asks

\* The list that is read next, by a click or after a deletion.
Lists(new, o) == /\ new \in CallRecord /\ new.key = NoKey /\ new.op = "list"
                 /\ new.step = "sent" /\ new.row = EmptyRow /\ new.offset = o

LEMMA ListsFrom ==
  ASSUME NEW o \in Nat, NEW new, new = [Idle EXCEPT !.op = "list", !.offset = o]
  PROVE  Lists(new, o)
  BY IdleCall DEF CallRecord, Op, Lists

LEMMA ListsAgain ==
  ASSUME NEW new, new = [Idle EXCEPT !.op = "list"]
  PROVE  Lists(new, 0)
  BY IdleCall DEF CallRecord, Op, Lists

LEMMA LoadEffect ==
  ASSUME TypeInv, NEW c \in Call, LoadMore(c)
  PROVE  /\ \E new : Becomes(c, new) /\ Lists(new, offset')
         /\ offset' = offset + Limit /\ offset' \in Nat /\ loaded' = NoData
         /\ loaded # NoData /\ Len(loaded) = Limit
         /\ calls[c] = Idle /\ ~ crashed /\ acts < MaxAct /\ acts' = acts + 1
         /\ UNCHANGED <<server, rows, crashed, faults, history>>
  <1>1. /\ offset' = offset + Limit /\ loaded' = NoData
        /\ loaded # NoData /\ Len(loaded) = Limit
        /\ calls[c] = Idle /\ ~ crashed /\ acts < MaxAct /\ acts' = acts + 1
        /\ UNCHANGED <<server, rows, crashed, faults, history>>
    BY DEF LoadMore, Click
  <1>2. offset' \in Nat
    BY <1>1, LimitAssumption DEF TypeInv, TypeOK
  <1>3. PICK new : new = [Idle EXCEPT !.op = "list", !.offset = offset']
    OBVIOUS
  <1>4. Lists(new, offset')
    BY <1>2, <1>3, ListsFrom
  <1>5. calls' = [calls EXCEPT ![c] = new]
    BY <1>3 DEF LoadMore, Send
  <1>6. Becomes(c, new)
    BY <1>4, <1>5 DEF Becomes, Lists
  <1>7. QED
    BY <1>1, <1>2, <1>4, <1>6

\* The server works on a call, which stays what it was and about what it was.
Serves(c, new) == /\ Becomes(c, new)
                  /\ new.op = calls[c].op /\ new.key = calls[c].key
                  /\ new.offset = calls[c].offset

Step == {"sent", "owned", "done", "ok", "error"}

LEMMA BecomeEffect ==
  ASSUME TypeInv, NEW c \in Call, NEW step \in Step, Become(c, step)
  PROVE  \E new : /\ Serves(c, new) /\ new.step = step
                  /\ new.row = calls[c].row /\ new.listed = calls[c].listed
  <1>1. PICK new : new = [calls[c] EXCEPT !.step = step]
    OBVIOUS
  <1>2. calls[c] \in CallRecord
    BY CallType
  <1>3. /\ new \in CallRecord /\ new.step = step
        /\ new.op = calls[c].op /\ new.key = calls[c].key /\ new.offset = calls[c].offset
        /\ new.row = calls[c].row /\ new.listed = calls[c].listed
    BY <1>1, <1>2 DEF CallRecord, Step
  <1>4. calls' = [calls EXCEPT ![c] = new]
    BY <1>1 DEF Become
  <1>5. QED
    BY <1>3, <1>4 DEF Serves, Becomes, TypeInv

\* A call that gets another row, or another list, with its step.
LEMMA RowEffect ==
  ASSUME TypeInv, NEW c \in Call, NEW row \in Row, NEW step \in Step,
         calls' = [calls EXCEPT ![c].step = step, ![c].row = row]
  PROVE  \E new : Serves(c, new) /\ new.step = step /\ new.row = row
  <1>1. PICK new : new = [calls[c] EXCEPT !.step = step, !.row = row]
    OBVIOUS
  <1>2. calls[c] \in CallRecord
    BY CallType
  <1>3. /\ new \in CallRecord /\ new.step = step /\ new.row = row
        /\ new.op = calls[c].op /\ new.key = calls[c].key /\ new.offset = calls[c].offset
    BY <1>1, <1>2 DEF CallRecord, Step
  <1>4. calls' = [calls EXCEPT ![c] = new]
    BY <1>1
  <1>5. QED
    BY <1>3, <1>4 DEF Serves, Becomes, TypeInv

LEMMA CidrsEffect ==
  ASSUME TypeInv, NEW c \in Call, NEW version \in Version,
         calls' = [calls EXCEPT ![c].step = "ok", ![c].row.cidrs = version]
  PROVE  \E new : /\ Serves(c, new) /\ new.step = "ok" /\ new.row.cidrs = version
                  /\ new.row.primary = calls[c].row.primary
                  /\ new.row.secondary = calls[c].row.secondary
  <1>1. PICK row : row = [calls[c].row EXCEPT !.cidrs = version]
    OBVIOUS
  <1>2. /\ row \in Row /\ row.cidrs = version /\ row.primary = calls[c].row.primary
        /\ row.secondary = calls[c].row.secondary
    BY <1>1, CallType DEF Row
  <1>3. PICK new : new = [calls[c] EXCEPT !.step = "ok", !.row = row]
    OBVIOUS
  <1>4. /\ new \in CallRecord /\ new.step = "ok" /\ new.row = row
        /\ new.op = calls[c].op /\ new.key = calls[c].key /\ new.offset = calls[c].offset
    BY <1>2, <1>3, CallType DEF CallRecord
  <1>5. calls' = [calls EXCEPT ![c] = new]
    BY <1>1, <1>3, CallType DEF CallRecord
  <1>6. QED
    BY <1>2, <1>4, <1>5 DEF Serves, Becomes, TypeInv

LEMMA PageType ==
  ASSUME TypeInv, NEW o \in Nat
  PROVE  PageFrom(o) \in Seq(Key)
  <1> DEFINE last == IF o + Limit < Len(subscriptions) THEN o + Limit
                                                       ELSE Len(subscriptions)
  <1>1. /\ o + 1 \in Int /\ last \in Int
        /\ \A i \in (o + 1)..last : subscriptions[i] \in Key
    BY SubscriptionsType, LimitAssumption DEF TypeInv, TypeOK
  <1> HIDE DEF last
  <1>2. SubSeq(subscriptions, o + 1, last) \in Seq(Key)
    BY <1>1, SubSeqProperties
  <1>3. QED
    BY <1>2 DEF PageFrom, last

LEMMA ListEffect ==
  ASSUME TypeInv, NEW c \in Call, GetManageSubscriptions(c)
  PROVE  /\ calls[c].op = "list"
         /\ \E new : /\ Serves(c, new) /\ new.step = "ok" /\ new.row = calls[c].row
                     /\ new.listed = PageFrom(calls[c].offset)
         /\ UNCHANGED <<server, page, acts, faults, history>>
  <1>1. PICK listed : listed = PageFrom(calls[c].offset)
    OBVIOUS
  <1>2. calls[c].offset \in Nat /\ calls[c] \in CallRecord
    BY CallType DEF CallRecord
  <1>3. listed \in Seq(Key)
    BY <1>1, <1>2, PageType
  <1>4. PICK new : new = [calls[c] EXCEPT !.step = "ok", !.listed = listed]
    OBVIOUS
  <1>5. /\ new \in CallRecord /\ new.step = "ok" /\ new.listed = listed
        /\ new.op = calls[c].op /\ new.key = calls[c].key /\ new.offset = calls[c].offset
        /\ new.row = calls[c].row
    BY <1>2, <1>3, <1>4 DEF CallRecord
  <1>6. calls' = [calls EXCEPT ![c] = new]
    BY <1>1, <1>4 DEF GetManageSubscriptions
  <1>7. QED
    BY <1>1, <1>5, <1>6 DEF GetManageSubscriptions, Serving, Serves, Becomes, TypeInv

\* A call that fails carries nothing, but for the keys read before the addresses.
LEMMA FailEffect ==
  ASSUME TypeInv, NEW c \in Call, Fail(c)
  PROVE  /\ calls[c] # Idle
         /\ \E new : /\ Serves(c, new) /\ new.step = "error" /\ new.row.cidrs = 0
                     /\ \/ new.row.primary = 0
                        \/ /\ new.row.primary = calls[c].row.primary
                           /\ new.row.secondary = calls[c].row.secondary
         /\ UNCHANGED <<server, page, acts, crossed, raced>>
  <1>1. PICK row : row = IF calls[c].op = "cidrs" THEN [calls[c].row EXCEPT !.cidrs = 0]
                                                   ELSE EmptyRow
    OBVIOUS
  <1>2. calls[c] \in CallRecord /\ calls[c].row \in Row /\ EmptyRow \in Row
    BY CallType, EmptyRowType
  <1>3. /\ row \in Row /\ row.cidrs = 0
        /\ \/ row.primary = 0
           \/ row.primary = calls[c].row.primary /\ row.secondary = calls[c].row.secondary
    <2>1. CASE calls[c].op = "cidrs"
      <3>1. row = [calls[c].row EXCEPT !.cidrs = 0]
        BY <1>1, <2>1
      <3>2. 0 \in Version
        BY BoundAssumption DEF Version
      <3>3. QED
        BY <1>2, <3>1, <3>2 DEF Row
    <2>2. CASE calls[c].op # "cidrs"
      BY <1>1, <1>2, <2>2 DEF EmptyRow
    <2>3. QED
      BY <2>1, <2>2
  <1>4. <<>> \in Seq(Key)
    OBVIOUS
  <1>5. PICK none : none = <<>>
    OBVIOUS
  <1>6. PICK new : new = [calls[c] EXCEPT !.step = "error", !.listed = none, !.row = row]
    OBVIOUS
  <1>7. /\ new \in CallRecord /\ new.step = "error" /\ new.row = row
        /\ new.op = calls[c].op /\ new.key = calls[c].key /\ new.offset = calls[c].offset
    BY <1>2, <1>3, <1>4, <1>5, <1>6 DEF CallRecord
  <1>8. calls' = [calls EXCEPT ![c] = new]
    BY <1>1, <1>2, <1>5, <1>6 DEF Fail
  <1>9. QED
    BY <1>3, <1>7, <1>8, ZenonT(40) DEF Fail, Serves, Becomes, TypeInv

-----------------------------------------------------------------------------
(* The versions have room                                                   *)

LEMMA PendingType ==
  IsFiniteSet(Pending) /\ Cardinality(Pending) \in Nat
  <1>1. Pending \in SUBSET Call
    BY DEF Pending
  <1>2. IsFiniteSet(Pending)
    BY <1>1, CallAssumption, FS_Subset
  <1>3. QED
    BY <1>2, FS_CardinalityType

\* The calls that are yet to change a version: c joins them, leaves them, or neither.
LEMMA PendingStep ==
  ASSUME TypeInv, NEW c \in Call, \A d \in Call : d # c => calls'[d] = calls[d]
  PROVE  /\ Cardinality(Pending') \in Nat
         /\ c \in Pending /\ c \notin Pending' =>
              Cardinality(Pending') = Cardinality(Pending) - 1
         /\ c \notin Pending /\ c \in Pending' =>
              Cardinality(Pending') = Cardinality(Pending) + 1
         /\ (c \in Pending <=> c \in Pending') => Pending' = Pending
  <1>1. \A d \in Call : d # c => (d \in Pending <=> d \in Pending')
    BY DEF Pending
  <1>2. Pending \subseteq Call /\ Pending' \subseteq Call
    BY DEF Pending
  <1>3. CASE c \in Pending /\ c \notin Pending'
    <2>1. Pending' = Pending \ {c}
      BY <1>1, <1>2, <1>3
    <2>2. QED
      BY <1>3, <2>1, PendingType, FS_RemoveElement, FS_CardinalityType
  <1>4. CASE c \notin Pending /\ c \in Pending'
    <2>1. Pending' = Pending \cup {c}
      BY <1>1, <1>2, <1>4
    <2>2. QED
      BY <1>4, <2>1, PendingType, FS_AddElement, FS_CardinalityType
  <1>5. CASE c \in Pending <=> c \in Pending'
    <2>1. Pending' = Pending
      BY <1>1, <1>2, <1>5
    <2>2. QED
      BY <1>5, <2>1, PendingType
  <1>6. QED
    BY <1>3, <1>4, <1>5

\* The versions have room: one more for every call that is still to change one.
Room == acts + 1 - Cardinality(Pending)

Numbered ==
  \A k \in Key :
    /\ \A which \in {"primary", "secondary"} : keys[k][which] \in 1..Room
    /\ cidrs[k] \in 1..Room

LEMMA RoomType ==
  ASSUME TypeInv
  PROVE  Numbered /\ Room \in Int /\ Room <= MaxAct + 1 /\ 1..Room \subseteq Version
  <1>1. Room \in Int /\ Room <= MaxAct + 1
    BY PendingType, BoundAssumption DEF Room, TypeInv
  <1>2. 1..Room \subseteq Version
    BY <1>1, BoundAssumption DEF Version
  <1>3. QED
    BY <1>1, <1>2 DEF TypeInv, Numbered, Room

\* There is as much room after any step that changes no version as before.
LEMMA StillNumbered ==
  ASSUME TypeInv, UNCHANGED <<keys, cidrs>>, Room' \in Int, Room' >= Room
  PROVE  Numbered'
  <1>1. 1..Room \subseteq 1..Room'
    BY RoomType
  <1>2. QED
    BY <1>1, RoomType DEF Numbered

LEMMA RoomStep ==
  ASSUME TypeInv, NEW c \in Call, \A d \in Call : d # c => calls'[d] = calls[d],
         \/ acts' = acts /\ (c \in Pending' => c \in Pending)
         \/ acts' = acts + 1
  PROVE  /\ Room' \in Int /\ Room' >= Room
         /\ acts' = acts /\ c \in Pending /\ c \notin Pending' => Room' = Room + 1
  <1>1. acts \in Int /\ Cardinality(Pending) \in Int
    BY PendingType, BoundAssumption DEF TypeInv
  <1>2. QED
    BY <1>1, PendingStep DEF Room

\* The parts of TypeInv, after a step.
LEMMA TypeFromParts ==
  ASSUME subscriptions' \in Seq(Key), Existing' \subseteq Key,
         keys' \in [Key -> [primary : Version, secondary : Version]],
         cidrs' \in [Key -> Version],
         rows' \in [DOMAIN rows' -> Row], DOMAIN rows' \subseteq Key,
         offset' \in Nat, calls' \in [Call -> CallRecord],
         \A c \in Call : calls'[c].key = NoKey <=> calls'[c].op \in {"idle", "list"},
         acts' \in 0..MaxAct, Numbered',
         crashed' \in BOOLEAN, crossed' \in BOOLEAN,
         raced' \subseteq Key, unanswered' \subseteq Key
  PROVE  TypeInv'
  <1>1. \A k \in DOMAIN rows' : rows'[k] \in Row
    OBVIOUS
  <1>2. \A c \in Call : /\ calls'[c].op \in Op
                         /\ calls'[c].key \in Key \cup {NoKey}
                         /\ calls'[c].step \in {"sent", "owned", "done", "ok", "error"}
                         /\ calls'[c].row \in Row
    BY DEF CallRecord
  <1>3. TypeOK'
    BY <1>1, <1>2 DEF TypeOK, Key, Version, Row, Op
  <1>4. QED
    BY <1>3 DEF TypeInv, Numbered, Room, Key, CallRecord, Row, Version, Op

\* A step that changes no version, and sets the rest right.
LEMMA TypeKept ==
  ASSUME TypeInv, NEW c \in Call, NEW new, Becomes(c, new), UNCHANGED <<keys, cidrs>>,
         \/ acts' = acts /\ (c \in Pending' => c \in Pending)
         \/ acts' = acts + 1 /\ acts < MaxAct,
         subscriptions' \in Seq(Key), Existing' \subseteq Key,
         rows' \in [DOMAIN rows' -> Row], DOMAIN rows' \subseteq Key, offset' \in Nat,
         crashed' \in BOOLEAN, crossed' \in BOOLEAN,
         raced' \subseteq Key, unanswered' \subseteq Key
  PROVE  TypeInv'
  <1>1. /\ calls' \in [Call -> CallRecord]
        /\ \A d \in Call : d # c => calls'[d] = calls[d]
        /\ \A d \in Call : calls'[d].key = NoKey <=> calls'[d].op \in {"idle", "list"}
    BY BecomesCalls
  <1>2. Numbered'
    BY <1>1, RoomStep, StillNumbered
  <1>3. acts' \in 0..MaxAct
    BY BoundAssumption DEF TypeInv
  <1>4. /\ keys' \in [Key -> [primary : Version, secondary : Version]]
        /\ cidrs' \in [Key -> Version]
    BY DEF TypeInv, TypeOK
  <1>5. QED
    BY <1>1, <1>2, <1>3, <1>4, TypeFromParts

LEMMA ValidateEffect ==
  ASSUME TypeInv, NEW c \in Call, ValidateOwnership(c)
  PROVE  /\ calls[c].op \notin {"idle", "list"} /\ calls[c].step = "sent"
         /\ \E new : /\ Serves(c, new) /\ new.step \in {"owned", "error"}
                     /\ new.row = calls[c].row
         /\ UNCHANGED <<server, page, acts, faults, history>>
  <1>1. PICK step \in {"owned", "error"} : Become(c, step)
    BY DEF ValidateOwnership
  <1>2. step \in Step
    BY DEF Step
  <1>3. QED
    BY <1>1, <1>2, BecomeEffect DEF ValidateOwnership

LEMMA SecretsEffect ==
  ASSUME TypeInv, NEW c \in Call, ListSecrets(c)
  PROVE  /\ calls[c].key \in Key
         /\ \/ calls[c].op = "keys" /\ calls[c].step = "owned"
            \/ calls[c].op = "regenerate" /\ calls[c].step = "done"
         /\ \E new :
              /\ Serves(c, new)
              /\ IF calls[c].key \in Existing
                   THEN /\ new.step = "ok" /\ new.row.cidrs = 0
                        /\ new.row.primary = keys[calls[c].key].primary
                        /\ new.row.secondary = keys[calls[c].key].secondary
                   ELSE new.step = "error" /\ new.row = calls[c].row
         /\ UNCHANGED <<server, page, acts, faults, history>>
  <1>1. /\ \/ calls[c].op = "keys" /\ calls[c].step = "owned"
           \/ calls[c].op = "regenerate" /\ calls[c].step = "done"
        /\ UNCHANGED <<server, page, acts, faults, history>>
    BY DEF ListSecrets, Serving
  <1>2. calls[c].key \in Key
    BY <1>1, CallType
  <1>3. CASE calls[c].key \in Existing
    <2>1. keys[calls[c].key] \in [primary : Version, secondary : Version]
      BY <1>2 DEF TypeInv, TypeOK
    <2>2. PICK row : row = Over(keys[calls[c].key], EmptyRow)
      OBVIOUS
    <2>3. /\ row \in Row /\ row.cidrs = 0
          /\ row.primary = keys[calls[c].key].primary
          /\ row.secondary = keys[calls[c].key].secondary
      BY <2>1, <2>2, EmptyRowType, OverSecrets DEF EmptyRow
    <2>4. calls' = [calls EXCEPT ![c].step = "ok", ![c].row = row]
      BY <1>3, <2>2 DEF ListSecrets
    <2>5. "ok" \in Step
      BY DEF Step
    <2>6. PICK new : Serves(c, new) /\ new.step = "ok" /\ new.row = row
      BY <2>3, <2>4, <2>5, RowEffect, ZenonT(40)
    <2>7. QED
      BY <1>1, <1>2, <1>3, <2>3, <2>6
  <1>4. CASE calls[c].key \notin Existing
    <2>1. Become(c, "error") /\ "error" \in Step
      BY <1>4 DEF ListSecrets, Step
    <2>2. QED
      BY <1>1, <1>2, <1>4, <2>1, BecomeEffect
  <1>5. QED
    BY <1>3, <1>4

LEMMA RetrieveEffect ==
  ASSUME TypeInv, NEW c \in Call, RetrieveCidrs(c)
  PROVE  /\ calls[c].op = "cidrs" /\ calls[c].key \in Key
         /\ \E new : /\ Serves(c, new) /\ new.step = "ok"
                     /\ new.row.cidrs = cidrs[calls[c].key]
                     /\ new.row.primary = calls[c].row.primary
                     /\ new.row.secondary = calls[c].row.secondary
         /\ UNCHANGED <<server, page, acts, faults, history>>
  <1>1. calls[c].op = "cidrs" /\ UNCHANGED <<server, page, acts, faults, history>>
    BY DEF RetrieveCidrs, Serving
  <1>2. calls[c].key \in Key
    BY <1>1, CallType
  <1>3. PICK version : version = cidrs[calls[c].key]
    OBVIOUS
  <1>4. version \in Version
    BY <1>2, <1>3 DEF TypeInv, TypeOK
  <1>5. calls' = [calls EXCEPT ![c].step = "ok", ![c].row.cidrs = version]
    BY <1>3 DEF RetrieveCidrs
  <1>6. PICK new : /\ Serves(c, new) /\ new.step = "ok" /\ new.row.cidrs = version
                   /\ new.row.primary = calls[c].row.primary
                   /\ new.row.secondary = calls[c].row.secondary
    BY <1>4, <1>5, CidrsEffect
  <1>7. QED
    BY <1>1, <1>2, <1>3, <1>6

\* A version that is changed leaves the room that its call took.
LEMMA RegenerateEffect ==
  ASSUME TypeInv, NEW c \in Call, Regenerate(c)
  PROVE  /\ calls[c].op = "regenerate" /\ calls[c].step = "owned" /\ calls[c].key \in Key
         /\ \E new : /\ Serves(c, new) /\ new.row = calls[c].row
                     /\ new.step = IF calls[c].key \in Existing THEN "done" ELSE "error"
         /\ IF calls[c].key \in Existing
              THEN /\ raced' = IF Carrying(calls[c].key, "primary") # {}
                                 THEN raced \cup {calls[c].key} ELSE raced
                   /\ \A k \in Key : k # calls[c].key => keys'[k] = keys[k]
              ELSE UNCHANGED <<keys, raced>>
         /\ UNCHANGED <<subscriptions, cidrs, page, acts, faults, crossed, unanswered>>
         /\ TypeInv'
  <1> DEFINE k == calls[c].key
  <1>1. /\ calls[c].op = "regenerate" /\ calls[c].step = "owned" /\ k \in Key
        /\ UNCHANGED <<subscriptions, cidrs, page, acts, faults, crossed, unanswered>>
    BY CallType DEF Regenerate, Serving
  <1>2. PICK new : /\ Serves(c, new) /\ new.row = calls[c].row
                   /\ new.step = IF k \in Existing THEN "done" ELSE "error"
    <2>1. Become(c, IF k \in Existing THEN "done" ELSE "error")
      BY DEF Regenerate
    <2>2. (IF k \in Existing THEN "done" ELSE "error") \in Step
      BY DEF Step
    <2>3. QED
      BY <2>1, <2>2, BecomeEffect
  <1>3. /\ calls' \in [Call -> CallRecord] /\ calls'[c] = new
        /\ \A d \in Call : d # c => calls'[d] = calls[d]
        /\ \A d \in Call : calls'[d].key = NoKey <=> calls'[d].op \in {"idle", "list"}
    BY <1>2, BecomesCalls DEF Serves
  <1>4. c \in Pending /\ c \notin Pending'
    BY <1>1, <1>2, <1>3 DEF Pending
  <1>5. Room' = Room + 1 /\ Room' \in Int
    BY <1>1, <1>3, <1>4, RoomStep
  <1>6. 1..Room' \subseteq Version /\ 1..Room \subseteq 1..Room'
    <2>1. Cardinality(Pending') \in Nat
      BY <1>3, PendingStep
    <2>2. Room' <= MaxAct + 1
      BY <1>1, <2>1, BoundAssumption DEF Room, TypeInv
    <2>3. QED
      BY <1>5, <2>2, RoomType, BoundAssumption DEF Version
  <1>7. CASE k \notin Existing
    <2>1. UNCHANGED <<keys, raced>>
      BY <1>7 DEF Regenerate
    <2>2. Numbered'
      BY <1>1, <1>5, <2>1, RoomType, StillNumbered
    <2>3. TypeInv'
      BY <1>1, <1>3, <2>1, <2>2, TypeFromParts DEF TypeInv, TypeOK, page, Existing
    <2>4. QED
      BY <1>1, <1>2, <1>7, <2>1, <2>3
  <1>8. CASE k \in Existing
    <2>1. PICK which \in {"primary", "secondary"} : which = calls[c].which
      BY CallType DEF CallRecord
    <2>2. keys' = [keys EXCEPT ![k][which] = @ + 1]
      BY <1>8, <2>1 DEF Regenerate
    <2>3. raced' = IF Carrying(k, "primary") # {} THEN raced \cup {k} ELSE raced
      BY <1>8 DEF Regenerate
    <2>4. /\ keys[k] \in [primary : Version, secondary : Version]
          /\ keys[k].primary \in 1..Room /\ keys[k].secondary \in 1..Room
      BY <1>1, RoomType DEF TypeInv, TypeOK, Numbered
    <2>5. /\ \A j \in Key : j # k => keys'[j] = keys[j]
          /\ keys'[k] = [keys[k] EXCEPT ![which] = @ + 1]
      BY <1>1, <2>2 DEF TypeInv, TypeOK
    <2>6. /\ keys'[k] \in [primary : Version, secondary : Version]
          /\ keys'[k].primary \in 1..Room' /\ keys'[k].secondary \in 1..Room'
      <3>1. PICK old : old = keys[k]
        OBVIOUS
      <3>2. PICK fresh : fresh = keys'[k]
        OBVIOUS
      <3>3. /\ old \in [primary : Version, secondary : Version]
            /\ old.primary \in 1..Room /\ old.secondary \in 1..Room
        BY <2>4, <3>1
      <3>4. fresh = [old EXCEPT ![which] = @ + 1]
        BY <2>5, <3>1, <3>2
      <3>5. Room \in Int /\ Room + 1 = Room'
        BY <1>5, RoomType
      <3>6. CASE which = "primary"
        <4>1. fresh = [old EXCEPT !.primary = old.primary + 1]
          BY <3>4, <3>6
        <4>2. old.primary + 1 \in 1..Room' /\ old.primary + 1 \in Version
          BY <1>6, <3>3, <3>5
        <4>3. /\ fresh \in [primary : Version, secondary : Version]
              /\ fresh.primary = old.primary + 1 /\ fresh.secondary = old.secondary
          BY <3>3, <4>1, <4>2
        <4>4. QED
          BY <1>6, <3>2, <3>3, <4>2, <4>3
      <3>7. CASE which = "secondary"
        <4>1. fresh = [old EXCEPT !.secondary = old.secondary + 1]
          BY <3>4, <3>7
        <4>2. old.secondary + 1 \in 1..Room' /\ old.secondary + 1 \in Version
          BY <1>6, <3>3, <3>5
        <4>3. /\ fresh \in [primary : Version, secondary : Version]
              /\ fresh.secondary = old.secondary + 1 /\ fresh.primary = old.primary
          BY <3>3, <4>1, <4>2
        <4>4. QED
          BY <1>6, <3>2, <3>3, <4>2, <4>3
      <3>8. QED
        BY <3>6, <3>7
    <2>7. keys' \in [Key -> [primary : Version, secondary : Version]]
      <3>1. DOMAIN keys' = Key /\ keys' = [j \in Key |-> keys'[j]]
        BY <2>2 DEF TypeInv, TypeOK
      <3>2. \A j \in Key : keys'[j] \in [primary : Version, secondary : Version]
        BY <2>5, <2>6 DEF TypeInv, TypeOK
      <3>3. QED
        BY <3>1, <3>2
    <2>8. Numbered'
      <3>1. ASSUME NEW j \in Key, j # k
            PROVE  \A w \in {"primary", "secondary"} : keys'[j][w] \in 1..Room'
        BY <1>6, <2>5, <3>1, RoomType DEF Numbered
      <3>2. \A w \in {"primary", "secondary"} : keys'[k][w] \in 1..Room'
        BY <2>6
      <3>3. \A j \in Key : cidrs'[j] \in 1..Room'
        BY <1>1, <1>6, RoomType DEF Numbered
      <3>4. QED
        BY <3>1, <3>2, <3>3 DEF Numbered, Key
    <2>9. raced' \subseteq Key
      BY <1>1, <2>3 DEF TypeInv, TypeOK
    <2>10. TypeInv'
      BY <1>1, <1>3, <2>7, <2>8, <2>9, TypeFromParts DEF TypeInv, TypeOK, page, Existing
    <2>11. QED
      BY <1>1, <1>2, <1>8, <2>3, <2>5, <2>10
  <1>9. QED
    BY <1>7, <1>8

LEMMA UpsertEffect ==
  ASSUME TypeInv, NEW c \in Call, UpsertCidrs(c)
  PROVE  /\ calls[c].op = "update" /\ calls[c].step = "owned" /\ calls[c].key \in Key
         /\ \E new : /\ Serves(c, new) /\ new.step = "ok"
                     /\ new.row.cidrs = cidrs'[calls[c].key]
                     /\ new.row.primary = calls[c].row.primary
                     /\ new.row.secondary = calls[c].row.secondary
         /\ raced' = IF Carrying(calls[c].key, "cidrs") # {}
                       THEN raced \cup {calls[c].key} ELSE raced
         /\ \A k \in Key : k # calls[c].key => cidrs'[k] = cidrs[k]
         /\ UNCHANGED <<subscriptions, keys, page, acts, faults, crossed, unanswered>>
         /\ TypeInv'
  <1> DEFINE k == calls[c].key
  <1>1. /\ calls[c].op = "update" /\ calls[c].step = "owned" /\ k \in Key
        /\ UNCHANGED <<subscriptions, keys, page, acts, faults, crossed, unanswered>>
    BY CallType DEF UpsertCidrs, Serving
  <1>2. /\ cidrs' = [cidrs EXCEPT ![k] = @ + 1]
        /\ raced' = IF Carrying(k, "cidrs") # {} THEN raced \cup {k} ELSE raced
    BY DEF UpsertCidrs
  <1>3. /\ \A j \in Key : j # k => cidrs'[j] = cidrs[j]
        /\ DOMAIN cidrs' = Key /\ cidrs'[k] = cidrs[k] + 1
    BY <1>1, <1>2 DEF TypeInv, TypeOK
  <1>4. cidrs[k] \in 1..Room /\ Room \in Int /\ Room <= MaxAct
    <2>1. c \in Pending
      BY <1>1 DEF Pending
    <2>2. Cardinality(Pending) >= 1
      BY <2>1, PendingType, FS_EmptySet
    <2>3. QED
      BY <1>1, <2>2, PendingType, RoomType, BoundAssumption DEF TypeInv, Room, Numbered
  <1>5. PICK version : version = cidrs'[k]
    OBVIOUS
  <1>6. version \in Version
    BY <1>3, <1>4, <1>5, BoundAssumption DEF Version
  <1>7. calls' = [calls EXCEPT ![c].step = "ok", ![c].row.cidrs = version]
    BY <1>5 DEF UpsertCidrs
  <1>8. PICK new : /\ Serves(c, new) /\ new.step = "ok" /\ new.row.cidrs = version
                   /\ new.row.primary = calls[c].row.primary
                   /\ new.row.secondary = calls[c].row.secondary
    BY <1>6, <1>7, CidrsEffect
  <1>9. /\ calls' \in [Call -> CallRecord] /\ calls'[c] = new
        /\ \A d \in Call : d # c => calls'[d] = calls[d]
        /\ \A d \in Call : calls'[d].key = NoKey <=> calls'[d].op \in {"idle", "list"}
    BY <1>8, BecomesCalls DEF Serves
  <1>10. c \in Pending /\ c \notin Pending'
    BY <1>1, <1>8, <1>9 DEF Pending
  <1>11. Room' = Room + 1 /\ Room' \in Int
    BY <1>1, <1>9, <1>10, RoomStep
  <1>12. 1..Room \subseteq 1..Room' /\ cidrs'[k] \in 1..Room' /\ Room' <= MaxAct + 1
    <2>1. PICK old : old = cidrs[k]
      OBVIOUS
    <2>2. old \in 1..Room /\ Room \in Int /\ Room' = Room + 1 /\ Room <= MaxAct
      BY <1>4, <1>11, <2>1
    <2>3. 1..Room \subseteq 1..Room' /\ old + 1 \in 1..Room'
      BY <2>2
    <2>4. cidrs'[k] = old + 1 /\ Room' <= MaxAct + 1
      BY <1>3, <2>1, <2>2, BoundAssumption
    <2>5. QED
      BY <2>3, <2>4
  <1>13. cidrs' \in [Key -> Version]
    <2>1. \A j \in Key : cidrs'[j] \in Version
      BY <1>3, <1>5, <1>6 DEF TypeInv, TypeOK
    <2>2. cidrs' = [j \in Key |-> cidrs'[j]]
      BY <1>2, <1>3
    <2>3. QED
      BY <2>1, <2>2
  <1>14. Numbered'
    <2>1. \A j \in Key : cidrs'[j] \in 1..Room'
      BY <1>3, <1>12, RoomType DEF Numbered
    <2>2. \A j \in Key : \A w \in {"primary", "secondary"} : keys'[j][w] \in 1..Room'
      BY <1>1, <1>12, RoomType DEF Numbered
    <2>3. QED
      BY <2>1, <2>2 DEF Numbered, Key
  <1>15. raced' \subseteq Key
    BY <1>1, <1>2 DEF TypeInv, TypeOK
  <1>16. TypeInv'
    BY <1>1, <1>9, <1>13, <1>14, <1>15, TypeFromParts, SMTT(30)
    DEF TypeInv, TypeOK, page, Existing
  <1>17. QED
    BY <1>1, <1>2, <1>3, <1>5, <1>8, <1>16

LEMMA DeleteEffect ==
  ASSUME TypeInv, NEW c \in Call, DeleteSubscription(c)
  PROVE  /\ calls[c].op = "delete" /\ calls[c].key \in Key
         /\ \E new : Serves(c, new) /\ new.step = "ok" /\ new.row = calls[c].row
         /\ subscriptions' \in Seq(Key) /\ Existing' \subseteq Existing
         /\ UNCHANGED <<keys, cidrs, page, acts, faults, history>>
  <1>1. /\ calls[c].op = "delete" /\ Become(c, "ok") /\ "ok" \in Step
        /\ UNCHANGED <<keys, cidrs, page, acts, faults, history>>
    BY DEF DeleteSubscription, Serving, Step
  <1>2. calls[c].key \in Key
    BY <1>1, CallType
  <1>3. subscriptions' \in Seq(Key) /\ Existing' \subseteq Existing
    <2>1. CASE calls[c].key \in Existing
      BY <2>1, WithoutType DEF DeleteSubscription
    <2>2. CASE calls[c].key \notin Existing
      BY <2>2 DEF DeleteSubscription, TypeInv, Existing
    <2>3. QED
      BY <2>1, <2>2
  <1>4. QED
    BY <1>1, <1>2, <1>3, BecomeEffect

-----------------------------------------------------------------------------
(* What the answers do                                                      *)

\* The slot of a call that was answered is free.
LEMMA Freed ==
  ASSUME TypeInv, NEW c \in Call, Send(c, Idle)
  PROVE  Becomes(c, Idle)
  BY IdleCall DEF Send, Becomes

\* The keys that arrived are kept until the addresses do.
LEMMA KeysArriveEffect ==
  ASSUME TypeInv, NEW c \in Call, KeysArrive(c)
  PROVE  /\ calls[c].op = "keys" /\ calls[c].key \in Key
         /\ \E new : /\ Becomes(c, new) /\ new.op = "cidrs" /\ new.step = "sent"
                     /\ new.key = calls[c].key /\ new.row = calls[c].row
         /\ UNCHANGED <<server, page, acts, faults, history>>
  <1>1. /\ calls[c].op = "keys" /\ UNCHANGED <<server, page, acts, faults, history>>
        /\ calls' = [calls EXCEPT ![c].op = "cidrs", ![c].step = "sent"]
    BY DEF KeysArrive, Arrives
  <1>2. calls[c] \in CallRecord /\ calls[c].key \in Key /\ calls[c].key # NoKey
    BY <1>1, CallType, NoKeyAssumption
  <1>3. PICK new : new = [calls[c] EXCEPT !.op = "cidrs", !.step = "sent"]
    OBVIOUS
  <1>4. /\ new \in CallRecord /\ new.op = "cidrs" /\ new.step = "sent"
        /\ new.key = calls[c].key /\ new.row = calls[c].row
    BY <1>2, <1>3 DEF CallRecord, Op
  <1>5. calls' = [calls EXCEPT ![c] = new]
    BY <1>1, <1>3
  <1>6. Becomes(c, new)
    BY <1>2, <1>4, <1>5 DEF Becomes
  <1>7. QED
    BY <1>1, <1>2, <1>4, <1>6

\* The rows that are listed are empty; a subscription is left out of what was not
\* told only if no call is about it any more.
LEMMA ListArrivesEffect ==
  ASSUME TypeInv, NEW c \in Call, ListArrives(c)
  PROVE  /\ calls[c].op = "list" /\ calls[c].step \in {"ok", "error"} /\ ~ crashed
         /\ Becomes(c, Idle)
         /\ UNCHANGED <<server, offset, crashed, acts, faults, crossed>>
         /\ IF calls[c].step = "ok"
              THEN LET ids == {calls[c].listed[i] : i \in DOMAIN calls[c].listed}
                   IN  /\ DOMAIN rows' = DOMAIN rows \cup ids
                       /\ \A k \in DOMAIN rows' :
                            rows'[k] = IF k \in ids THEN EmptyRow ELSE rows[k]
                       /\ loaded' = calls[c].listed
                       /\ raced' \subseteq raced /\ unanswered' \subseteq unanswered
                       /\ \A k \in (raced \cup unanswered) \ (raced' \cup unanswered') :
                            k \in ids /\ About(k) = {}
              ELSE UNCHANGED <<rows, loaded, raced, unanswered>>
         /\ rows' \in [DOMAIN rows' -> Row] /\ DOMAIN rows' \subseteq Key
         /\ raced' \subseteq Key /\ unanswered' \subseteq Key
  <1> DEFINE ids == {calls[c].listed[i] : i \in DOMAIN calls[c].listed}
             afresh == {k \in ids : About(k) = {}}
             empty == [k \in ids |-> EmptyRow]
  <1>1. /\ calls[c].op = "list" /\ calls[c].step \in {"ok", "error"} /\ ~ crashed
        /\ Becomes(c, Idle)
        /\ UNCHANGED <<server, offset, crashed, acts, faults, crossed>>
    BY Freed DEF ListArrives, Arrives, Answered
  <1>2. CASE calls[c].step = "ok"
    <2>1. /\ rows' = Over(empty, rows) /\ loaded' = calls[c].listed
          /\ raced' = raced \ afresh /\ unanswered' = unanswered \ afresh
      BY <1>2 DEF ListArrives
    <2>2. ids \in SUBSET Key
      <3>1. calls[c].listed \in Seq(Key)
        BY CallType DEF CallRecord
      <3>2. QED
        BY <3>1, LenProperties
    <2>3. empty \in [ids -> Row]
      BY EmptyRowType
    <2>4. \A k \in ids : empty[k] = EmptyRow
      OBVIOUS
    <2>5. rows \in [DOMAIN rows -> Row] /\ DOMAIN rows \subseteq Key
      BY DEF TypeInv, TypeOK
    <2>6. \A k \in afresh : k \in ids /\ About(k) = {}
      OBVIOUS
    <2> HIDE DEF empty, ids, afresh
    <2>7. /\ rows' \in [DOMAIN rows' -> Row] /\ DOMAIN rows' \subseteq Key
          /\ DOMAIN rows' = DOMAIN rows \cup ids
          /\ \A k \in DOMAIN rows' : rows'[k] = IF k \in ids THEN empty[k] ELSE rows[k]
      BY <2>1, <2>2, <2>3, <2>5, OverRows
    <2>8. /\ raced' \subseteq raced /\ unanswered' \subseteq unanswered
          /\ \A k \in (raced \cup unanswered) \ (raced' \cup unanswered') :
               k \in ids /\ About(k) = {}
      BY <2>1, <2>6
    <2>9. raced' \subseteq Key /\ unanswered' \subseteq Key
      BY <2>8 DEF TypeInv, TypeOK
    <2>10. \A k \in DOMAIN rows' : rows'[k] = IF k \in ids THEN EmptyRow ELSE rows[k]
      BY <2>4, <2>7
    <2> USE DEF ids
    <2>11. QED
      BY <1>1, <1>2, <2>1, <2>7, <2>8, <2>9, <2>10
  <1>3. CASE calls[c].step # "ok"
    BY <1>1, <1>3 DEF ListArrives, TypeInv, TypeOK
  <1>4. QED
    BY <1>2, <1>3

\* An answer is merged into the row of k; the other rows stay.
Shown(k) == IF k \in DOMAIN rows THEN rows[k] ELSE EmptyRow

Merged(k) == /\ rows' \in [DOMAIN rows' -> Row] /\ DOMAIN rows' \subseteq Key
             /\ DOMAIN rows' = DOMAIN rows \cup {k}
             /\ \A j \in DOMAIN rows : j # k => rows'[j] = rows[j]

LEMMA ShownType ==
  ASSUME TypeInv, NEW k
  PROVE  Shown(k) \in Row
  BY EmptyRowType DEF TypeInv, Shown

LEMMA MergedSecrets ==
  ASSUME TypeInv, NEW k \in Key, NEW secrets \in [primary : Version, secondary : Version],
         rows' = updateApiKey(k, secrets)
  PROVE  /\ Merged(k) /\ rows'[k].cidrs = Shown(k).cidrs
         /\ rows'[k].primary = secrets.primary /\ rows'[k].secondary = secrets.secondary
  <1>1. \A row \in Row : Over(secrets, row) \in Row
    BY OverSecrets
  <1>2. Merged(k) /\ rows'[k] = Over(secrets, Shown(k))
    BY <1>1, UpdatedRows DEF Merged, Shown
  <1>3. QED
    BY <1>2, ShownType, OverSecrets

LEMMA MergedCidrs ==
  ASSUME TypeInv, NEW k \in Key, NEW version \in Version, NEW new,
         new = [cidrs |-> version], rows' = updateApiKey(k, new)
  PROVE  /\ Merged(k) /\ rows'[k].cidrs = version
         /\ rows'[k].primary = Shown(k).primary /\ rows'[k].secondary = Shown(k).secondary
  <1>1. \A row \in Row : Over(new, row) \in Row
    BY OverCidrs
  <1>2. Merged(k) /\ rows'[k] = Over(new, Shown(k))
    BY <1>1, UpdatedRows DEF Merged, Shown
  <1>3. QED
    BY <1>2, ShownType, OverCidrs

LEMMA MergedRow ==
  ASSUME TypeInv, NEW k \in Key, NEW new \in Row, rows' = updateApiKey(k, new)
  PROVE  Merged(k) /\ rows'[k] = new
  <1>1. \A row \in Row : Over(new, row) \in Row
    BY OverRow
  <1>2. Merged(k) /\ rows'[k] = Over(new, Shown(k))
    BY <1>1, UpdatedRows DEF Merged, Shown
  <1>3. QED
    BY <1>2, ShownType, OverRow

LEMMA CidrsArriveEffect ==
  ASSUME TypeInv, NEW c \in Call, CidrsArrive(c)
  PROVE  /\ calls[c].op = "cidrs" /\ calls[c].key \in Key /\ ~ crashed
         /\ Becomes(c, Idle) /\ Merged(calls[c].key)
         /\ rows'[calls[c].key].primary = calls[c].row.primary
         /\ rows'[calls[c].key].secondary = calls[c].row.secondary
         /\ rows'[calls[c].key].cidrs = IF calls[c].step = "ok" THEN calls[c].row.cidrs
                                        ELSE Shown(calls[c].key).cidrs
         /\ UNCHANGED <<server, offset, loaded, crashed, acts, faults, history>>
  <1> DEFINE k == calls[c].key
  <1>1. /\ calls[c].op = "cidrs" /\ ~ crashed /\ Send(c, Idle)
        /\ UNCHANGED <<server, offset, loaded, crashed, acts, faults, history>>
    BY DEF CidrsArrive, Arrives
  <1>2. k \in Key /\ calls[c].row \in Row /\ Becomes(c, Idle)
    BY <1>1, CallType, Freed
  <1>3. CASE calls[c].step = "ok"
    <2>1. rows' = updateApiKey(k, calls[c].row)
      BY <1>3 DEF CidrsArrive
    <2>2. Merged(k) /\ rows'[k] = calls[c].row
      BY <1>2, <2>1, MergedRow
    <2>3. QED
      BY <1>1, <1>2, <1>3, <2>2
  <1>4. CASE calls[c].step # "ok"
    <2>1. PICK secrets : secrets = [primary |-> calls[c].row.primary,
                                    secondary |-> calls[c].row.secondary]
      OBVIOUS
    <2>2. /\ secrets \in [primary : Version, secondary : Version]
          /\ secrets.primary = calls[c].row.primary
          /\ secrets.secondary = calls[c].row.secondary
      BY <1>2, <2>1 DEF Row
    <2>3. rows' = updateApiKey(k, secrets)
      BY <1>4, <2>1 DEF CidrsArrive
    <2>4. /\ Merged(k) /\ rows'[k].cidrs = Shown(k).cidrs
          /\ rows'[k].primary = secrets.primary /\ rows'[k].secondary = secrets.secondary
      BY <1>2, <2>2, <2>3, MergedSecrets
    <2>5. QED
      BY <1>1, <1>2, <1>4, <2>2, <2>4
  <1>5. QED
    BY <1>3, <1>4

\* What Show does: nothing for an error, and the page crashes without the row.
LEMMA RegenerateArrivesEffect ==
  ASSUME TypeInv, NEW c \in Call, RegenerateArrives(c)
  PROVE  /\ calls[c].op = "regenerate" /\ calls[c].key \in Key /\ ~ crashed
         /\ calls[c].step \in {"ok", "error"} /\ Becomes(c, Idle)
         /\ UNCHANGED <<server, offset, loaded, acts, faults, history>>
         /\ IF calls[c].step = "error" THEN UNCHANGED <<rows, crashed>>
            ELSE IF calls[c].key \in DOMAIN rows
              THEN /\ Merged(calls[c].key) /\ UNCHANGED crashed
                   /\ rows'[calls[c].key].primary = calls[c].row.primary
                   /\ rows'[calls[c].key].secondary = calls[c].row.secondary
                   /\ rows'[calls[c].key].cidrs = Shown(calls[c].key).cidrs
              ELSE crashed' = TRUE /\ UNCHANGED rows
  <1> DEFINE k == calls[c].key
  <1>1. /\ calls[c].op = "regenerate" /\ ~ crashed /\ Send(c, Idle)
        /\ calls[c].step \in {"ok", "error"}
        /\ UNCHANGED <<server, offset, loaded, acts, faults, history>>
    BY DEF RegenerateArrives, Arrives, Answered
  <1>2. k \in Key /\ calls[c].row \in Row /\ Becomes(c, Idle)
    BY <1>1, CallType, Freed
  <1>3. PICK secrets : secrets = [primary |-> calls[c].row.primary,
                                  secondary |-> calls[c].row.secondary]
    OBVIOUS
  <1>4. /\ secrets \in [primary : Version, secondary : Version]
        /\ secrets.primary = calls[c].row.primary
        /\ secrets.secondary = calls[c].row.secondary
    BY <1>2, <1>3 DEF Row
  <1>5. IF calls[c].step = "error" THEN UNCHANGED <<rows, crashed>>
        ELSE IF k \in DOMAIN rows
          THEN rows' = updateApiKey(k, secrets) /\ UNCHANGED crashed
          ELSE crashed' = TRUE /\ UNCHANGED rows
    BY <1>3 DEF RegenerateArrives, Show
  <1>6. CASE calls[c].step # "error" /\ k \in DOMAIN rows
    <2>1. rows' = updateApiKey(k, secrets) /\ UNCHANGED crashed
      BY <1>5, <1>6
    <2>2. /\ Merged(k) /\ rows'[k].cidrs = Shown(k).cidrs
          /\ rows'[k].primary = secrets.primary /\ rows'[k].secondary = secrets.secondary
      BY <1>2, <1>4, <2>1, MergedSecrets
    <2>3. QED
      BY <1>1, <1>2, <1>4, <1>6, <2>1, <2>2
  <1>7. QED
    BY <1>1, <1>2, <1>5, <1>6

LEMMA UpdateArrivesEffect ==
  ASSUME TypeInv, NEW c \in Call, UpdateArrives(c)
  PROVE  /\ calls[c].op = "update" /\ calls[c].key \in Key /\ ~ crashed
         /\ calls[c].step \in {"ok", "error"} /\ Becomes(c, Idle)
         /\ UNCHANGED <<server, offset, loaded, acts, faults, history>>
         /\ IF calls[c].step = "error" THEN UNCHANGED <<rows, crashed>>
            ELSE IF calls[c].key \in DOMAIN rows
              THEN /\ Merged(calls[c].key) /\ UNCHANGED crashed
                   /\ rows'[calls[c].key].cidrs = calls[c].row.cidrs
                   /\ rows'[calls[c].key].primary = Shown(calls[c].key).primary
                   /\ rows'[calls[c].key].secondary = Shown(calls[c].key).secondary
              ELSE crashed' = TRUE /\ UNCHANGED rows
  <1> DEFINE k == calls[c].key
  <1>1. /\ calls[c].op = "update" /\ ~ crashed /\ Send(c, Idle)
        /\ calls[c].step \in {"ok", "error"}
        /\ UNCHANGED <<server, offset, loaded, acts, faults, history>>
    BY DEF UpdateArrives, Arrives, Answered
  <1>2. k \in Key /\ calls[c].row \in Row /\ Becomes(c, Idle)
    BY <1>1, CallType, Freed
  <1>3. PICK new : new = [cidrs |-> calls[c].row.cidrs]
    OBVIOUS
  <1>4. calls[c].row.cidrs \in Version
    BY <1>2 DEF Row
  <1>5. IF calls[c].step = "error" THEN UNCHANGED <<rows, crashed>>
        ELSE IF k \in DOMAIN rows
          THEN rows' = updateApiKey(k, new) /\ UNCHANGED crashed
          ELSE crashed' = TRUE /\ UNCHANGED rows
    BY <1>3 DEF UpdateArrives, Show
  <1>6. CASE calls[c].step # "error" /\ k \in DOMAIN rows
    <2>1. rows' = updateApiKey(k, new) /\ UNCHANGED crashed
      BY <1>5, <1>6
    <2>2. /\ Merged(k) /\ rows'[k].cidrs = calls[c].row.cidrs
          /\ rows'[k].primary = Shown(k).primary /\ rows'[k].secondary = Shown(k).secondary
      BY <1>2, <1>3, <1>4, <2>1, MergedCidrs
    <2>3. QED
      BY <1>1, <1>2, <1>6, <2>1, <2>2
  <1>7. QED
    BY <1>1, <1>2, <1>5, <1>6

\* After a deletion the list is read again from the start, over no rows.
LEMMA DeleteArrivesEffect ==
  ASSUME TypeInv, NEW c \in Call, DeleteArrives(c)
  PROVE  /\ calls[c].op = "delete" /\ ~ crashed
         /\ \E new : Becomes(c, new) /\ Lists(new, 0)
         /\ DOMAIN rows' = {} /\ offset' = 0 /\ loaded' = NoData
         /\ crossed' = (InFlight # {c})
         /\ UNCHANGED <<server, crashed, acts, faults, raced, unanswered>>
         /\ rows' \in [DOMAIN rows' -> Row]
  <1>1. /\ calls[c].op = "delete" /\ ~ crashed /\ rows' = <<>>
        /\ offset' = 0 /\ loaded' = NoData /\ crossed' = (InFlight # {c})
        /\ UNCHANGED <<server, crashed, acts, faults, raced, unanswered>>
    BY DEF DeleteArrives, Arrives
  <1>2. PICK new : new = [Idle EXCEPT !.op = "list"]
    OBVIOUS
  <1>3. Lists(new, 0)
    BY <1>2, ListsAgain
  <1>4. calls' = [calls EXCEPT ![c] = new]
    BY <1>2 DEF DeleteArrives, Send
  <1>5. Becomes(c, new)
    BY <1>3, <1>4 DEF Becomes, Lists
  <1>6. DOMAIN rows' = {} /\ rows' \in [DOMAIN rows' -> Row]
    BY <1>1
  <1>7. QED
    BY <1>1, <1>3, <1>5, <1>6

-----------------------------------------------------------------------------
(* Type correctness                                                         *)

\* A step that changes calls alone, and makes no change of a version pending.
LEMMA TypeOfCalls ==
  ASSUME TypeInv, NEW c \in Call, NEW new, Becomes(c, new),
         UNCHANGED <<server, page, acts, crossed, raced>>, unanswered' \subseteq Key,
         new.op \in {"regenerate", "update"} /\ new.step \in {"sent", "owned"} => c \in Pending
  PROVE  TypeInv'
  <1>1. calls'[c] = new
    BY BecomesCalls
  <1>2. c \in Pending' => c \in Pending
    BY <1>1 DEF Pending
  <1>3. /\ UNCHANGED <<keys, cidrs, acts>>
        /\ subscriptions' \in Seq(Key) /\ Existing' \subseteq Key
        /\ rows' \in [DOMAIN rows' -> Row] /\ DOMAIN rows' \subseteq Key
        /\ offset' \in Nat /\ crashed' \in BOOLEAN /\ crossed' \in BOOLEAN
        /\ raced' \subseteq Key
    BY DEF TypeInv, TypeOK, Existing, server, page
  <1>4. QED
    BY <1>2, <1>3, TypeKept

\* A step of an answer, or of the button that loads more rows.
LEMMA TypeOfPage ==
  ASSUME TypeInv, NEW c \in Call, NEW new, Becomes(c, new), new.op \in {"idle", "list"},
         UNCHANGED server,
         \/ acts' = acts
         \/ acts' = acts + 1 /\ acts < MaxAct,
         rows' \in [DOMAIN rows' -> Row], DOMAIN rows' \subseteq Key, offset' \in Nat,
         crashed' \in BOOLEAN, crossed' \in BOOLEAN,
         raced' \subseteq Key, unanswered' \subseteq Key
  PROVE  TypeInv'
  <1>1. calls'[c] = new
    BY BecomesCalls
  <1>2. c \notin Pending'
    BY <1>1 DEF Pending
  <1>3. /\ UNCHANGED <<keys, cidrs>>
        /\ subscriptions' \in Seq(Key) /\ Existing' \subseteq Key
    BY DEF TypeInv, TypeOK, Existing, server
  <1>4. QED
    BY <1>2, <1>3, TypeKept

LEMMA TypeStep ==
  ASSUME TypeInv, [Next]_vars
  PROVE  TypeInv'
  <1>1. CASE UNCHANGED vars
    <2>1. /\ UNCHANGED <<subscriptions, keys, cidrs, rows, offset, crashed, calls, acts>>
          /\ UNCHANGED <<crossed, raced, unanswered>>
      BY <1>1 DEF vars, server, page, history
    <2>2. QED
      BY <2>1 DEF TypeInv, TypeOK, Existing, Pending
  <1>2. ASSUME NEW c \in Call, LoadMore(c)
        PROVE  TypeInv'
    <2>1. PICK new : Becomes(c, new) /\ Lists(new, offset')
      BY <1>2, LoadEffect
    <2>2. QED
      BY <1>2, <2>1, LoadEffect, TypeOfPage DEF Lists, TypeInv, TypeOK, history
  <1>3. ASSUME NEW c \in Call, NEW k \in DOMAIN rows, Asks(c, k)
        PROVE  TypeInv'
    <2>1. PICK new : Becomes(c, new) /\ Asked(new, k)
      BY <1>3, AskEffect
    <2>2. /\ UNCHANGED <<subscriptions, keys, cidrs, rows, offset, crashed>>
          /\ UNCHANGED <<crossed, raced, unanswered>> /\ acts' = acts + 1 /\ acts < MaxAct
      BY <1>3, AskEffect DEF server, page, history
    <2>3. QED
      BY <2>1, <2>2, TypeKept DEF TypeInv, TypeOK, Existing
  <1>4. ASSUME NEW c \in Call, GetManageSubscriptions(c)
        PROVE  TypeInv'
    <2>1. PICK new : Serves(c, new) /\ new.step = "ok"
      BY <1>4, ListEffect
    <2>2. QED
      BY <1>4, <2>1, ListEffect, TypeOfCalls DEF Serves, history, TypeInv, TypeOK
  <1>5. ASSUME NEW c \in Call, ValidateOwnership(c)
        PROVE  TypeInv'
    <2>1. PICK new : Serves(c, new)
      BY <1>5, ValidateEffect
    <2>2. calls[c].step = "sent"
      BY <1>5, ValidateEffect
    <2>3. QED
      BY <1>5, <2>1, <2>2, ValidateEffect, TypeOfCalls
      DEF Serves, history, TypeInv, TypeOK, Pending
  <1>6. ASSUME NEW c \in Call, ListSecrets(c)
        PROVE  TypeInv'
    <2>1. PICK new : Serves(c, new) /\ new.step \in {"ok", "error"}
      BY <1>6, SecretsEffect
    <2>2. QED
      BY <1>6, <2>1, SecretsEffect, TypeOfCalls DEF Serves, history, TypeInv, TypeOK
  <1>7. ASSUME NEW c \in Call, RetrieveCidrs(c)
        PROVE  TypeInv'
    <2>1. PICK new : Serves(c, new) /\ new.step = "ok"
      BY <1>7, RetrieveEffect
    <2>2. QED
      BY <1>7, <2>1, RetrieveEffect, TypeOfCalls DEF Serves, history, TypeInv, TypeOK
  <1>8. ASSUME NEW c \in Call, DeleteSubscription(c)
        PROVE  TypeInv'
    <2>1. PICK new : Serves(c, new) /\ new.step = "ok"
      BY <1>8, DeleteEffect
    <2>2. /\ calls'[c] = new /\ subscriptions' \in Seq(Key) /\ Existing' \subseteq Key
          /\ UNCHANGED <<keys, cidrs, rows, offset, crashed, acts>>
          /\ UNCHANGED <<crossed, raced, unanswered>>
      BY <1>8, <2>1, DeleteEffect, BecomesCalls
      DEF Serves, TypeInv, TypeOK, page, history
    <2>3. c \notin Pending'
      BY <2>1, <2>2 DEF Pending
    <2>4. QED
      BY <2>1, <2>2, <2>3, TypeKept DEF Serves, TypeInv, TypeOK
  <1>9. ASSUME NEW c \in Call, Fail(c)
        PROVE  TypeInv'
    <2>1. PICK new : Serves(c, new) /\ new.step = "error"
      BY <1>9, FailEffect
    <2>2. unanswered' \subseteq Key
      BY <1>9, CallType DEF Fail, Serving, TypeInv, TypeOK
    <2>3. QED
      BY <1>9, <2>1, <2>2, FailEffect, TypeOfCalls DEF Serves
  <1>10. ASSUME NEW c \in Call, ListArrives(c)
         PROVE  TypeInv'
    <2>1. /\ rows' \in [DOMAIN rows' -> Row] /\ DOMAIN rows' \subseteq Key
          /\ offset' \in Nat /\ crashed' \in BOOLEAN /\ crossed' \in BOOLEAN
          /\ raced' \subseteq Key /\ unanswered' \subseteq Key
      BY <1>10, ListArrivesEffect DEF TypeInv, TypeOK
    <2>2. Becomes(c, Idle)
      BY <1>10, ListArrivesEffect
    <2>3. UNCHANGED server /\ acts' = acts
      BY <1>10, ListArrivesEffect DEF server
    <2>4. QED
      BY <2>1, <2>2, <2>3, TypeOfPage, IdleCall
  <1>11. ASSUME NEW c \in Call, KeysArrive(c)
         PROVE  TypeInv'
    <2>1. PICK new : Becomes(c, new) /\ new.op = "cidrs"
      BY <1>11, KeysArriveEffect
    <2>2. /\ UNCHANGED <<server, page, acts, crossed, raced>> /\ unanswered' \subseteq Key
      BY <1>11, KeysArriveEffect DEF history, TypeInv, TypeOK
    <2>3. QED
      BY <2>1, <2>2, TypeOfCalls
  <1>12. ASSUME NEW c \in Call, CidrsArrive(c)
         PROVE  TypeInv'
    <2>1. /\ rows' \in [DOMAIN rows' -> Row] /\ DOMAIN rows' \subseteq Key
          /\ offset' \in Nat /\ crashed' \in BOOLEAN /\ crossed' \in BOOLEAN
          /\ raced' \subseteq Key /\ unanswered' \subseteq Key
      BY <1>12, CidrsArriveEffect DEF Merged, history, TypeInv, TypeOK
    <2>2. Becomes(c, Idle)
      BY <1>12, CidrsArriveEffect
    <2>3. UNCHANGED server /\ acts' = acts
      BY <1>12, CidrsArriveEffect DEF server
    <2>4. QED
      BY <2>1, <2>2, <2>3, TypeOfPage, IdleCall
  <1>13. ASSUME NEW c \in Call, RegenerateArrives(c)
         PROVE  TypeInv'
    <2>1. /\ rows' \in [DOMAIN rows' -> Row] /\ DOMAIN rows' \subseteq Key
          /\ offset' \in Nat /\ crashed' \in BOOLEAN /\ crossed' \in BOOLEAN
          /\ raced' \subseteq Key /\ unanswered' \subseteq Key
      BY <1>13, RegenerateArrivesEffect DEF Merged, history, TypeInv, TypeOK
    <2>2. Becomes(c, Idle)
      BY <1>13, RegenerateArrivesEffect
    <2>3. UNCHANGED server /\ acts' = acts
      BY <1>13, RegenerateArrivesEffect DEF server
    <2>4. QED
      BY <2>1, <2>2, <2>3, TypeOfPage, IdleCall
  <1>14. ASSUME NEW c \in Call, UpdateArrives(c)
         PROVE  TypeInv'
    <2>1. /\ rows' \in [DOMAIN rows' -> Row] /\ DOMAIN rows' \subseteq Key
          /\ offset' \in Nat /\ crashed' \in BOOLEAN /\ crossed' \in BOOLEAN
          /\ raced' \subseteq Key /\ unanswered' \subseteq Key
      BY <1>14, UpdateArrivesEffect DEF Merged, history, TypeInv, TypeOK
    <2>2. Becomes(c, Idle)
      BY <1>14, UpdateArrivesEffect
    <2>3. UNCHANGED server /\ acts' = acts
      BY <1>14, UpdateArrivesEffect DEF server
    <2>4. QED
      BY <2>1, <2>2, <2>3, TypeOfPage, IdleCall
  <1>15. ASSUME NEW c \in Call, DeleteArrives(c)
         PROVE  TypeInv'
    <2>1. PICK new : Becomes(c, new) /\ Lists(new, 0)
      BY <1>15, DeleteArrivesEffect
    <2>2. /\ DOMAIN rows' = {} /\ rows' \in [DOMAIN rows' -> Row] /\ offset' = 0
          /\ crossed' = (InFlight # {c}) /\ crashed' = crashed
          /\ raced' = raced /\ unanswered' = unanswered
      BY <1>15, DeleteArrivesEffect
    <2>3. crossed' \in BOOLEAN
      BY <2>2
    <2>4. crashed' \in BOOLEAN /\ raced' \subseteq Key /\ unanswered' \subseteq Key
      BY <2>2 DEF TypeInv, TypeOK
    <2>5. UNCHANGED server /\ acts' = acts
      BY <1>15, DeleteArrivesEffect DEF server
    <2>6. new.op = "list"
      BY <2>1 DEF Lists
    <2>7. DOMAIN rows' \subseteq Key /\ offset' \in Nat
      BY <2>2
    <2>8. QED
      BY <2>1, <2>2, <2>3, <2>4, <2>5, <2>6, <2>7, TypeOfPage
  <1>16. QED
    BY <1>1, <1>2, <1>3, <1>4, <1>5, <1>6, <1>7, <1>8, <1>9, <1>10, <1>11, <1>12, <1>13,
       <1>14, <1>15, RegenerateEffect, UpsertEffect
    DEF Next, Administrator, Server, Answers, Asks

LEMMA TypeStart == Init => TypeInv
  <1> SUFFICES ASSUME Init PROVE TypeInv
    OBVIOUS
  <1>1. PICK list : list = [Idle EXCEPT !.op = "list"]
    OBVIOUS
  <1>2. Lists(list, 0)
    BY <1>1, ListsAgain
  <1>3. PICK c \in Call : calls = [d \in Call |-> IF d = c THEN list ELSE Idle]
    BY <1>1 DEF Init
  <1>4. calls \in [Call -> CallRecord]
    BY <1>2, <1>3, IdleCall DEF Lists
  <1>5. \A d \in Call : calls[d].key = NoKey /\ calls[d].op \in {"idle", "list"}
    BY <1>2, <1>3, IdleCall DEF Lists
  <1>6. Pending = {} /\ Cardinality(Pending) = 0
    BY <1>5, FS_EmptySet DEF Pending
  <1>7. subscriptions \in Seq(Key) /\ Existing \subseteq Key
    BY ListedAssumption DEF Init, Existing, Key
  <1>8. 1 \in Version /\ 1 \in 1..1 /\ 0 \in 0..MaxAct
    BY BoundAssumption DEF Version
  <1>9. /\ keys \in [Key -> [primary : Version, secondary : Version]]
        /\ cidrs \in [Key -> Version]
        /\ \A k \in Key : /\ \A which \in {"primary", "secondary"} : keys[k][which] = 1
                          /\ cidrs[k] = 1
    BY <1>8 DEF Init
  <1>10. rows \in [DOMAIN rows -> Row] /\ DOMAIN rows = {}
    BY DEF Init
  <1>11. /\ offset = 0 /\ crashed = FALSE /\ acts = 0
         /\ crossed = FALSE /\ raced = {} /\ unanswered = {}
    BY DEF Init
  <1>12. TypeOK
    BY <1>4, <1>7, <1>9, <1>10, <1>11 DEF TypeOK, CallRecord
  <1>13. acts + 1 - Cardinality(Pending) = 1
    BY <1>6, <1>11
  <1>14. QED
    BY <1>4, <1>5, <1>7, <1>8, <1>9, <1>10, <1>11, <1>12, <1>13 DEF TypeInv

\* The rows, the calls and the server keep their shape (TypeOK), whatever answer is
\* merged into a row (updateApiKey), and for any number of clicks.
THEOREM TypeCorrect == Spec => []TypeOK
  <1>1. Init => TypeInv
    BY TypeStart
  <1>2. TypeInv /\ [Next]_vars => TypeInv'
    BY TypeStep
  <1>3. TypeInv => TypeOK
    BY DEF TypeInv
  <1>4. QED
    BY <1>1, <1>2, <1>3, PTL DEF Spec

-----------------------------------------------------------------------------
(* The list of the page is that of the server                               *)

LEMMA ExpectedKept ==
  ASSUME TypeInv, Expected, NEW c \in Call, NEW new, Becomes(c, new),
         new.key \in {calls[c].key, NoKey} \cup DOMAIN rows,
         DOMAIN rows \subseteq DOMAIN rows', UNCHANGED crossed,
         crossed \/ UNCHANGED crashed
  PROVE  Expected'
  <1>1. calls'[c] = new /\ \A d \in Call : d # c => calls'[d] = calls[d]
    BY BecomesCalls
  <1>2. QED
    BY <1>1 DEF Expected

\* A deletion that leaves nothing crossed was the only call.
LEMMA Alone ==
  ASSUME TypeInv, NEW c \in Call, DeleteArrives(c), ~ crossed'
  PROVE  \A d \in Call : d # c => calls[d] = Idle
  <1>1. InFlight = {c}
    BY DeleteArrivesEffect
  <1>2. QED
    BY <1>1 DEF InFlight

LEMMA ExpectedStep ==
  ASSUME TypeInv, Expected, [Next]_vars
  PROVE  Expected'
  <1>1. CASE UNCHANGED vars
    <2>1. UNCHANGED <<rows, crashed, calls, crossed>>
      BY <1>1 DEF vars, page, history
    <2>2. QED
      BY <2>1 DEF Expected
  <1>2. ASSUME NEW c \in Call, LoadMore(c)
        PROVE  Expected'
    <2>1. PICK new : Becomes(c, new) /\ Lists(new, offset')
      BY <1>2, LoadEffect
    <2>2. new.key = NoKey /\ UNCHANGED <<rows, crashed, crossed>>
      BY <1>2, <2>1, LoadEffect DEF Lists, history
    <2>3. QED
      BY <2>1, <2>2, ExpectedKept
  <1>3. ASSUME NEW c \in Call, NEW k \in DOMAIN rows, Asks(c, k)
        PROVE  Expected'
    <2>1. PICK new : Becomes(c, new) /\ Asked(new, k)
      BY <1>3, AskEffect
    <2>2. new.key = k /\ UNCHANGED <<rows, crashed, crossed>>
      BY <1>3, <2>1, AskEffect DEF Asked, page, history
    <2>3. QED
      BY <2>1, <2>2, ExpectedKept
  <1>4. ASSUME NEW c \in Call, NEW new, Serves(c, new), UNCHANGED <<page, crossed>>
        PROVE  Expected'
    <2>1. UNCHANGED <<rows, crashed, crossed>>
      BY <1>4 DEF page
    <2>2. QED
      BY <1>4, <2>1, ExpectedKept DEF Serves
  <1>5. ASSUME NEW c \in Call, ListArrives(c)
        PROVE  Expected'
    <2>1. DOMAIN rows \subseteq DOMAIN rows' /\ UNCHANGED <<crashed, crossed>>
      BY <1>5, ListArrivesEffect
    <2>2. Becomes(c, Idle)
      BY <1>5, ListArrivesEffect
    <2>3. QED
      BY <2>1, <2>2, IdleCall, ExpectedKept
  <1>6. ASSUME NEW c \in Call, KeysArrive(c)
        PROVE  Expected'
    <2>1. PICK new : Becomes(c, new) /\ new.key = calls[c].key
      BY <1>6, KeysArriveEffect
    <2>2. UNCHANGED <<rows, crashed, crossed>>
      BY <1>6, KeysArriveEffect DEF page, history
    <2>3. QED
      BY <2>1, <2>2, ExpectedKept
  <1>7. ASSUME NEW c \in Call, CidrsArrive(c)
        PROVE  Expected'
    <2>1. DOMAIN rows \subseteq DOMAIN rows' /\ UNCHANGED <<crashed, crossed>>
      BY <1>7, CidrsArriveEffect DEF Merged, history
    <2>2. Becomes(c, Idle)
      BY <1>7, CidrsArriveEffect
    <2>3. QED
      BY <2>1, <2>2, IdleCall, ExpectedKept
  <1>8. ASSUME NEW c \in Call, RegenerateArrives(c)
        PROVE  Expected'
    <2>1. calls[c].key \in DOMAIN rows \/ crossed
      BY <1>8, RegenerateArrivesEffect, NoKeyAssumption DEF Expected
    <2>2. DOMAIN rows \subseteq DOMAIN rows' /\ UNCHANGED crossed
      BY <1>8, RegenerateArrivesEffect DEF Merged, history
    <2>3. crossed \/ UNCHANGED crashed
      BY <1>8, <2>1, RegenerateArrivesEffect
    <2>4. Becomes(c, Idle)
      BY <1>8, RegenerateArrivesEffect
    <2>5. QED
      BY <2>2, <2>3, <2>4, IdleCall, ExpectedKept
  <1>9. ASSUME NEW c \in Call, UpdateArrives(c)
        PROVE  Expected'
    <2>1. calls[c].key \in DOMAIN rows \/ crossed
      BY <1>9, UpdateArrivesEffect, NoKeyAssumption DEF Expected
    <2>2. DOMAIN rows \subseteq DOMAIN rows' /\ UNCHANGED crossed
      BY <1>9, UpdateArrivesEffect DEF Merged, history
    <2>3. crossed \/ UNCHANGED crashed
      BY <1>9, <2>1, UpdateArrivesEffect
    <2>4. Becomes(c, Idle)
      BY <1>9, UpdateArrivesEffect
    <2>5. QED
      BY <2>2, <2>3, <2>4, IdleCall, ExpectedKept
  <1>10. ASSUME NEW c \in Call, DeleteArrives(c)
         PROVE  Expected'
    <2> SUFFICES ASSUME ~ crossed' PROVE Expected'
      BY DEF Expected
    <2>1. \A d \in Call : d # c => calls[d] = Idle
      BY <1>10, Alone
    <2>2. PICK new : Becomes(c, new) /\ Lists(new, 0)
      BY <1>10, DeleteArrivesEffect
    <2>3. \A d \in Call : calls'[d].key = NoKey
      BY <2>1, <2>2, BecomesCalls, IdleCall DEF Lists
    <2>4. ~ crashed'
      BY <1>10, DeleteArrivesEffect
    <2>5. QED
      BY <2>3, <2>4 DEF Expected
  <1>11. ASSUME NEW c \in Call,
                \/ GetManageSubscriptions(c) \/ ValidateOwnership(c) \/ ListSecrets(c)
                \/ RetrieveCidrs(c) \/ Regenerate(c) \/ UpsertCidrs(c)
                \/ DeleteSubscription(c) \/ Fail(c)
         PROVE  Expected'
    BY <1>4, <1>11, ListEffect, ValidateEffect, SecretsEffect, RetrieveEffect,
       RegenerateEffect, UpsertEffect, DeleteEffect, FailEffect DEF history
  <1>12. QED
    BY <1>1, <1>2, <1>3, <1>5, <1>6, <1>7, <1>8, <1>9, <1>10, <1>11
    DEF Next, Administrator, Server, Answers, Asks

\* A page is the rows that come after those before it.
LEMMA NextPage ==
  ASSUME TypeInv, NEW o \in Nat
  PROVE  /\ First(o + Limit) =
              First(o) \cup {PageFrom(o)[i] : i \in DOMAIN PageFrom(o)}
         /\ First(o) \subseteq Existing
         /\ First(0) = {}
  <1> DEFINE last == IF o + Limit < Len(subscriptions) THEN o + Limit
                                                       ELSE Len(subscriptions)
             rest == PageFrom(o)
  <1>1. /\ Len(subscriptions) \in Nat /\ DOMAIN subscriptions = 1..Len(subscriptions)
        /\ \A i \in DOMAIN subscriptions : subscriptions[i] \in Existing
        /\ Limit \in Nat
    BY SubscriptionsType, LimitAssumption
  <1>2. First(o) \subseteq Existing /\ First(0) = {}
    BY <1>1 DEF First
  <1>3. /\ o + 1 \in Int /\ last \in Int
        /\ \A i \in (o + 1)..last : subscriptions[i] \in Existing
    BY <1>1
  <1>4. /\ Len(rest) = IF o + 1 <= last THEN last - o ELSE 0
        /\ \A i \in 1..Len(rest) : rest[i] = subscriptions[o + i]
        /\ rest \in Seq(Existing)
    <2> HIDE DEF last
    <2>1. rest = SubSeq(subscriptions, o + 1, last)
      BY DEF PageFrom, last
    <2>2. /\ rest \in Seq(Existing)
          /\ Len(rest) = IF o + 1 <= last THEN last - (o + 1) + 1 ELSE 0
          /\ \A i \in 1..(last - (o + 1) + 1) : rest[i] = subscriptions[(o + 1) + i - 1]
      BY <1>3, <2>1, SubSeqProperties
    <2>3. QED
      BY <1>3, <2>2
  <1>5. DOMAIN rest = 1..Len(rest)
    BY <1>4, LenProperties
  <1>6. ASSUME NEW k \in First(o + Limit)
        PROVE  k \in First(o) \cup {rest[i] : i \in DOMAIN rest}
    <2>1. PICK j \in DOMAIN subscriptions : j <= o + Limit /\ k = subscriptions[j]
      BY DEF First
    <2>2. CASE j <= o
      BY <2>1, <2>2 DEF First
    <2>3. CASE j > o
      <3>1. j - o \in 1..Len(rest) /\ o + (j - o) = j
        BY <1>1, <1>4, <2>1, <2>3
      <3>2. QED
        BY <1>4, <1>5, <2>1, <3>1
    <2>4. QED
      BY <1>1, <2>2, <2>3
  <1>7. First(o) \subseteq First(o + Limit)
    BY <1>1 DEF First
  <1>8. ASSUME NEW i \in DOMAIN rest
        PROVE  rest[i] \in First(o + Limit)
    <2>1. i \in 1..Len(rest) /\ rest[i] = subscriptions[o + i]
      BY <1>4, <1>5
    <2>2. i \in Nat \ {0} /\ i <= last - o
      BY <1>3, <1>4, <2>1
    <2>3. last <= o + Limit /\ last <= Len(subscriptions)
      BY <1>1
    <2>4. o + i \in 1..Len(subscriptions) /\ o + i <= o + Limit
      BY <1>1, <1>3, <2>2, <2>3
    <2>5. QED
      BY <1>1, <2>1, <2>4 DEF First
  <1>9. QED
    BY <1>2, <1>6, <1>7, <1>8

LEMMA ListingKept ==
  ASSUME TypeInv, Listing, NEW c \in Call, NEW new, Becomes(c, new),
         UNCHANGED <<subscriptions, offset, loaded, crossed>>,
         crossed \/ DOMAIN rows' = DOMAIN rows,
         calls[c].op = "delete" => new.op = "delete",
         new.op = "list" =>
           /\ calls[c].op = "list" /\ new.offset = calls[c].offset
           /\ new.step = "ok" => new.listed = PageFrom(calls[c].offset)
  PROVE  Listing'
  <1> SUFFICES ASSUME ~ crossed', ~ Deleting' PROVE Listing'
    BY DEF Listing
  <1>1. calls'[c] = new /\ \A d \in Call : d # c => calls'[d] = calls[d]
    BY BecomesCalls
  <1>2. ~ crossed /\ ~ Deleting
    BY <1>1 DEF Deleting
  <1>3. DOMAIN rows' = DOMAIN rows
    BY <1>2
  <1>4. /\ Existing' = Existing
        /\ \A o : PageFrom(o)' = PageFrom(o) /\ First(o)' = First(o)
    BY DEF Existing, PageFrom, First
  <1>5. QED
    BY <1>1, <1>2, <1>3, <1>4 DEF Listing

\* The answers that are merged into a row that is there.
LEMMA MergedListing ==
  ASSUME TypeInv, Expected, NEW c \in Call, calls[c].key \in Key, ~ crossed,
         Merged(calls[c].key)
  PROVE  DOMAIN rows' = DOMAIN rows
  <1>1. calls[c].key \in DOMAIN rows
    BY NoKeyAssumption DEF Expected
  <1>2. QED
    BY <1>1 DEF Merged

LEMMA LoadListing ==
  ASSUME TypeInv, Listing, NEW c \in Call, LoadMore(c), ~ crossed', ~ Deleting'
  PROVE  Listing'
  <1>1. PICK new : Becomes(c, new) /\ Lists(new, offset')
    BY LoadEffect
  <1>2. calls'[c] = new /\ \A d \in Call : d # c => calls'[d] = calls[d]
    BY <1>1, BecomesCalls
  <1>3. /\ calls[c] = Idle /\ loaded # NoData /\ loaded' = NoData
        /\ offset' = offset + Limit /\ UNCHANGED <<subscriptions, rows, crossed>>
    BY LoadEffect DEF server, history
  <1>4. ~ crossed /\ ~ Deleting
    BY <1>2, <1>3, IdleCall DEF Deleting
  <1>5. DOMAIN rows = First(offset') /\ DOMAIN rows \subseteq Existing
    BY <1>3, <1>4 DEF Listing
  <1>6. \A d \in Call : calls[d].op # "list"
    BY <1>3, <1>4 DEF Listing
  <1>7. First(offset)' = DOMAIN rows' /\ DOMAIN rows' \subseteq Existing'
    BY <1>3, <1>5 DEF First, Existing
  <1>8. \A d \in Call : calls'[d].op = "list" => d = c
    BY <1>2, <1>6
  <1>9. calls'[c].offset = offset' /\ calls'[c].step = "sent"
    BY <1>1, <1>2 DEF Lists
  <1>10. QED
    BY <1>3, <1>7, <1>8, <1>9 DEF Listing

LEMMA ListArrivesListing ==
  ASSUME TypeInv, Listing, NEW c \in Call, ListArrives(c), ~ crossed', ~ Deleting'
  PROVE  Listing'
  <1>1. /\ calls[c].op = "list" /\ calls[c].step \in {"ok", "error"}
        /\ UNCHANGED <<subscriptions, offset, crossed>> /\ Becomes(c, Idle)
    BY ListArrivesEffect DEF server
  <1>2. calls'[c] = Idle /\ \A d \in Call : d # c => calls'[d] = calls[d]
    BY <1>1, BecomesCalls
  <1>3. ~ crossed /\ ~ Deleting
    BY <1>1, <1>2 DEF Deleting
  <1>4. /\ \A d \in Call : calls[d].op = "list" => d = c
        /\ loaded = NoData /\ DOMAIN rows = First(offset) /\ calls[c].offset = offset
        /\ calls[c].step = "ok" => calls[c].listed = PageFrom(offset)
        /\ DOMAIN rows \subseteq Existing
    BY <1>1, <1>3 DEF Listing
  <1>5. \A d \in Call : calls'[d].op # "list"
    BY <1>2, <1>4, IdleCall
  <1>6. /\ Existing' = Existing
        /\ PageFrom(offset)' = PageFrom(offset)
        /\ First(offset + Limit)' = First(offset + Limit)
    BY <1>1 DEF Existing, PageFrom, First
  <1>7. CASE calls[c].step = "ok"
    <2>1. /\ DOMAIN rows' = DOMAIN rows \cup
                {calls[c].listed[i] : i \in DOMAIN calls[c].listed}
          /\ loaded' = PageFrom(offset)
      BY <1>4, <1>7, ListArrivesEffect
    <2>2. DOMAIN rows' = First(offset + Limit) /\ offset \in Nat
      BY <1>4, <1>7, <2>1, NextPage DEF TypeInv, TypeOK
    <2>3. offset + Limit \in Nat
      BY <2>2, LimitAssumption
    <2>4. First(offset + Limit) \subseteq Existing
      BY <2>3, NextPage
    <2>5. QED
      BY <1>5, <1>6, <2>1, <2>2, <2>4 DEF Listing
  <1>8. CASE calls[c].step = "error"
    <2>1. UNCHANGED <<rows, loaded>>
      BY <1>8, ListArrivesEffect
    <2>2. QED
      BY <1>4, <1>5, <1>6, <2>1 DEF Listing
  <1>9. QED
    BY <1>1, <1>7, <1>8

LEMMA DeleteArrivesListing ==
  ASSUME TypeInv, NEW c \in Call, DeleteArrives(c), ~ crossed'
  PROVE  Listing'
  <1>1. PICK new : Becomes(c, new) /\ Lists(new, 0)
    BY DeleteArrivesEffect
  <1>2. calls'[c] = new /\ \A d \in Call : d # c => calls'[d] = Idle
    BY <1>1, BecomesCalls, Alone
  <1>3. /\ DOMAIN rows' = {} /\ offset' = 0 /\ loaded' = NoData
        /\ UNCHANGED subscriptions
    BY DeleteArrivesEffect DEF server
  <1>4. First(offset)' = {}
    <2>1. First(0) = {} /\ 0 \in Nat
      BY NextPage
    <2>2. QED
      BY <1>3, <2>1 DEF First
  <1>5. new.offset = 0 /\ new.step = "sent"
    BY <1>1 DEF Lists
  <1>6. \A d \in Call : calls'[d].op = "list" => d = c
    BY <1>2, IdleCall
  <1>7. QED
    BY <1>2, <1>3, <1>4, <1>5, <1>6 DEF Listing

\* Subscriptions go while they are being deleted only.
LEMMA DeletionListing ==
  ASSUME TypeInv, NEW c \in Call, NEW new, Becomes(c, new), new.op = "delete"
  PROVE  Listing'
  <1>1. Deleting'
    BY BecomesCalls DEF Deleting
  <1>2. QED
    BY <1>1 DEF Listing

LEMMA ListingStep ==
  ASSUME TypeInv, Expected, Listing, [Next]_vars
  PROVE  Listing'
  <1>1. CASE UNCHANGED vars
    <2>1. UNCHANGED <<subscriptions, rows, offset, loaded, calls, crossed>>
      BY <1>1 DEF vars, server, page, history
    <2>2. QED
      BY <2>1 DEF Listing, Deleting, Existing, First, PageFrom
  <1>2. ASSUME NEW c \in Call, LoadMore(c)
        PROVE  Listing'
    BY <1>2, LoadListing DEF Listing
  <1>3. ASSUME NEW c \in Call, NEW k \in DOMAIN rows, Asks(c, k)
        PROVE  Listing'
    <2>1. PICK new : Becomes(c, new) /\ Asked(new, k)
      BY <1>3, AskEffect
    <2>2. /\ UNCHANGED <<subscriptions, rows, offset, loaded, crossed>>
          /\ new.op # "list" /\ calls[c].op = "idle"
      BY <1>3, <2>1, AskEffect, IdleCall DEF Asked, server, page, history
    <2>3. QED
      BY <2>1, <2>2, ListingKept
  <1>4. ASSUME NEW c \in Call, NEW new, Serves(c, new), UNCHANGED <<server, page, crossed>>,
               new.op = "list" /\ new.step = "ok" => new.listed = PageFrom(calls[c].offset)
        PROVE  Listing'
    <2>1. UNCHANGED <<subscriptions, rows, offset, loaded, crossed>>
      BY <1>4 DEF server, page
    <2>2. QED
      BY <1>4, <2>1, ListingKept DEF Serves
  <1>5. ASSUME NEW c \in Call, NEW new, Serves(c, new),
               UNCHANGED <<subscriptions, page, crossed>>, calls[c].op # "list"
        PROVE  Listing'
    <2>1. UNCHANGED <<subscriptions, rows, offset, loaded, crossed>>
      BY <1>5 DEF page
    <2>2. QED
      BY <1>5, <2>1, ListingKept DEF Serves
  <1>6. ASSUME NEW c \in Call, DeleteSubscription(c)
        PROVE  Listing'
    <2>1. PICK new : Serves(c, new)
      BY <1>6, DeleteEffect
    <2>2. calls[c].op = "delete"
      BY <1>6, DeleteEffect
    <2>3. QED
      BY <2>1, <2>2, DeletionListing DEF Serves
  <1>7. ASSUME NEW c \in Call, ListArrives(c)
        PROVE  Listing'
    BY <1>7, ListArrivesListing DEF Listing
  <1>8. ASSUME NEW c \in Call, KeysArrive(c)
        PROVE  Listing'
    <2>1. PICK new : Becomes(c, new) /\ new.op = "cidrs"
      BY <1>8, KeysArriveEffect
    <2>2. /\ UNCHANGED <<subscriptions, rows, offset, loaded, crossed>>
          /\ calls[c].op = "keys"
      BY <1>8, KeysArriveEffect DEF server, page, history
    <2>3. QED
      BY <2>1, <2>2, ListingKept
  <1>9. ASSUME NEW c \in Call, CidrsArrive(c)
        PROVE  Listing'
    <2>1. /\ UNCHANGED <<subscriptions, offset, loaded, crossed>> /\ Becomes(c, Idle)
          /\ calls[c].op = "cidrs"
      BY <1>9, CidrsArriveEffect DEF server, history
    <2>2. crossed \/ DOMAIN rows' = DOMAIN rows
      BY <1>9, CidrsArriveEffect, MergedListing
    <2>3. QED
      BY <2>1, <2>2, IdleCall, ListingKept
  <1>10. ASSUME NEW c \in Call, RegenerateArrives(c)
         PROVE  Listing'
    <2>1. /\ UNCHANGED <<subscriptions, offset, loaded, crossed>> /\ Becomes(c, Idle)
          /\ calls[c].op = "regenerate"
      BY <1>10, RegenerateArrivesEffect DEF server, history
    <2>2. crossed \/ DOMAIN rows' = DOMAIN rows
      BY <1>10, RegenerateArrivesEffect, MergedListing
    <2>3. QED
      BY <2>1, <2>2, IdleCall, ListingKept
  <1>11. ASSUME NEW c \in Call, UpdateArrives(c)
         PROVE  Listing'
    <2>1. /\ UNCHANGED <<subscriptions, offset, loaded, crossed>> /\ Becomes(c, Idle)
          /\ calls[c].op = "update"
      BY <1>11, UpdateArrivesEffect DEF server, history
    <2>2. crossed \/ DOMAIN rows' = DOMAIN rows
      BY <1>11, UpdateArrivesEffect, MergedListing
    <2>3. QED
      BY <2>1, <2>2, IdleCall, ListingKept
  <1>12. ASSUME NEW c \in Call, DeleteArrives(c)
         PROVE  Listing'
    BY <1>12, DeleteArrivesListing DEF Listing
  <1>13. ASSUME NEW c \in Call, GetManageSubscriptions(c)
         PROVE  Listing'
    BY <1>4, <1>13, ListEffect DEF history
  <1>14. ASSUME NEW c \in Call, ValidateOwnership(c)
         PROVE  Listing'
    BY <1>5, <1>14, ValidateEffect DEF server, history
  <1>15. ASSUME NEW c \in Call, ListSecrets(c)
         PROVE  Listing'
    BY <1>5, <1>15, SecretsEffect DEF server, history
  <1>16. ASSUME NEW c \in Call, RetrieveCidrs(c)
         PROVE  Listing'
    BY <1>5, <1>16, RetrieveEffect DEF server, history
  <1>17. ASSUME NEW c \in Call, Regenerate(c)
         PROVE  Listing'
    BY <1>5, <1>17, RegenerateEffect
  <1>18. ASSUME NEW c \in Call, UpsertCidrs(c)
         PROVE  Listing'
    BY <1>5, <1>18, UpsertEffect
  <1>19. ASSUME NEW c \in Call, Fail(c)
         PROVE  Listing'
    <2>1. PICK new : Serves(c, new) /\ new.step = "error"
      BY <1>19, FailEffect
    <2>2. UNCHANGED <<server, page, crossed>>
      BY <1>19, FailEffect
    <2>3. QED
      BY <1>4, <2>1, <2>2
  <1>20. QED
    BY <1>1, <1>2, <1>3, <1>6, <1>7, <1>8, <1>9, <1>10, <1>11, <1>12, <1>13, <1>14, <1>15,
       <1>16, <1>17, <1>18, <1>19
    DEF Next, Administrator, Server, Answers, Asks

LEMMA ListingStart == Init => Expected /\ Listing
  <1> SUFFICES ASSUME Init PROVE Expected /\ Listing
    OBVIOUS
  <1>1. TypeInv
    BY TypeStart
  <1>2. PICK list : list = [Idle EXCEPT !.op = "list"]
    OBVIOUS
  <1>3. Lists(list, 0)
    BY <1>2, ListsAgain
  <1>4. PICK c \in Call : calls = [d \in Call |-> IF d = c THEN list ELSE Idle]
    BY <1>2 DEF Init
  <1>5. \A d \in Call : calls[d].key = NoKey /\ (calls[d].op = "list" => d = c)
    BY <1>3, <1>4, IdleCall DEF Lists
  <1>6. calls[c].offset = 0 /\ calls[c].step = "sent"
    BY <1>3, <1>4 DEF Lists
  <1>7. offset = 0 /\ loaded = NoData /\ DOMAIN rows = {} /\ ~ crashed
    BY DEF Init
  <1>8. First(offset) = {}
    BY <1>1, <1>7, NextPage
  <1>9. Expected
    BY <1>5, <1>7 DEF Expected
  <1>10. Listing
    BY <1>5, <1>6, <1>7, <1>8 DEF Listing
  <1>11. QED
    BY <1>9, <1>10

\* The list that the page shows is that of the server (ListAgrees), for any number of
\* subscriptions, of rows in a page and of calls that overlap.
THEOREM ListCorrect == Spec => []ListAgrees
  <1>1. Init => TypeInv /\ Expected /\ Listing
    BY TypeStart, ListingStart
  <1>2. TypeInv /\ Expected /\ Listing /\ [Next]_vars
          => TypeInv' /\ Expected' /\ Listing'
    BY TypeStep, ExpectedStep, ListingStep
  <1>3. TypeInv /\ Expected /\ Listing => ListAgrees
    <2> SUFFICES ASSUME TypeInv, Expected, Listing, ~ crossed PROVE ListAgrees
      BY DEF ListAgrees
    <2>1. ~ crashed
      BY DEF Expected
    <2>2. ASSUME InFlight = {}
          PROVE  /\ DOMAIN rows \subseteq Existing
                 /\ loaded # NoData => /\ loaded = PageFrom(offset)
                                       /\ DOMAIN rows = First(offset + Limit)
      <3>1. ~ Deleting
        BY <2>2, IdleCall DEF InFlight, Deleting
      <3>2. QED
        BY <3>1 DEF Listing
    <2>3. QED
      BY <2>1, <2>2 DEF ListAgrees, First
  <1>4. QED
    BY <1>1, <1>2, <1>3, PTL DEF Spec

-----------------------------------------------------------------------------
(* The keys that are shown are current                                      *)

LEMMA AnswersKept ==
  ASSUME TypeInv, NEW c \in Call, NEW new, Becomes(c, new), NEW k, FreshAnswers(k),
         keys'[k] = keys[k], cidrs'[k] = cidrs[k], new.key = k => Carries(k, new)
  PROVE  FreshAnswers(k)'
  <1>1. calls'[c] = new /\ \A d \in Call : d # c => calls'[d] = calls[d]
    BY BecomesCalls
  <1> SUFFICES ASSUME NEW d \in Call, calls'[d].key = k
               PROVE  Carries(k, calls[d])'
    BY DEF FreshAnswers, About
  <1>2. Carries(k, calls'[d])
    BY <1>1 DEF FreshAnswers, About
  <1>3. QED
    BY <1>2 DEF Carries, CurrentKeys, CurrentCidrs

\* The keys that are shown stay those that were, or none, and the answer that
\* replaces them is still on its way.
LEMMA KeysKept ==
  ASSUME TypeInv, NEW c \in Call, NEW new, Becomes(c, new), NEW k, FreshKeys(k),
         keys'[k] = keys[k],
         k \in DOMAIN rows' =>
           \/ rows'[k].primary = 0
           \/ /\ rows'[k].primary = Shown(k).primary
              /\ rows'[k].secondary = Shown(k).secondary,
         calls[c].key = k /\ Regenerated(calls[c]) => new.key = k /\ Regenerated(new)
  PROVE  FreshKeys(k)'
  <1> SUFFICES ASSUME k \in DOMAIN rows', rows'[k].primary # 0
               PROVE  CurrentKeys(k, rows[k])' \/ (\E d \in About(k) : Regenerated(calls[d]))'
    BY DEF FreshKeys, CurrentKeys
  <1>1. calls'[c] = new /\ \A d \in Call : d # c => calls'[d] = calls[d]
    BY BecomesCalls
  <1>2. /\ k \in DOMAIN rows /\ rows'[k].primary = rows[k].primary
        /\ rows'[k].secondary = rows[k].secondary
    BY DEF Shown, EmptyRow
  <1>3. CASE CurrentKeys(k, rows[k])
    BY <1>2, <1>3 DEF CurrentKeys
  <1>4. ASSUME NEW d \in About(k), Regenerated(calls[d])
        PROVE  (\E e \in About(k) : Regenerated(calls[e]))'
    BY <1>1, <1>4 DEF About
  <1>5. QED
    BY <1>2, <1>3, <1>4 DEF FreshKeys

LEMMA CidrsKept ==
  ASSUME TypeInv, NEW c \in Call, NEW new, Becomes(c, new), NEW k, FreshCidrs(k),
         cidrs'[k] = cidrs[k],
         k \in DOMAIN rows' => rows'[k].cidrs \in {0, Shown(k).cidrs},
         calls[c].key = k /\ Updated(calls[c]) => new.key = k /\ Updated(new)
  PROVE  FreshCidrs(k)'
  <1> SUFFICES ASSUME k \in DOMAIN rows', rows'[k].cidrs # 0
               PROVE  CurrentCidrs(k, rows[k])' \/ (\E d \in About(k) : Updated(calls[d]))'
    BY DEF FreshCidrs, CurrentCidrs
  <1>1. calls'[c] = new /\ \A d \in Call : d # c => calls'[d] = calls[d]
    BY BecomesCalls
  <1>2. k \in DOMAIN rows /\ rows'[k].cidrs = rows[k].cidrs
    BY DEF Shown, EmptyRow
  <1>3. CASE CurrentCidrs(k, rows[k])
    BY <1>2, <1>3 DEF CurrentCidrs
  <1>4. ASSUME NEW d \in About(k), Updated(calls[d])
        PROVE  (\E e \in About(k) : Updated(calls[e]))'
    BY <1>1, <1>4 DEF About
  <1>5. QED
    BY <1>2, <1>3, <1>4 DEF FreshCidrs

\* What holds of each subscription that is still trusted.
FreshOf(k) == FreshAnswers(k) /\ FreshKeys(k) /\ FreshCidrs(k)

\* A step that changes a call, no version and no row.
LEMMA FreshKept ==
  ASSUME TypeInv, NEW c \in Call, NEW new, Becomes(c, new), NEW k, FreshOf(k),
         UNCHANGED <<keys, cidrs>>, rows' = rows \/ DOMAIN rows' = {},
         new.key = k => Carries(k, new),
         calls[c].key = k /\ Regenerated(calls[c]) => new.key = k /\ Regenerated(new),
         calls[c].key = k /\ Updated(calls[c]) => new.key = k /\ Updated(new)
  PROVE  FreshOf(k)'
  <1>1. FreshAnswers(k)'
    BY AnswersKept DEF FreshOf
  <1>2. k \in DOMAIN rows' => /\ rows'[k].primary = Shown(k).primary
                              /\ rows'[k].secondary = Shown(k).secondary
                              /\ rows'[k].cidrs = Shown(k).cidrs
    BY DEF Shown
  <1>3. FreshKeys(k)'
    BY <1>2, KeysKept DEF FreshOf
  <1>4. FreshCidrs(k)'
    BY <1>2, CidrsKept DEF FreshOf
  <1>5. QED
    BY <1>1, <1>3, <1>4 DEF FreshOf

LEMMA StillTrusted ==
  ASSUME TypeInv, Fresh, Existing' \subseteq Existing,
         raced \subseteq raced', unanswered \subseteq unanswered', NEW k \in Trusted'
  PROVE  k \in Key /\ k # NoKey /\ k \in Trusted /\ FreshOf(k)
  <1>1. k \in Trusted
    BY DEF Trusted
  <1>2. k \in Key
    BY <1>1 DEF Trusted, TypeInv, TypeOK
  <1>3. QED
    BY <1>1, <1>2, NoKeyAssumption DEF Fresh, FreshOf

LEMMA SameExisting ==
  ASSUME UNCHANGED subscriptions
  PROVE  Existing' = Existing
  BY DEF Existing

LEMMA CarriesNothing ==
  ASSUME NEW k, NEW call, call.row.primary = 0, call.row.cidrs = 0,
         call.step # "ok" \/ call.op \notin {"regenerate", "update"}
  PROVE  Carries(k, call)
  BY DEF Carries, CurrentKeys, CurrentCidrs, Regenerated, Updated

\* A click, the list that is read again, and what the server does without a change
\* of a version.
LEMMA FreshQuietly ==
  ASSUME TypeInv, Fresh, NEW c \in Call, NEW new, Becomes(c, new),
         Existing' \subseteq Existing, UNCHANGED <<keys, cidrs>>,
         rows' = rows \/ DOMAIN rows' = {},
         raced \subseteq raced', unanswered \subseteq unanswered', NEW k \in Trusted',
         new.key = k => Carries(k, new),
         calls[c].key = k /\ Regenerated(calls[c]) => new.key = k /\ Regenerated(new),
         calls[c].key = k /\ Updated(calls[c]) => new.key = k /\ Updated(new)
  PROVE  FreshOf(k)'
  <1>1. FreshOf(k)
    BY StillTrusted
  <1>2. QED
    BY <1>1, FreshKept

LEMMA FreshClick ==
  ASSUME TypeInv, Fresh, NEW c \in Call, NEW k \in Trusted',
         LoadMore(c) \/ \E j \in DOMAIN rows : Asks(c, j)
  PROVE  FreshOf(k)'
  <1>1. CASE LoadMore(c)
    <2>1. PICK new : Becomes(c, new) /\ Lists(new, offset')
      BY <1>1, LoadEffect
    <2>2. /\ calls[c] = Idle
          /\ UNCHANGED <<subscriptions, keys, cidrs, rows, raced, unanswered>>
      BY <1>1, LoadEffect DEF server, history
    <2>3. Existing' = Existing
      BY <2>2, SameExisting
    <2>4. k # NoKey
      BY <2>2, <2>3, StillTrusted
    <2>5. new.key # k /\ calls[c].key # k
      BY <2>1, <2>2, <2>4, IdleCall DEF Lists
    <2>6. QED
      BY <2>1, <2>2, <2>3, <2>5, FreshQuietly
  <1>2. ASSUME NEW j \in DOMAIN rows, Asks(c, j)
        PROVE  FreshOf(k)'
    <2>1. PICK new : Becomes(c, new) /\ Asked(new, j)
      BY <1>2, AskEffect
    <2>2. /\ calls[c] = Idle
          /\ UNCHANGED <<subscriptions, keys, cidrs, rows, raced, unanswered>>
      BY <1>2, AskEffect DEF server, page, history
    <2>3. Existing' = Existing
      BY <2>2, SameExisting
    <2>4. k # NoKey
      BY <2>2, <2>3, StillTrusted
    <2>5. calls[c].key # k
      BY <2>2, <2>4, IdleCall
    <2>6. Carries(k, new)
      BY <2>1, CarriesNothing DEF Asked, EmptyRow
    <2>7. QED
      BY <2>1, <2>2, <2>3, <2>5, <2>6, FreshQuietly
  <1>3. QED
    BY <1>1, <1>2

\* A call carries what it did before.
LEMMA CarriesOn ==
  ASSUME TypeInv, Fresh, NEW c \in Call, NEW k \in Trusted, calls[c].key = k, NEW new,
         /\ new.row.primary = calls[c].row.primary
         /\ new.row.secondary = calls[c].row.secondary
         /\ new.row.cidrs = calls[c].row.cidrs,
         ~ Regenerated(new), ~ Updated(new)
  PROVE  Carries(k, new)
  <1>1. Carries(k, calls[c])
    BY DEF Fresh, FreshAnswers, About
  <1>2. QED
    BY <1>1 DEF Carries, CurrentKeys, CurrentCidrs

\* The list, and whether the user owns the subscription.
LEMMA FreshValidate ==
  ASSUME TypeInv, Fresh, NEW c \in Call, NEW k \in Trusted',
         GetManageSubscriptions(c) \/ ValidateOwnership(c)
  PROVE  FreshOf(k)'
  <1>1. /\ UNCHANGED <<subscriptions, keys, cidrs, rows, raced, unanswered>>
        /\ Existing' = Existing
    BY ListEffect, ValidateEffect, SameExisting DEF server, page, history
  <1>2. k \in Trusted /\ k # NoKey
    BY <1>1, StillTrusted
  <1>3. CASE GetManageSubscriptions(c)
    <2>1. PICK new : Serves(c, new)
      BY <1>3, ListEffect
    <2>2. calls[c].op = "list"
      BY <1>3, ListEffect
    <2>3. calls[c].key = NoKey
      BY <2>2 DEF TypeInv
    <2>4. QED
      BY <1>1, <1>2, <2>1, <2>3, FreshQuietly DEF Serves
  <1>4. CASE ValidateOwnership(c)
    <2>1. PICK new : /\ Serves(c, new) /\ new.step \in {"owned", "error"}
                     /\ new.row = calls[c].row
      BY <1>4, ValidateEffect
    <2>2. calls[c].step = "sent"
      BY <1>4, ValidateEffect
    <2>3. ~ Regenerated(calls[c]) /\ ~ Updated(calls[c])
      BY <2>2 DEF Regenerated, Updated
    <2>4. ~ Regenerated(new) /\ ~ Updated(new)
      BY <2>1 DEF Regenerated, Updated
    <2>5. new.key = k => Carries(k, new)
      BY <1>2, <2>1, <2>4, CarriesOn DEF Serves
    <2>6. QED
      BY <1>1, <2>1, <2>3, <2>5, FreshQuietly DEF Serves
  <1>5. QED
    BY <1>3, <1>4

LEMMA FreshSecrets ==
  ASSUME TypeInv, Fresh, NEW c \in Call, NEW k \in Trusted', ListSecrets(c)
  PROVE  FreshOf(k)'
  <1>1. /\ UNCHANGED <<subscriptions, keys, cidrs, rows, raced, unanswered>>
        /\ Existing' = Existing
    BY SecretsEffect, SameExisting DEF server, page, history
  <1>2. k \in Trusted /\ k \in Existing /\ k \in Key
    BY <1>1, StillTrusted DEF Trusted
  <1>3. PICK new :
          /\ Serves(c, new)
          /\ IF calls[c].key \in Existing
               THEN /\ new.step = "ok" /\ new.row.cidrs = 0
                    /\ new.row.primary = keys[calls[c].key].primary
                    /\ new.row.secondary = keys[calls[c].key].secondary
               ELSE new.step = "error" /\ new.row = calls[c].row
    BY SecretsEffect
  <1>4. calls[c].op \in {"keys", "regenerate"}
    BY SecretsEffect
  <1>5. CASE calls[c].key = k
    <2>1. /\ new.step = "ok" /\ new.row.cidrs = 0
          /\ new.row.primary = keys[k].primary /\ new.row.secondary = keys[k].secondary
          /\ new.op = calls[c].op
      BY <1>2, <1>3, <1>5 DEF Serves
    <2>2. keys[k].primary # 0
      BY <1>2, RoomType DEF Numbered
    <2>3. Carries(k, new)
      BY <1>4, <2>1, <2>2 DEF Carries, CurrentKeys, CurrentCidrs, Updated
    <2>4. ~ Updated(calls[c])
      BY <1>4 DEF Updated
    <2>5. Regenerated(calls[c]) => Regenerated(new)
      BY <2>1 DEF Regenerated
    <2>6. QED
      BY <1>1, <1>3, <1>5, <2>3, <2>4, <2>5, FreshQuietly DEF Serves
  <1>6. CASE calls[c].key # k
    BY <1>1, <1>3, <1>6, FreshQuietly DEF Serves
  <1>7. QED
    BY <1>5, <1>6

LEMMA FreshRetrieve ==
  ASSUME TypeInv, Fresh, NEW c \in Call, NEW k \in Trusted', RetrieveCidrs(c)
  PROVE  FreshOf(k)'
  <1>1. /\ UNCHANGED <<subscriptions, keys, cidrs, rows, raced, unanswered>>
        /\ Existing' = Existing
    BY RetrieveEffect, SameExisting DEF server, page, history
  <1>2. k \in Trusted
    BY <1>1, StillTrusted
  <1>3. PICK new : /\ Serves(c, new) /\ new.step = "ok"
                   /\ new.row.cidrs = cidrs[calls[c].key]
                   /\ new.row.primary = calls[c].row.primary
                   /\ new.row.secondary = calls[c].row.secondary
    BY RetrieveEffect
  <1>4. calls[c].op = "cidrs"
    BY RetrieveEffect
  <1>5. ~ Regenerated(calls[c]) /\ ~ Updated(calls[c])
    BY <1>4 DEF Regenerated, Updated
  <1>6. CASE calls[c].key = k
    <2>1. Carries(k, calls[c])
      BY <1>2, <1>6 DEF Fresh, FreshAnswers, About
    <2>2. new.op = "cidrs"
      BY <1>3, <1>4 DEF Serves
    <2>3. Carries(k, new)
      BY <1>3, <1>6, <2>1, <2>2
      DEF Carries, CurrentKeys, CurrentCidrs, Regenerated, Updated
    <2>4. QED
      BY <1>1, <1>3, <1>5, <2>3, FreshQuietly DEF Serves
  <1>7. CASE calls[c].key # k
    BY <1>1, <1>3, <1>7, FreshQuietly DEF Serves
  <1>8. QED
    BY <1>6, <1>7

LEMMA FreshDelete ==
  ASSUME TypeInv, Fresh, NEW c \in Call, NEW k \in Trusted', DeleteSubscription(c)
  PROVE  FreshOf(k)'
  <1>1. /\ UNCHANGED <<keys, cidrs, rows, raced, unanswered>>
        /\ Existing' \subseteq Existing
    BY DeleteEffect DEF page, history
  <1>2. k \in Trusted
    BY <1>1, StillTrusted
  <1>3. PICK new : Serves(c, new) /\ new.step = "ok" /\ new.row = calls[c].row
    BY DeleteEffect
  <1>4. calls[c].op = "delete" /\ new.op = "delete"
    BY <1>3, DeleteEffect DEF Serves
  <1>5. /\ ~ Regenerated(calls[c]) /\ ~ Updated(calls[c])
        /\ ~ Regenerated(new) /\ ~ Updated(new)
    BY <1>4 DEF Regenerated, Updated
  <1>6. new.key = k => Carries(k, new)
    BY <1>2, <1>3, <1>5, CarriesOn DEF Serves
  <1>7. QED
    BY <1>1, <1>3, <1>5, <1>6, FreshQuietly DEF Serves

\* A call that changed a version and fails is unanswered.
LEMMA FreshFail ==
  ASSUME TypeInv, Fresh, NEW c \in Call, NEW k \in Trusted', Fail(c)
  PROVE  FreshOf(k)'
  <1>1. /\ UNCHANGED <<subscriptions, keys, cidrs, rows, raced>>
        /\ Existing' = Existing
    BY FailEffect, SameExisting DEF server, page
  <1>2. unanswered' = IF Regenerated(calls[c]) \/ Updated(calls[c])
                        THEN unanswered \cup {calls[c].key} ELSE unanswered
    BY DEF Fail, Serving, Regenerated, Updated
  <1>3. k \in Trusted
    BY <1>1, <1>2, StillTrusted
  <1>4. PICK new : /\ Serves(c, new) /\ new.step = "error" /\ new.row.cidrs = 0
                   /\ \/ new.row.primary = 0
                      \/ /\ new.row.primary = calls[c].row.primary
                         /\ new.row.secondary = calls[c].row.secondary
    BY FailEffect
  <1>5. CASE calls[c].key = k
    <2>1. ~ Regenerated(calls[c]) /\ ~ Updated(calls[c])
      BY <1>2, <1>5 DEF Trusted
    <2>2. Carries(k, calls[c])
      BY <1>3, <1>5 DEF Fresh, FreshAnswers, About
    <2>3. Carries(k, new)
      BY <1>4, <2>2 DEF Carries, CurrentKeys, CurrentCidrs, Updated
    <2>4. QED
      BY <1>1, <1>2, <1>4, <2>1, <2>3, FreshQuietly DEF Serves
  <1>6. CASE calls[c].key # k
    BY <1>1, <1>2, <1>4, <1>6, FreshQuietly DEF Serves
  <1>7. QED
    BY <1>5, <1>6

\* A key that is regenerated: no answer carries the old one, or the subscription is
\* raced, and the call is the one whose answer replaces it in the row.
LEMMA FreshRegenerate ==
  ASSUME TypeInv, Fresh, NEW c \in Call, NEW k \in Trusted', Regenerate(c)
  PROVE  FreshOf(k)'
  <1>1. /\ UNCHANGED <<subscriptions, cidrs, rows, unanswered>> /\ raced \subseteq raced'
        /\ Existing' = Existing
    BY RegenerateEffect, SameExisting DEF page
  <1>2. k \in Trusted /\ k \in Existing /\ k \in Key /\ FreshOf(k)
    BY <1>1, StillTrusted DEF Trusted
  <1>3. PICK new : /\ Serves(c, new) /\ new.row = calls[c].row
                   /\ new.step = IF calls[c].key \in Existing THEN "done" ELSE "error"
    BY RegenerateEffect
  <1>4. calls[c].op = "regenerate" /\ calls[c].step = "owned"
    BY RegenerateEffect
  <1>5. ~ Regenerated(calls[c]) /\ ~ Updated(calls[c])
    BY <1>4 DEF Regenerated, Updated
  <1>6. Becomes(c, new) /\ new.key = calls[c].key /\ new.op = "regenerate"
    BY <1>3, <1>4 DEF Serves
  <1>7. \A d \in Call : d # c => calls'[d] = calls[d]
    BY <1>6, BecomesCalls
  <1>8. calls'[c] = new
    BY <1>6, BecomesCalls
  <1>9. CASE calls[c].key # k
    <2>1. keys'[k] = keys[k] /\ cidrs'[k] = cidrs[k]
      BY <1>1, <1>2, <1>9, RegenerateEffect
    <2>2. FreshAnswers(k)'
      BY <1>2, <1>6, <1>9, <2>1, AnswersKept DEF FreshOf
    <2>3. k \in DOMAIN rows' => /\ rows'[k].primary = Shown(k).primary
                                /\ rows'[k].secondary = Shown(k).secondary
                                /\ rows'[k].cidrs = Shown(k).cidrs
      BY <1>1 DEF Shown
    <2>4. FreshKeys(k)'
      BY <1>2, <1>6, <1>9, <2>1, <2>3, KeysKept DEF FreshOf
    <2>5. FreshCidrs(k)'
      BY <1>2, <1>6, <1>9, <2>1, <2>3, CidrsKept DEF FreshOf
    <2>6. QED
      BY <2>2, <2>4, <2>5 DEF FreshOf
  <1>10. CASE calls[c].key = k
    <2>1. new.step = "done"
      BY <1>2, <1>3, <1>10
    <2>2. Carrying(k, "primary") = {}
      BY <1>2, <1>10, RegenerateEffect DEF Trusted
    <2>3. \A d \in About(k) : calls[d].row.primary = 0
      BY <2>2 DEF Carrying
    <2>4. Regenerated(new) /\ ~ Updated(new)
      BY <1>6, <2>1 DEF Regenerated, Updated
    <2>5. ASSUME NEW d \in Call, calls'[d].key = k
          PROVE  Carries(k, calls[d])'
      <3>1. CASE d = c
        <4>1. calls'[d].row = calls[c].row /\ calls'[d].step = "done"
          BY <1>3, <1>8, <2>1, <3>1
        <4>2. calls'[d].row.primary = 0 /\ calls[c].row.cidrs \in {0, cidrs[k]}
          BY <1>2, <1>10, <2>3, <4>1
          DEF About, FreshOf, FreshAnswers, Carries, CurrentCidrs
        <4>3. QED
          BY <1>1, <4>1, <4>2 DEF Carries, CurrentKeys, CurrentCidrs, Updated
      <3>2. CASE d # c
        <4>1. calls'[d] = calls[d] /\ d \in About(k)
          BY <1>7, <2>5, <3>2 DEF About
        <4>2. calls[d].row.primary = 0 /\ Carries(k, calls[d])
          BY <1>2, <2>3, <4>1 DEF FreshOf, FreshAnswers
        <4>3. QED
          BY <1>1, <4>1, <4>2 DEF Carries, CurrentKeys, CurrentCidrs
      <3>3. QED
        BY <3>1, <3>2
    <2>6. FreshAnswers(k)'
      BY <2>5 DEF FreshAnswers, About
    <2>7. (\E d \in About(k) : Regenerated(calls[d]))'
      BY <1>6, <1>8, <1>10, <2>4 DEF About
    <2>8. FreshKeys(k)'
      BY <2>7 DEF FreshKeys
    <2>9. k \in DOMAIN rows' => rows'[k].cidrs = Shown(k).cidrs
      BY <1>1 DEF Shown
    <2>10. FreshCidrs(k)'
      BY <1>1, <1>2, <1>5, <1>6, <2>9, CidrsKept DEF FreshOf
    <2>11. QED
      BY <2>6, <2>8, <2>10 DEF FreshOf
  <1>11. QED
    BY <1>9, <1>10

\* The addresses, in the same way; the answer carries the new ones.
LEMMA FreshUpsert ==
  ASSUME TypeInv, Fresh, NEW c \in Call, NEW k \in Trusted', UpsertCidrs(c)
  PROVE  FreshOf(k)'
  <1>1. /\ UNCHANGED <<subscriptions, keys, rows, unanswered>> /\ raced \subseteq raced'
        /\ Existing' = Existing
    BY UpsertEffect, SameExisting DEF page
  <1>2. k \in Trusted /\ k \in Key /\ FreshOf(k)
    BY <1>1, StillTrusted
  <1>3. PICK new : /\ Serves(c, new) /\ new.step = "ok"
                   /\ new.row.cidrs = cidrs'[calls[c].key]
                   /\ new.row.primary = calls[c].row.primary
                   /\ new.row.secondary = calls[c].row.secondary
    BY UpsertEffect
  <1>4. calls[c].op = "update" /\ calls[c].step = "owned"
    BY UpsertEffect
  <1>5. ~ Regenerated(calls[c]) /\ ~ Updated(calls[c])
    BY <1>4 DEF Regenerated, Updated
  <1>6. Becomes(c, new) /\ new.key = calls[c].key /\ new.op = "update"
    BY <1>3, <1>4 DEF Serves
  <1>7. \A d \in Call : d # c => calls'[d] = calls[d]
    BY <1>6, BecomesCalls
  <1>8. calls'[c] = new
    BY <1>6, BecomesCalls
  <1>9. CASE calls[c].key # k
    <2>1. keys'[k] = keys[k] /\ cidrs'[k] = cidrs[k]
      BY <1>1, <1>2, <1>9, UpsertEffect
    <2>2. FreshAnswers(k)'
      BY <1>2, <1>6, <1>9, <2>1, AnswersKept DEF FreshOf
    <2>3. k \in DOMAIN rows' => /\ rows'[k].primary = Shown(k).primary
                                /\ rows'[k].secondary = Shown(k).secondary
                                /\ rows'[k].cidrs = Shown(k).cidrs
      BY <1>1 DEF Shown
    <2>4. FreshKeys(k)'
      BY <1>2, <1>6, <1>9, <2>1, <2>3, KeysKept DEF FreshOf
    <2>5. FreshCidrs(k)'
      BY <1>2, <1>6, <1>9, <2>1, <2>3, CidrsKept DEF FreshOf
    <2>6. QED
      BY <2>2, <2>4, <2>5 DEF FreshOf
  <1>10. CASE calls[c].key = k
    <2>1. Carrying(k, "cidrs") = {}
      BY <1>2, <1>10, UpsertEffect DEF Trusted
    <2>2. \A d \in About(k) : calls[d].row.cidrs = 0
      BY <2>1 DEF Carrying
    <2>3. cidrs'[k] # 0
      <3>1. Numbered' /\ Room' \in Int
        <4>1. TypeInv'
          BY UpsertEffect
        <4>2. Cardinality(Pending') \in Nat
          BY <1>7, PendingStep
        <4>3. QED
          BY <4>1, <4>2, BoundAssumption DEF TypeInv, Numbered, Room
      <3>2. cidrs'[k] \in 1..Room'
        BY <1>2, <3>1 DEF Numbered
      <3>3. QED
        BY <3>1, <3>2
    <2>4. Updated(new) /\ ~ Regenerated(new)
      BY <1>3, <1>6 DEF Regenerated, Updated
    <2>5. ASSUME NEW d \in Call, calls'[d].key = k
          PROVE  Carries(k, calls[d])'
      <3>1. CASE d = c
        <4>1. Carries(k, calls[c])
          BY <1>2, <1>10 DEF About, FreshOf, FreshAnswers
        <4>2. /\ calls'[d].row.cidrs = cidrs'[k] /\ calls'[d].op = "update"
              /\ calls'[d].row.primary = calls[c].row.primary
              /\ calls'[d].row.secondary = calls[c].row.secondary
          BY <1>3, <1>6, <1>8, <1>10, <3>1
        <4>3. QED
          BY <1>1, <2>3, <4>1, <4>2
          DEF Carries, CurrentKeys, CurrentCidrs, Regenerated, Updated
      <3>2. CASE d # c
        <4>1. calls'[d] = calls[d] /\ d \in About(k)
          BY <1>7, <2>5, <3>2 DEF About
        <4>2. calls[d].row.cidrs = 0 /\ Carries(k, calls[d])
          BY <1>2, <2>2, <4>1 DEF FreshOf, FreshAnswers
        <4>3. QED
          BY <1>1, <4>1, <4>2 DEF Carries, CurrentKeys, CurrentCidrs
      <3>3. QED
        BY <3>1, <3>2
    <2>6. FreshAnswers(k)'
      BY <2>5 DEF FreshAnswers, About
    <2>7. (\E d \in About(k) : Updated(calls[d]))'
      BY <1>6, <1>8, <1>10, <2>4 DEF About
    <2>8. FreshCidrs(k)'
      BY <2>7 DEF FreshCidrs
    <2>9. k \in DOMAIN rows' => /\ rows'[k].primary = Shown(k).primary
                                /\ rows'[k].secondary = Shown(k).secondary
      BY <1>1 DEF Shown
    <2>10. FreshKeys(k)'
      BY <1>1, <1>2, <1>5, <1>6, <2>9, KeysKept DEF FreshOf
    <2>11. QED
      BY <2>6, <2>8, <2>10 DEF FreshOf
  <1>11. QED
    BY <1>9, <1>10

\* A row that is listed again is empty; it is trusted from then on, for nothing is
\* on its way about it.
LEMMA FreshListed ==
  ASSUME TypeInv, Fresh, NEW c \in Call, NEW k \in Trusted', ListArrives(c)
  PROVE  FreshOf(k)'
  <1> DEFINE ids == {calls[c].listed[i] : i \in DOMAIN calls[c].listed}
  <1>1. /\ UNCHANGED <<subscriptions, keys, cidrs>> /\ Becomes(c, Idle)
        /\ calls[c].op = "list" /\ Existing' = Existing
    BY ListArrivesEffect, SameExisting DEF server
  <1>2. k \in Key /\ k # NoKey /\ k \in Existing
    BY <1>1, NoKeyAssumption DEF Trusted, TypeInv, TypeOK
  <1>3. calls[c].key # k /\ Idle.key # k
    BY <1>1, <1>2, IdleCall DEF TypeInv
  <1>4. CASE k \in Trusted
    <2>1. k \in DOMAIN rows' => \/ rows'[k] = EmptyRow
                                \/ k \in DOMAIN rows /\ rows'[k] = rows[k]
      BY ListArrivesEffect
    <2>2. k \in DOMAIN rows' =>
            /\ \/ rows'[k].primary = 0
               \/ /\ rows'[k].primary = Shown(k).primary
                  /\ rows'[k].secondary = Shown(k).secondary
            /\ rows'[k].cidrs \in {0, Shown(k).cidrs}
      BY <2>1 DEF Shown, EmptyRow
    <2>3. FreshAnswers(k) /\ FreshKeys(k) /\ FreshCidrs(k)
      BY <1>4 DEF Fresh
    <2>4. FreshAnswers(k)'
      BY <1>1, <1>3, <2>3, AnswersKept
    <2>5. FreshKeys(k)'
      BY <1>1, <1>3, <2>2, <2>3, KeysKept
    <2>6. FreshCidrs(k)'
      BY <1>1, <1>3, <2>2, <2>3, CidrsKept
    <2>7. QED
      BY <2>4, <2>5, <2>6 DEF FreshOf
  <1>5. CASE k \notin Trusted
    <2>1. k \in (raced \cup unanswered) \ (raced' \cup unanswered')
      BY <1>2, <1>5 DEF Trusted
    <2>2. calls[c].step = "ok" /\ k \in ids /\ About(k) = {}
      BY <2>1, ListArrivesEffect
    <2>3. k \in DOMAIN rows' => rows'[k] = EmptyRow
      BY <2>2, ListArrivesEffect
    <2>4. About(k)' = {}
      BY <1>1, <1>3, <2>2, BecomesCalls DEF About
    <2>5. QED
      BY <2>3, <2>4
      DEF FreshOf, FreshAnswers, FreshKeys, FreshCidrs, CurrentKeys, CurrentCidrs, EmptyRow
  <1>6. QED
    BY <1>4, <1>5

LEMMA FreshKeysArrive ==
  ASSUME TypeInv, Fresh, NEW c \in Call, NEW k \in Trusted', KeysArrive(c)
  PROVE  FreshOf(k)'
  <1>1. /\ UNCHANGED <<subscriptions, keys, cidrs, rows, raced, unanswered>>
        /\ Existing' = Existing
    BY KeysArriveEffect, SameExisting DEF server, page, history
  <1>2. k \in Trusted
    BY <1>1, StillTrusted
  <1>3. PICK new : /\ Becomes(c, new) /\ new.op = "cidrs" /\ new.step = "sent"
                   /\ new.key = calls[c].key /\ new.row = calls[c].row
    BY KeysArriveEffect
  <1>4. calls[c].op = "keys"
    BY KeysArriveEffect
  <1>5. /\ ~ Regenerated(calls[c]) /\ ~ Updated(calls[c])
        /\ ~ Regenerated(new) /\ ~ Updated(new)
    BY <1>3, <1>4 DEF Regenerated, Updated
  <1>6. new.key = k => Carries(k, new)
    BY <1>2, <1>3, <1>5, CarriesOn
  <1>7. QED
    BY <1>1, <1>3, <1>5, <1>6, FreshQuietly

\* What an answer that is merged into the row of another subscription leaves alone.
LEMMA FreshElsewhere ==
  ASSUME TypeInv, Fresh, NEW c \in Call, Becomes(c, Idle), NEW k \in Trusted,
         calls[c].key # k, k # NoKey, UNCHANGED <<keys, cidrs>>,
         k \in DOMAIN rows' => k \in DOMAIN rows /\ rows'[k] = rows[k]
  PROVE  FreshOf(k)'
  <1>1. FreshAnswers(k) /\ FreshKeys(k) /\ FreshCidrs(k)
    BY DEF Fresh
  <1>2. k \in DOMAIN rows' => /\ rows'[k].primary = Shown(k).primary
                              /\ rows'[k].secondary = Shown(k).secondary
                              /\ rows'[k].cidrs = Shown(k).cidrs
    BY DEF Shown
  <1>3. Idle.key # k
    BY IdleCall
  <1>4. FreshAnswers(k)'
    BY <1>1, <1>3, AnswersKept
  <1>5. FreshKeys(k)'
    BY <1>1, <1>2, <1>3, KeysKept
  <1>6. FreshCidrs(k)'
    BY <1>1, <1>2, <1>3, CidrsKept
  <1>7. QED
    BY <1>4, <1>5, <1>6 DEF FreshOf

\* An answer that is merged into the row of k: what it carries is current, and what
\* it leaves is as current as it was.
LEMMA FreshMerged ==
  ASSUME TypeInv, Fresh, NEW c \in Call, Becomes(c, Idle), NEW k \in Trusted,
         calls[c].key = k, k # NoKey, UNCHANGED <<keys, cidrs>>,
         k \in DOMAIN rows' =>
           /\ \/ /\ rows'[k].primary = calls[c].row.primary
                 /\ rows'[k].secondary = calls[c].row.secondary
              \/ /\ rows'[k].primary = Shown(k).primary
                 /\ rows'[k].secondary = Shown(k).secondary
                 /\ ~ Regenerated(calls[c])
           /\ \/ rows'[k].cidrs = calls[c].row.cidrs
              \/ rows'[k].cidrs = Shown(k).cidrs /\ ~ Updated(calls[c])
  PROVE  FreshOf(k)'
  <1>1. FreshAnswers(k) /\ FreshKeys(k) /\ FreshCidrs(k)
    BY DEF Fresh
  <1>2. Idle.key # k /\ ~ Regenerated(Idle) /\ ~ Updated(Idle)
    BY IdleCall DEF Regenerated, Updated
  <1>3. CurrentKeys(k, calls[c].row) /\ CurrentCidrs(k, calls[c].row)
    BY <1>1 DEF FreshAnswers, About, Carries
  <1>4. FreshAnswers(k)'
    BY <1>1, <1>2, AnswersKept
  <1>5. FreshKeys(k)'
    <2>1. CASE /\ k \in DOMAIN rows'
               /\ rows'[k].primary = calls[c].row.primary
               /\ rows'[k].secondary = calls[c].row.secondary
      BY <1>3, <2>1 DEF FreshKeys, CurrentKeys
    <2>2. CASE k \in DOMAIN rows' => /\ rows'[k].primary = Shown(k).primary
                                     /\ rows'[k].secondary = Shown(k).secondary
                                     /\ ~ Regenerated(calls[c])
      <3>1. CASE k \in DOMAIN rows'
        BY <1>1, <1>2, <2>2, <3>1, KeysKept
      <3>2. CASE k \notin DOMAIN rows'
        BY <3>2 DEF FreshKeys
      <3>3. QED
        BY <3>1, <3>2
    <2>3. QED
      BY <2>1, <2>2
  <1>6. FreshCidrs(k)'
    <2>1. CASE k \in DOMAIN rows' /\ rows'[k].cidrs = calls[c].row.cidrs
      BY <1>3, <2>1 DEF FreshCidrs, CurrentCidrs
    <2>2. CASE k \in DOMAIN rows' => /\ rows'[k].cidrs = Shown(k).cidrs
                                     /\ ~ Updated(calls[c])
      <3>1. CASE k \in DOMAIN rows'
        BY <1>1, <1>2, <2>2, <3>1, CidrsKept
      <3>2. CASE k \notin DOMAIN rows'
        BY <3>2 DEF FreshCidrs
      <3>3. QED
        BY <3>1, <3>2
    <2>3. QED
      BY <2>1, <2>2
  <1>7. QED
    BY <1>4, <1>5, <1>6 DEF FreshOf

LEMMA FreshCidrsArrive ==
  ASSUME TypeInv, Fresh, NEW c \in Call, NEW k \in Trusted', CidrsArrive(c)
  PROVE  FreshOf(k)'
  <1>1. /\ UNCHANGED <<subscriptions, keys, cidrs, raced, unanswered>>
        /\ Existing' = Existing /\ Becomes(c, Idle)
    BY CidrsArriveEffect, SameExisting DEF server, history
  <1>2. k \in Trusted /\ k # NoKey
    BY <1>1, StillTrusted
  <1>3. ~ Regenerated(calls[c]) /\ ~ Updated(calls[c])
    BY CidrsArriveEffect DEF Regenerated, Updated
  <1>4. CASE calls[c].key = k
    <2>1. /\ rows'[k].primary = calls[c].row.primary
          /\ rows'[k].secondary = calls[c].row.secondary
          /\ rows'[k].cidrs = IF calls[c].step = "ok" THEN calls[c].row.cidrs
                                                      ELSE Shown(k).cidrs
      BY <1>4, CidrsArriveEffect
    <2>2. QED
      BY <1>1, <1>2, <1>3, <1>4, <2>1, FreshMerged
  <1>5. CASE calls[c].key # k
    <2>1. k \in DOMAIN rows' => k \in DOMAIN rows /\ rows'[k] = rows[k]
      BY <1>5, CidrsArriveEffect DEF Merged
    <2>2. QED
      BY <1>1, <1>2, <1>5, <2>1, FreshElsewhere
  <1>6. QED
    BY <1>4, <1>5

\* The answers that change a row only if they say what is new.
LEMMA FreshRegenerateArrives ==
  ASSUME TypeInv, Fresh, NEW c \in Call, NEW k \in Trusted', RegenerateArrives(c)
  PROVE  FreshOf(k)'
  <1>1. /\ UNCHANGED <<subscriptions, keys, cidrs, raced, unanswered>>
        /\ Existing' = Existing /\ Becomes(c, Idle)
    BY RegenerateArrivesEffect, SameExisting DEF server, history
  <1>2. k \in Trusted /\ k # NoKey
    BY <1>1, StillTrusted
  <1>3. ~ Updated(calls[c])
    BY RegenerateArrivesEffect DEF Updated
  <1>4. CASE calls[c].key = k
    <2>1. CASE calls[c].step = "error"
      <3>1. rows' = rows
        BY <2>1, RegenerateArrivesEffect
      <3>2. ~ Regenerated(calls[c])
        BY <2>1 DEF Regenerated
      <3>3. k \in DOMAIN rows' => /\ rows'[k].primary = Shown(k).primary
                                  /\ rows'[k].secondary = Shown(k).secondary
                                  /\ rows'[k].cidrs = Shown(k).cidrs
        BY <3>1 DEF Shown
      <3>4. QED
        BY <1>1, <1>2, <1>3, <1>4, <3>2, <3>3, FreshMerged
    <2>2. CASE calls[c].step # "error"
      <3>1. k \in DOMAIN rows' => /\ rows'[k].primary = calls[c].row.primary
                                  /\ rows'[k].secondary = calls[c].row.secondary
                                  /\ rows'[k].cidrs = Shown(k).cidrs
        BY <1>4, <2>2, RegenerateArrivesEffect
      <3>2. QED
        BY <1>1, <1>2, <1>3, <1>4, <3>1, FreshMerged
    <2>3. QED
      BY <2>1, <2>2
  <1>5. CASE calls[c].key # k
    <2>1. k \in DOMAIN rows' => k \in DOMAIN rows /\ rows'[k] = rows[k]
      BY <1>5, RegenerateArrivesEffect DEF Merged
    <2>2. QED
      BY <1>1, <1>2, <1>5, <2>1, FreshElsewhere
  <1>6. QED
    BY <1>4, <1>5

LEMMA FreshUpdateArrives ==
  ASSUME TypeInv, Fresh, NEW c \in Call, NEW k \in Trusted', UpdateArrives(c)
  PROVE  FreshOf(k)'
  <1>1. /\ UNCHANGED <<subscriptions, keys, cidrs, raced, unanswered>>
        /\ Existing' = Existing /\ Becomes(c, Idle)
    BY UpdateArrivesEffect, SameExisting DEF server, history
  <1>2. k \in Trusted /\ k # NoKey
    BY <1>1, StillTrusted
  <1>3. ~ Regenerated(calls[c])
    BY UpdateArrivesEffect DEF Regenerated
  <1>4. CASE calls[c].key = k
    <2>1. CASE calls[c].step = "error"
      <3>1. rows' = rows
        BY <2>1, UpdateArrivesEffect
      <3>2. ~ Updated(calls[c])
        BY <2>1 DEF Updated
      <3>3. k \in DOMAIN rows' => /\ rows'[k].primary = Shown(k).primary
                                  /\ rows'[k].secondary = Shown(k).secondary
                                  /\ rows'[k].cidrs = Shown(k).cidrs
        BY <3>1 DEF Shown
      <3>4. QED
        BY <1>1, <1>2, <1>3, <1>4, <3>2, <3>3, FreshMerged
    <2>2. CASE calls[c].step # "error"
      <3>1. k \in DOMAIN rows' => /\ rows'[k].primary = Shown(k).primary
                                  /\ rows'[k].secondary = Shown(k).secondary
                                  /\ rows'[k].cidrs = calls[c].row.cidrs
        BY <1>4, <2>2, UpdateArrivesEffect
      <3>2. QED
        BY <1>1, <1>2, <1>3, <1>4, <3>1, FreshMerged
    <2>3. QED
      BY <2>1, <2>2
  <1>5. CASE calls[c].key # k
    <2>1. k \in DOMAIN rows' => k \in DOMAIN rows /\ rows'[k] = rows[k]
      BY <1>5, UpdateArrivesEffect DEF Merged
    <2>2. QED
      BY <1>1, <1>2, <1>5, <2>1, FreshElsewhere
  <1>6. QED
    BY <1>4, <1>5

LEMMA FreshDeleteArrives ==
  ASSUME TypeInv, Fresh, NEW c \in Call, NEW k \in Trusted', DeleteArrives(c)
  PROVE  FreshOf(k)'
  <1>1. /\ UNCHANGED <<subscriptions, keys, cidrs, raced, unanswered>>
        /\ Existing' = Existing /\ DOMAIN rows' = {}
    BY DeleteArrivesEffect, SameExisting DEF server
  <1>2. k # NoKey
    BY <1>1, StillTrusted
  <1>3. PICK new : Becomes(c, new) /\ Lists(new, 0)
    BY DeleteArrivesEffect
  <1>4. ~ Regenerated(calls[c]) /\ ~ Updated(calls[c])
    BY DeleteArrivesEffect DEF Regenerated, Updated
  <1>5. new.key # k
    BY <1>2, <1>3 DEF Lists
  <1>6. QED
    BY <1>1, <1>3, <1>4, <1>5, FreshQuietly

LEMMA FreshStep ==
  ASSUME TypeInv, Fresh, [Next]_vars
  PROVE  Fresh'
  <1>1. CASE UNCHANGED vars
    <2>1. UNCHANGED <<subscriptions, keys, cidrs, rows, calls, raced, unanswered>>
      BY <1>1 DEF vars, server, page, history
    <2>2. /\ Trusted' = Trusted
          /\ \A k : About(k)' = About(k)
      BY <2>1 DEF Trusted, Existing, About
    <2>3. QED
      BY <2>1, <2>2
      DEF Fresh, FreshAnswers, FreshKeys, FreshCidrs, Carries, CurrentKeys, CurrentCidrs
  <1>2. ASSUME NEW k \in Trusted', Next
        PROVE  FreshOf(k)'
    BY <1>2, FreshClick, FreshValidate, FreshSecrets, FreshRetrieve, FreshRegenerate,
       FreshUpsert, FreshDelete, FreshFail, FreshListed, FreshKeysArrive, FreshCidrsArrive,
       FreshRegenerateArrives, FreshUpdateArrives, FreshDeleteArrives
    DEF Next, Administrator, Server, Answers, Asks
  <1>3. QED
    BY <1>1, <1>2 DEF Fresh, FreshOf

LEMMA FreshStart == Init => Fresh
  <1> SUFFICES ASSUME Init PROVE Fresh
    OBVIOUS
  <1>1. PICK list : list = [Idle EXCEPT !.op = "list"]
    OBVIOUS
  <1>2. Lists(list, 0)
    BY <1>1, ListsAgain
  <1>3. PICK c \in Call : calls = [d \in Call |-> IF d = c THEN list ELSE Idle]
    BY <1>1 DEF Init
  <1>4. \A d \in Call : calls[d].key = NoKey
    BY <1>2, <1>3, IdleCall DEF Lists
  <1>5. \A k \in Trusted : k \in Key /\ k # NoKey
    BY TypeStart, NoKeyAssumption DEF Trusted, TypeInv, TypeOK
  <1>6. \A k \in Trusted : About(k) = {}
    BY <1>4, <1>5 DEF About
  <1>7. DOMAIN rows = {}
    BY DEF Init
  <1>8. QED
    BY <1>6, <1>7 DEF Fresh, FreshAnswers, FreshKeys, FreshCidrs

\* The keys and the addresses that the page shows are those of the server, once the
\* calls about the subscription are answered (KeysShownAreCurrent), for any number of
\* changes, of calls that overlap and of calls that fail.
THEOREM KeysCorrect == Spec => []KeysShownAreCurrent
  <1>1. Init => TypeInv /\ Fresh
    BY TypeStart, FreshStart
  <1>2. TypeInv /\ Fresh /\ [Next]_vars => TypeInv' /\ Fresh'
    BY TypeStep, FreshStep
  <1>3. Fresh => KeysShownAreCurrent
    BY DEF Fresh, FreshKeys, FreshCidrs, CurrentKeys, CurrentCidrs, Trusted,
       KeysShownAreCurrent
  <1>4. QED
    BY <1>1, <1>2, <1>3, PTL DEF Spec

-----------------------------------------------------------------------------
(* The pages of the export                                                  *)

LEMMA PrefixEntries ==
  ASSUME NEW S, NEW list \in Seq(S), NEW read \in Seq(S)
  PROVE  IsPrefix(read, list) <=> /\ Len(read) <= Len(list)
                                  /\ \A i \in 1..Len(read) : read[i] = list[i]
  <1>1. /\ Len(list) \in Nat /\ \A i \in 1..Len(list) : list[i] \in S
        /\ Len(read) \in Nat /\ \A i \in 1..Len(read) : read[i] \in S
    BY LenProperties
  <1> SUFFICES ASSUME Len(read) <= Len(list)
               PROVE  SubSeq(read, 1, Len(read)) = SubSeq(list, 1, Len(read))
                        <=> \A i \in 1..Len(read) : read[i] = list[i]
    BY DEF IsPrefix
  <1>2. /\ SubSeq(read, 1, Len(read)) \in Seq(S)
        /\ Len(SubSeq(read, 1, Len(read))) = Len(read)
        /\ \A i \in 1..Len(read) : SubSeq(read, 1, Len(read))[i] = read[i]
    BY <1>1, SubSeqProperties
  <1>3. /\ SubSeq(list, 1, Len(read)) \in Seq(S)
        /\ Len(SubSeq(list, 1, Len(read))) = Len(read)
        /\ \A i \in 1..Len(read) : SubSeq(list, 1, Len(read))[i] = list[i]
    BY <1>1, SubSeqProperties
  <1>4. QED
    BY <1>2, <1>3, SeqEqual

LEMMA EmptyPrefix ==
  ASSUME NEW S, NEW list \in Seq(S)
  PROVE  IsPrefix(<<>>, list)
  <1> DEFINE nothing == <<>>
  <1>1. nothing \in Seq(S) /\ Len(nothing) = 0 /\ Len(list) \in Nat
    BY LenProperties
  <1> HIDE DEF nothing
  <1>2. Len(nothing) <= Len(list) /\ \A i \in 1..Len(nothing) : nothing[i] = list[i]
    BY <1>1
  <1>3. IsPrefix(nothing, list)
    BY <1>1, <1>2, PrefixEntries
  <1>4. QED
    BY <1>3 DEF nothing

\* A page goes on where what was read ends: as long as that is the beginning of the
\* list, it is so with the page as well, and with the last page it is the list.
LEMMA PageGoesOn ==
  ASSUME NEW S, NEW list \in Seq(S), NEW read \in Seq(S), NEW size \in Nat \ {0}
  PROVE  /\ PageAfter(list, read, size) \in Seq(S)
         /\ read \o PageAfter(list, read, size) \in Seq(S)
         /\ IsPrefix(read, list) => IsPrefix(read \o PageAfter(list, read, size), list)
         /\ IsPrefix(read, list) /\ IsLastPage(list, read, size)
              => read \o PageAfter(list, read, size) = list
  <1> DEFINE last == IF Len(read) + size < Len(list) THEN Len(read) + size ELSE Len(list)
             next == PageAfter(list, read, size)
             all == read \o next
  <1>1. /\ Len(list) \in Nat /\ DOMAIN list = 1..Len(list)
        /\ \A i \in 1..Len(list) : list[i] \in S
        /\ Len(read) \in Nat /\ DOMAIN read = 1..Len(read)
    BY LenProperties
  <1>2. last \in Nat /\ last <= Len(list)
    BY <1>1
  <1>3. /\ next = SubSeq(list, Len(read) + 1, last)
        /\ next \in Seq(S)
        /\ Len(next) = IF Len(read) + 1 <= last THEN last - Len(read) ELSE 0
        /\ \A i \in 1..last - Len(read) : next[i] = list[Len(read) + i]
    <2>1. next = SubSeq(list, Len(read) + 1, last)
      BY DEF PageAfter
    <2>2. \A i \in (Len(read) + 1)..last : list[i] \in S
      BY <1>1, <1>2
    <2>3. Len(read) + 1 \in Int /\ last \in Int
      BY <1>1, <1>2
    <2> HIDE DEF last, next
    <2>4. /\ SubSeq(list, Len(read) + 1, last) \in Seq(S)
          /\ Len(SubSeq(list, Len(read) + 1, last))
               = IF Len(read) + 1 <= last THEN last - (Len(read) + 1) + 1 ELSE 0
          /\ \A i \in 1..last - (Len(read) + 1) + 1 :
               SubSeq(list, Len(read) + 1, last)[i] = list[Len(read) + 1 + i - 1]
      BY <2>2, <2>3, SubSeqProperties
    <2>5. \A i \in 1..last - Len(read) : next[i] = list[Len(read) + i]
      <3> SUFFICES ASSUME NEW i \in 1..last - Len(read)
                   PROVE  next[i] = list[Len(read) + i]
        OBVIOUS
      <3>1. i \in 1..last - (Len(read) + 1) + 1 /\ Len(read) + 1 + i - 1 = Len(read) + i
        BY <1>1, <1>2
      <3>2. QED
        BY <2>1, <2>4, <3>1
    <2>6. Len(next) = IF Len(read) + 1 <= last THEN last - Len(read) ELSE 0
      BY <1>1, <1>2, <2>1, <2>4
    <2>7. QED
      BY <2>1, <2>4, <2>5, <2>6
  <1> HIDE DEF last, next
  <1>4. /\ all \in Seq(S) /\ Len(all) = Len(read) + Len(next)
        /\ \A i \in 1..Len(read) + Len(next) :
             all[i] = IF i <= Len(read) THEN read[i] ELSE next[i - Len(read)]
    BY <1>3, ConcatProperties
  <1> HIDE DEF all
  <1>5. ASSUME IsPrefix(read, list)
        PROVE  /\ Len(all) <= Len(list)
               /\ \A i \in 1..Len(all) : all[i] = list[i]
               /\ IsLastPage(list, read, size) => Len(all) = Len(list)
    <2>1. Len(read) <= Len(list)
      BY <1>5 DEF IsPrefix
    <2>2. \A i \in 1..Len(read) : read[i] = list[i]
      BY <1>1, <1>5, PrefixEntries
    <2>3. Len(next) = last - Len(read) /\ Len(all) = last
      BY <1>1, <1>2, <1>3, <1>4, <2>1 DEF last
    <2>4. ASSUME NEW i \in 1..Len(all)
          PROVE  all[i] = list[i]
      <3>1. CASE i <= Len(read)
        BY <1>1, <1>2, <1>4, <2>1, <2>2, <2>3, <3>1
      <3>2. CASE i > Len(read)
        <4>1. /\ i - Len(read) \in 1..last - Len(read)
              /\ Len(read) + (i - Len(read)) = i
          BY <1>1, <1>2, <2>3, <3>2
        <4>2. all[i] = next[i - Len(read)]
          BY <1>1, <1>2, <1>4, <2>3, <3>2
        <4>3. QED
          BY <1>3, <4>1, <4>2
      <3>3. QED
        BY <1>1, <1>2, <2>3, <3>1, <3>2
    <2>5. ASSUME IsLastPage(list, read, size)
          PROVE  last = Len(list)
      <3>1. Len(read) + size >= Len(list) /\ size \in Nat
        BY <2>5 DEF IsLastPage
      <3>2. ~ (Len(read) + size < Len(list))
        BY <1>1, <3>1
      <3>3. QED
        BY <3>2 DEF last
    <2>6. QED
      BY <1>2, <2>3, <2>4, <2>5
  <1>6. IsPrefix(read, list) => IsPrefix(all, list)
    BY <1>4, <1>5, PrefixEntries
  <1>7. IsPrefix(read, list) /\ IsLastPage(list, read, size) => all = list
    BY <1>1, <1>4, <1>5, SeqEqual
  <1>8. QED
    BY <1>3, <1>4, <1>6, <1>7 DEF all, next

LEMMA Inserted ==
  ASSUME NEW S, NEW list \in Seq(S), NEW i \in 1..Len(list) + 1, NEW e \in S
  PROVE  /\ InsertAt(list, i, e) \in Seq(S)
         /\ Len(InsertAt(list, i, e)) = Len(list) + 1
         /\ \A k \in 1..Len(list) + 1 :
              InsertAt(list, i, e)[k] = IF k < i THEN list[k]
                                        ELSE IF k = i THEN e ELSE list[k - 1]
  <1> DEFINE front == SubSeq(list, 1, i - 1)
             back == SubSeq(list, i, Len(list))
             start == front \o <<e>>
  <1>1. Len(list) \in Nat /\ i \in Nat /\ \A k \in 1..Len(list) : list[k] \in S
    BY LenProperties
  <1>2. /\ front \in Seq(S) /\ Len(front) = i - 1
        /\ \A k \in 1..i - 1 : front[k] = list[k]
    BY <1>1, SubSeqProperties
  <1>3. /\ back \in Seq(S) /\ Len(back) = Len(list) + 1 - i
        /\ \A k \in 1..Len(list) + 1 - i : back[k] = list[i + k - 1]
    <2>1. /\ SubSeq(list, i, Len(list)) \in Seq(S)
          /\ Len(SubSeq(list, i, Len(list)))
               = IF i <= Len(list) THEN Len(list) - i + 1 ELSE 0
          /\ \A k \in 1..Len(list) - i + 1 :
               SubSeq(list, i, Len(list))[k] = list[i + k - 1]
      BY <1>1, SubSeqProperties
    <2>2. Len(list) - i + 1 = Len(list) + 1 - i
      BY <1>1
    <2>3. QED
      BY <1>1, <2>1, <2>2
  <1> HIDE DEF front, back
  <1>4. /\ start \in Seq(S) /\ Len(start) = i
        /\ \A k \in 1..i - 1 : start[k] = list[k]
        /\ start[i] = e
    <2>1. <<e>> \in Seq(S) /\ Len(<<e>>) = 1 /\ <<e>>[1] = e
      OBVIOUS
    <2>2. /\ front \o <<e>> \in Seq(S)
          /\ Len(front \o <<e>>) = i
          /\ \A k \in 1..i :
               (front \o <<e>>)[k] = IF k <= i - 1 THEN front[k] ELSE <<e>>[k - (i - 1)]
      BY <1>1, <1>2, <2>1, ConcatProperties
    <2> HIDE DEF start
    <2>3. /\ start \in Seq(S) /\ Len(start) = i
          /\ \A k \in 1..i : start[k] = IF k <= i - 1 THEN front[k] ELSE <<e>>[k - (i - 1)]
      BY <2>2 DEF start
    <2>4. \A k \in 1..i - 1 : start[k] = list[k]
      BY <1>1, <1>2, <2>3
    <2>5. i \in 1..i /\ i - (i - 1) = 1 /\ ~ (i <= i - 1)
      BY <1>1
    <2>6. start[i] = <<e>>[1]
      BY <2>3, <2>5
    <2>7. QED
      BY <2>1, <2>3, <2>4, <2>6
  <1> HIDE DEF start
  <1> DEFINE all == start \o back
  <1>5. /\ all \in Seq(S) /\ Len(all) = Len(list) + 1
        /\ \A k \in 1..Len(list) + 1 :
             all[k] = IF k <= i THEN start[k] ELSE back[k - i]
    <2>1. i + (Len(list) + 1 - i) = Len(list) + 1
      BY <1>1
    <2>2. /\ all \in Seq(S) /\ Len(all) = Len(start) + Len(back)
          /\ \A k \in 1..Len(start) + Len(back) :
               all[k] = IF k <= Len(start) THEN start[k] ELSE back[k - Len(start)]
      BY <1>3, <1>4, ConcatProperties
    <2> HIDE DEF all
    <2>3. QED
      BY <1>3, <1>4, <2>1, <2>2
  <1> HIDE DEF all
  <1>6. ASSUME NEW k \in 1..Len(list) + 1
        PROVE  all[k] = IF k < i THEN list[k] ELSE IF k = i THEN e ELSE list[k - 1]
    <2>1. CASE k > i
      <3>1. k - i \in 1..Len(list) + 1 - i /\ i + (k - i) - 1 = k - 1
        BY <1>1, <2>1
      <3>2. back[k - i] = list[k - 1]
        BY <1>3, <3>1
      <3>3. QED
        BY <1>1, <1>5, <2>1, <3>2
    <2>2. CASE k <= i
      BY <1>1, <1>4, <1>5, <2>2
    <2>3. QED
      BY <1>1, <2>1, <2>2
  <1>7. InsertAt(list, i, e) = all
    BY DEF InsertAt, all, start, front, back
  <1>8. QED
    BY <1>5, <1>6, <1>7

LEMMA Removed ==
  ASSUME NEW S, NEW list \in Seq(S), NEW i \in 1..Len(list)
  PROVE  /\ RemoveAt(list, i) \in Seq(S)
         /\ Len(RemoveAt(list, i)) = Len(list) - 1
         /\ \A k \in 1..Len(list) - 1 :
              RemoveAt(list, i)[k] = IF k < i THEN list[k] ELSE list[k + 1]
  <1> DEFINE front == SubSeq(list, 1, i - 1)
             back == SubSeq(list, i + 1, Len(list))
  <1>1. Len(list) \in Nat /\ i \in Nat /\ \A k \in 1..Len(list) : list[k] \in S
    BY LenProperties
  <1>2. /\ front \in Seq(S) /\ Len(front) = i - 1
        /\ \A k \in 1..i - 1 : front[k] = list[k]
    BY <1>1, SubSeqProperties
  <1>3. /\ back \in Seq(S) /\ Len(back) = Len(list) - i
        /\ \A k \in 1..Len(list) - i : back[k] = list[i + k]
    <2>1. /\ SubSeq(list, i + 1, Len(list)) \in Seq(S)
          /\ Len(SubSeq(list, i + 1, Len(list)))
               = IF i + 1 <= Len(list) THEN Len(list) - (i + 1) + 1 ELSE 0
          /\ \A k \in 1..Len(list) - (i + 1) + 1 :
               SubSeq(list, i + 1, Len(list))[k] = list[(i + 1) + k - 1]
      BY <1>1, SubSeqProperties
    <2> HIDE DEF back
    <2>2. /\ back \in Seq(S)
          /\ Len(back) = IF i + 1 <= Len(list) THEN Len(list) - (i + 1) + 1 ELSE 0
          /\ \A k \in 1..Len(list) - (i + 1) + 1 : back[k] = list[(i + 1) + k - 1]
      BY <2>1 DEF back
    <2>3. Len(back) = Len(list) - i
      BY <1>1, <2>2
    <2>4. ASSUME NEW k \in 1..Len(list) - i
          PROVE  back[k] = list[i + k]
      <3>1. k \in 1..Len(list) - (i + 1) + 1 /\ (i + 1) + k - 1 = i + k
        BY <1>1
      <3>2. QED
        BY <2>2, <3>1
    <2>5. QED
      BY <2>2, <2>3, <2>4
  <1> HIDE DEF front, back
  <1> DEFINE all == front \o back
  <1>4. /\ all \in Seq(S) /\ Len(all) = Len(list) - 1
        /\ \A k \in 1..Len(list) - 1 :
             all[k] = IF k <= i - 1 THEN front[k] ELSE back[k - (i - 1)]
    <2>1. (i - 1) + (Len(list) - i) = Len(list) - 1
      BY <1>1
    <2>2. /\ all \in Seq(S) /\ Len(all) = Len(front) + Len(back)
          /\ \A k \in 1..Len(front) + Len(back) :
               all[k] = IF k <= Len(front) THEN front[k] ELSE back[k - Len(front)]
      BY <1>2, <1>3, ConcatProperties
    <2> HIDE DEF all
    <2>3. QED
      BY <1>2, <1>3, <2>1, <2>2
  <1> HIDE DEF all
  <1>5. ASSUME NEW k \in 1..Len(list) - 1
        PROVE  all[k] = IF k < i THEN list[k] ELSE list[k + 1]
    <2>1. CASE k >= i
      <3>1. k - (i - 1) \in 1..Len(list) - i /\ i + (k - (i - 1)) = k + 1
        BY <1>1, <2>1
      <3>2. QED
        BY <1>1, <1>3, <1>4, <2>1, <3>1
    <2>2. CASE k < i
      <3>1. k <= i - 1 /\ k \in 1..i - 1
        BY <1>1, <2>2
      <3>2. QED
        BY <1>2, <1>4, <2>2, <3>1
    <2>3. QED
      BY <1>1, <2>1, <2>2
  <1>6. RemoveAt(list, i) = all
    BY DEF RemoveAt, all, front, back
  <1>7. QED
    BY <1>4, <1>5, <1>6

\* Self-care lists nothing twice, whatever comes and goes.
LEMMA EditedList ==
  ASSUME NEW S, NEW list \in Seq(S), IsInjective(list), NEW new \in Edits(list, S)
  PROVE  new \in Seq(S) /\ IsInjective(new)
  <1>1. Len(list) \in Nat /\ DOMAIN list = 1..Len(list)
    BY LenProperties
  <1>2. \A a, b \in 1..Len(list) : list[a] = list[b] => a = b
    BY <1>1 DEF IsInjective
  <1>3. CASE \E i \in 1..Len(list) + 1, e \in S \ Range(list) : new = InsertAt(list, i, e)
    <2>1. PICK i \in 1..Len(list) + 1, e \in S \ Range(list) : new = InsertAt(list, i, e)
      BY <1>3
    <2>2. /\ new \in Seq(S) /\ Len(new) = Len(list) + 1
          /\ \A k \in 1..Len(list) + 1 :
               new[k] = IF k < i THEN list[k] ELSE IF k = i THEN e ELSE list[k - 1]
      <3>1. e \in S
        OBVIOUS
      <3>2. QED
        BY <2>1, <3>1, Inserted
    <2>3. DOMAIN new = 1..Len(list) + 1
      BY <2>2, LenProperties
    <2>4. \A k \in 1..Len(list) : list[k] # e
      BY <1>1 DEF Range
    <2>5. ASSUME NEW a \in 1..Len(list) + 1, NEW b \in 1..Len(list) + 1, a < b
          PROVE  new[a] # new[b]
      <3>1. CASE b < i
        BY <1>1, <1>2, <2>2, <2>5, <3>1
      <3>2. CASE b = i
        BY <1>1, <2>2, <2>4, <2>5, <3>2
      <3>3. CASE b > i
        BY <1>1, <1>2, <2>2, <2>4, <2>5, <3>3
      <3>4. QED
        BY <1>1, <3>1, <3>2, <3>3
    <2>6. QED
      BY <1>1, <2>2, <2>3, <2>5 DEF IsInjective
  <1>4. CASE \E i \in DOMAIN list : new = RemoveAt(list, i)
    <2>1. PICK i \in 1..Len(list) : new = RemoveAt(list, i)
      BY <1>1, <1>4
    <2>2. /\ new \in Seq(S) /\ Len(new) = Len(list) - 1
          /\ \A k \in 1..Len(list) - 1 :
               new[k] = IF k < i THEN list[k] ELSE list[k + 1]
      BY <2>1, Removed
    <2>3. DOMAIN new = 1..Len(list) - 1
      BY <2>2, LenProperties
    <2>4. ASSUME NEW a \in 1..Len(list) - 1, NEW b \in 1..Len(list) - 1, a < b
          PROVE  new[a] # new[b]
      BY <1>1, <1>2, <2>2, <2>4
    <2>5. QED
      BY <1>1, <2>2, <2>3, <2>4 DEF IsInjective
  <1>5. QED
    BY <1>3, <1>4 DEF Edits

-----------------------------------------------------------------------------
(* The files of the export                                                  *)

LEMMA SameLength == \A m, n \in Nat : 1..m = 1..n => m = n
  OBVIOUS

\* Rewriting files changes neither how many they are nor their order.
LEMMA SameFiles ==
  ASSUME ExportTypeOK, NEW new \in [DOMAIN files -> File], files' = new
  PROVE  /\ files' \in Seq(File)
         /\ Len(files') = Len(files) /\ DOMAIN files' = DOMAIN files
  <1>1. /\ Len(files) \in Nat /\ DOMAIN files = 1..Len(files)
    BY LenProperties DEF ExportTypeOK
  <1>2. files' \in Seq(File)
    BY <1>1, SeqDef
  <1>3. DOMAIN files' = 1..Len(files') /\ Len(files') \in Nat
    BY <1>2, LenProperties
  <1>4. Len(files') = Len(files)
    BY <1>1, <1>3
  <1>5. QED
    BY <1>2, <1>4, <1>1

LEMMA FilesType ==
  ASSUME ExportTypeOK
  PROVE  /\ Len(files) \in Nat /\ DOMAIN files = 1..Len(files)
         /\ DOMAIN lasting = DOMAIN files
         /\ \A i \in DOMAIN files : files[i] \in File /\ lasting[i] \in SUBSET Group
  <1>1. /\ Len(files) \in Nat /\ DOMAIN files = 1..Len(files)
        /\ files \in [1..Len(files) -> File]
    BY LenProperties DEF ExportTypeOK
  <1>2. /\ DOMAIN lasting = 1..Len(files)
        /\ lasting \in [1..Len(files) -> SUBSET Group]
    BY LenProperties DEF ExportTypeOK
  <1>3. QED
    BY <1>1, <1>2

-----------------------------------------------------------------------------
(* The shape of the files and the tasks                                     *)

\* The steps of a task that has a file.
HasFile(t) == task[t].step \in {"groups", "aggregates", "finalize", "fail"}

\* A task that has a file has one that exists, and no other task has it. TypeOK is
\* not inductive without this: a task would finish the file 0.
OwnFile ==
  /\ \A t \in Task : HasFile(t) => task[t].file \in DOMAIN files
  /\ \A t, u \in Task :
       HasFile(t) /\ HasFile(u) /\ t # u => task[t].file # task[u].file

TaskRecord == [step : {"idle", "initialize", "groups", "aggregates", "finalize", "fail"},
               file : Nat, groups : Seq(Group), aggregates : Seq(Aggregate),
               rows : SUBSET Group]

LEMMA TaskType ==
  ASSUME ExportTypeOK, NEW t \in Task
  PROVE  task[t] \in TaskRecord /\ task[t].file \in 0..Len(files)
  BY FilesType DEF ExportTypeOK, TaskRecord

Tasks == [step : {"idle", "initialize", "groups", "aggregates", "finalize", "fail"},
          file : 0..Len(files), groups : Seq(Group), aggregates : Seq(Aggregate),
          rows : SUBSET Group]

\* A task goes on with the file it has, or without one.
LEMMA TaskGoesOn ==
  ASSUME ExportTypeOK, OwnFile, Len(files') = Len(files), DOMAIN files' = DOMAIN files,
         NEW t \in Task, NEW new \in TaskRecord, task' = [task EXCEPT ![t] = new],
         \/ new.step \in {"idle", "initialize"} /\ new.file \in {0, task[t].file}
         \/ HasFile(t) /\ new.file = task[t].file
  PROVE  task' \in [Task -> Tasks'] /\ OwnFile'
  <1>1. task' \in [Task -> TaskRecord]
    BY TaskType DEF ExportTypeOK
  <1>2. ASSUME NEW u \in Task
        PROVE  /\ task'[u].file \in 0..Len(files')
               /\ HasFile(u)' => HasFile(u) /\ task'[u].file = task[u].file
    <2>1. CASE u = t
      BY <2>1, TaskType DEF ExportTypeOK, HasFile
    <2>2. CASE u # t
      BY <2>2, TaskType DEF ExportTypeOK, HasFile
    <2>3. QED
      BY <2>1, <2>2
  <1>3. task' \in [Task -> Tasks']
    BY <1>1, <1>2 DEF Tasks, TaskRecord
  <1>4. OwnFile'
    BY <1>2 DEF OwnFile
  <1>5. QED
    BY <1>3, <1>4

LEMMA NewTask ==
  ASSUME NEW n, NEW new, new = [NoTask EXCEPT !.step = "groups", !.file = n]
  PROVE  new = [step |-> "groups", file |-> n, groups |-> <<>>, aggregates |-> <<>>,
                rows |-> {}]
  BY DEF NoTask

\* A new file goes to the task that made it.
LEMMA TaskTakesFile ==
  ASSUME ExportTypeOK, OwnFile, Len(files') = Len(files) + 1,
         DOMAIN files' = 1..Len(files'),
         NEW t \in Task,
         task' = [task EXCEPT ![t] =
                    [NoTask EXCEPT !.step = "groups", !.file = Len(files')]]
  PROVE  task' \in [Task -> Tasks'] /\ OwnFile'
  <1>1. Len(files) \in Nat /\ DOMAIN files = 1..Len(files)
    BY FilesType
  <1> PICK new : new = [NoTask EXCEPT !.step = "groups", !.file = Len(files')]
    OBVIOUS
  <1>2. new \in Tasks' /\ new.file = Len(files')
    <2> DEFINE nothing == <<>>
    <2>1. new = [step |-> "groups", file |-> Len(files'), groups |-> nothing,
                 aggregates |-> nothing, rows |-> {}]
      BY NewTask
    <2>2. Len(files') \in 0..Len(files')
      BY <1>1
    <2>3. nothing \in Seq(Group) /\ nothing \in Seq(Aggregate)
      OBVIOUS
    <2> HIDE DEF nothing
    <2>4. QED
      BY <2>1, <2>2, <2>3 DEF Tasks
  <1>3. ASSUME NEW u \in Task, u # t
        PROVE  task'[u] = task[u] /\ task[u] \in Tasks'
    BY <1>1, <1>3, TaskType DEF ExportTypeOK, Tasks, TaskRecord
  <1>4. task' \in [Task -> Tasks']
    BY <1>2, <1>3 DEF ExportTypeOK
  <1>5. task'[t].file = Len(files) + 1
    BY <1>2 DEF ExportTypeOK
  <1>6. \A u \in Task : u # t => (HasFile(u)' <=> HasFile(u))
    BY <1>3 DEF HasFile
  <1>7. ASSUME NEW u \in Task, HasFile(u)'
        PROVE  task'[u].file \in DOMAIN files'
    BY <1>1, <1>3, <1>5, <1>6, <1>7 DEF OwnFile
  <1>8. ASSUME NEW u \in Task, NEW v \in Task, HasFile(u)', HasFile(v)', u # v
        PROVE  task'[u].file # task'[v].file
    BY <1>1, <1>3, <1>5, <1>6, <1>8 DEF OwnFile
  <1>9. QED
    BY <1>4, <1>7, <1>8 DEF OwnFile

\* What one step of a task makes of it: a page more of the groups, a page more of
\* the delegations, or the end of the reading.
LEMMA TaskFails ==
  ASSUME ExportTypeOK, NEW t \in Task, Fails(t)
  PROVE  \E new \in TaskRecord : /\ task' = [task EXCEPT ![t] = new]
                                 /\ new.step = "fail" /\ new.file = task[t].file
  <1>1. PICK new : new = [NoTask EXCEPT !.step = "fail", !.file = task[t].file]
    OBVIOUS
  <1>2. new = [step |-> "fail", file |-> task[t].file, groups |-> <<>>,
               aggregates |-> <<>>, rows |-> {}]
    BY <1>1 DEF NoTask
  <1>3. new \in TaskRecord
    BY <1>2, TaskType DEF TaskRecord
  <1>4. QED
    BY <1>1, <1>2, <1>3 DEF Fails

LEMMA GroupsRead ==
  ASSUME ExportTypeOK, NEW t \in Task, RetrieveAggregatorGroups(t)
  PROVE  \E new \in TaskRecord :
           /\ task' = [task EXCEPT ![t] = new]
           /\ new.file = task[t].file
           /\ new.groups = task[t].groups \o PageAfter(groups, task[t].groups, GroupPage)
           /\ new.aggregates = task[t].aggregates
           /\ new.step = IF IsLastPage(groups, task[t].groups, GroupPage)
                         THEN "aggregates" ELSE "groups"
  <1> DEFINE next == PageAfter(groups, task[t].groups, GroupPage)
             step == IF IsLastPage(groups, task[t].groups, GroupPage)
                     THEN "aggregates" ELSE "groups"
  <1>1. task[t] \in TaskRecord /\ task[t].step = "groups"
    BY TaskType DEF RetrieveAggregatorGroups
  <1>2. task[t].groups \o next \in Seq(Group)
    <2>1. groups \in Seq(Group) /\ task[t].groups \in Seq(Group)
      BY <1>1 DEF ExportTypeOK, TaskRecord
    <2>2. GroupPage \in Nat \ {0}
      BY PageAssumption
    <2>3. QED
      BY <2>1, <2>2, PageGoesOn
  <1> HIDE DEF next
  <1>3. PICK new : new = [task[t] EXCEPT !.groups = task[t].groups \o next, !.step = step]
    OBVIOUS
  <1>4. task' = [task EXCEPT ![t] = new]
    BY <1>1, <1>3 DEF RetrieveAggregatorGroups, next
  <1>5. /\ new.file = task[t].file /\ new.groups = task[t].groups \o next
        /\ new.aggregates = task[t].aggregates /\ new.step = step
        /\ new \in TaskRecord
    BY <1>1, <1>2, <1>3 DEF TaskRecord
  <1>6. QED
    BY <1>4, <1>5 DEF next

\* The delegations of t with the page that comes next, and what ends their reading.
More(t) == task[t].aggregates \o PageAfter(delegated, task[t].aggregates, DelegationPage)

LEMMA AggregatesRead ==
  ASSUME ExportTypeOK, NEW t \in Task, RetrieveAggregates(t)
  PROVE  \E new \in TaskRecord :
           /\ task' = [task EXCEPT ![t] = new]
           /\ new.file = task[t].file
           /\ new.step \in {"aggregates", "finalize", "fail"}
           /\ new.step = "aggregates" => /\ new.groups = task[t].groups
                                         /\ new.aggregates = More(t)
           /\ new.step = "finalize" =>
                /\ IsLastPage(delegated, task[t].aggregates, DelegationPage)
                /\ Len(task[t].groups) = Len(More(t))
                /\ new.rows = {g \in aggregateToGroupMap(task[t].groups) :
                                 g[1] \in Range(More(t))}
           /\ new.step # "fail" =>
                Range(PageAfter(delegated, task[t].aggregates, DelegationPage))
                  \subseteq {g[1] : g \in Range(task[t].groups)}
  <1> DEFINE read == task[t].groups
             next == PageAfter(delegated, task[t].aggregates, DelegationPage)
             known == Range(next) \subseteq {g[1] : g \in Range(read)}
             last == IsLastPage(delegated, task[t].aggregates, DelegationPage)
             chosen == {g \in aggregateToGroupMap(read) : g[1] \in Range(More(t))}
  <1>1. task[t] \in TaskRecord /\ task[t].step = "aggregates"
    BY TaskType DEF RetrieveAggregates
  <1>2. More(t) \in Seq(Aggregate)
    <2>1. delegated \in Seq(Aggregate) /\ task[t].aggregates \in Seq(Aggregate)
      BY <1>1 DEF ExportTypeOK, TaskRecord
    <2>2. DelegationPage \in Nat \ {0}
      BY PageAssumption
    <2>3. QED
      BY <2>1, <2>2, PageGoesOn DEF More
  <1>3. chosen \subseteq Group
    <2>1. task[t].groups \in Seq(Group)
      BY <1>1 DEF TaskRecord
    <2>2. \A i \in DOMAIN task[t].groups : task[t].groups[i] \in Group
      BY <2>1, LenProperties
    <2>3. QED
      BY <2>2 DEF aggregateToGroupMap
  <1>4. \/ known /\ ~ last /\ task' = [task EXCEPT ![t].aggregates = More(t)]
        \/ /\ known /\ last /\ Len(read) = Len(More(t))
           /\ task' = [task EXCEPT ![t] = [NoTask EXCEPT
                !.step = "finalize", !.file = task[t].file, !.rows = chosen]]
        \/ Fails(t)
    BY DEF RetrieveAggregates, More, SameCount
  <1> HIDE DEF chosen, known, last
  <1>5. CASE known /\ ~ last /\ task' = [task EXCEPT ![t].aggregates = More(t)]
    <2>1. PICK new : new = [task[t] EXCEPT !.aggregates = More(t)]
      OBVIOUS
    <2>2. /\ new \in TaskRecord /\ new.step = "aggregates" /\ new.file = task[t].file
          /\ new.groups = task[t].groups /\ new.aggregates = More(t)
      BY <1>1, <1>2, <2>1 DEF TaskRecord
    <2>3. task' = [task EXCEPT ![t] = new]
      BY <1>5, <2>1
    <2>4. QED
      BY <1>5, <2>2, <2>3 DEF known
  <1>6. CASE /\ known /\ last /\ Len(read) = Len(More(t))
             /\ task' = [task EXCEPT ![t] = [NoTask EXCEPT
                  !.step = "finalize", !.file = task[t].file, !.rows = chosen]]
    <2>1. PICK new : new = [NoTask EXCEPT !.step = "finalize", !.file = task[t].file,
                                          !.rows = chosen]
      OBVIOUS
    <2>2. new = [step |-> "finalize", file |-> task[t].file, groups |-> <<>>,
                 aggregates |-> <<>>, rows |-> chosen]
      BY <2>1 DEF NoTask
    <2>3. new \in TaskRecord
      BY <1>1, <1>3, <2>2 DEF TaskRecord
    <2>4. task' = [task EXCEPT ![t] = new]
      BY <1>6, <2>1
    <2>5. QED
      BY <1>6, <2>2, <2>3, <2>4 DEF known, last, chosen
  <1>7. CASE Fails(t)
    BY <1>7, TaskFails
  <1>8. QED
    BY <1>4, <1>5, <1>6, <1>7

\* What the steps do to the files: none, or a new one, or they rewrite some.
FilesOK ==
  /\ files \in Seq(File)
  /\ \A i \in DOMAIN files : files[i].state = "IN_PROGRESS" => files[i].rows = {}
  /\ lasting \in Seq(SUBSET Group) /\ Len(lasting) = Len(files)
  /\ shifted \subseteq DOMAIN files

LEMMA SameFilesOK ==
  ASSUME ExportTypeOK, UNCHANGED <<files, lasting, shifted>>
  PROVE  /\ FilesOK' /\ Len(files') = Len(files) /\ DOMAIN files' = DOMAIN files
  BY DEF ExportTypeOK, FilesOK

LEMMA RewrittenFilesOK ==
  ASSUME ExportTypeOK, NEW new \in [DOMAIN files -> File], files' = new,
         UNCHANGED <<lasting, shifted>>,
         \A i \in DOMAIN files : new[i].state = "IN_PROGRESS" => new[i].rows = {}
  PROVE  /\ FilesOK' /\ Len(files') = Len(files) /\ DOMAIN files' = DOMAIN files
  BY SameFiles DEF ExportTypeOK, FilesOK

\* A file that ends is rewritten as a whole, or but for its tags.
LEMMA FinalizedFile ==
  ASSUME ExportTypeOK, OwnFile, NEW t \in Task, FinalizeFile(t)
  PROVE  /\ FilesOK' /\ Len(files') = Len(files) /\ DOMAIN files' = DOMAIN files
         /\ \A i \in DOMAIN files :
              files'[i] = IF i = task[t].file
                            THEN [state |-> "DONE", age |-> 0, rows |-> task[t].rows]
                            ELSE files[i]
  <1> DEFINE done == [state |-> "DONE", age |-> 0, rows |-> task[t].rows]
             new == [files EXCEPT ![task[t].file] = done]
  <1>1. done \in File
    BY TaskType, DurationAssumption DEF File, State, TaskRecord
  <1>2. new \in [DOMAIN files -> File]
    BY <1>1, FilesType
  <1>3. \A i \in DOMAIN files :
          new[i] = IF i = task[t].file THEN done ELSE files[i]
    BY FilesType
  <1>4. files' = new /\ UNCHANGED <<lasting, shifted>>
    BY DEF FinalizeFile, selfcare
  <1>5. \A i \in DOMAIN files : new[i].state = "IN_PROGRESS" => new[i].rows = {}
    BY <1>3 DEF ExportTypeOK
  <1> HIDE DEF new
  <1>6. QED
    BY <1>2, <1>3, <1>4, <1>5, RewrittenFilesOK

LEMMA MarkedFile ==
  ASSUME ExportTypeOK, OwnFile, NEW t \in Task, MarkFileAsFailed(t)
  PROVE  /\ FilesOK' /\ Len(files') = Len(files) /\ DOMAIN files' = DOMAIN files
         /\ \A i \in DOMAIN files :
              files'[i] = IF i = task[t].file
                            THEN [files[i] EXCEPT !.state = "FAILED"]
                            ELSE files[i]
  <1> DEFINE new == [files EXCEPT ![task[t].file].state = "FAILED"]
  <1>1. \A i \in DOMAIN files :
          new[i] = IF i = task[t].file
                     THEN [files[i] EXCEPT !.state = "FAILED"] ELSE files[i]
    BY FilesType
  <1>2. ASSUME NEW i \in DOMAIN files
        PROVE  /\ [files[i] EXCEPT !.state = "FAILED"] \in File
               /\ [files[i] EXCEPT !.state = "FAILED"].state = "FAILED"
    BY FilesType DEF File, State
  <1>3. new \in [DOMAIN files -> File]
    BY <1>1, <1>2, FilesType
  <1>4. files' = new /\ UNCHANGED <<lasting, shifted>>
    BY DEF MarkFileAsFailed, selfcare
  <1>5. \A i \in DOMAIN files : new[i].state = "IN_PROGRESS" => new[i].rows = {}
    BY <1>1, <1>2 DEF ExportTypeOK
  <1> HIDE DEF new
  <1>6. QED
    BY <1>1, <1>3, <1>4, <1>5, RewrittenFilesOK

LEMMA OlderFiles ==
  ASSUME ExportTypeOK, SecondPasses
  PROVE  /\ FilesOK' /\ Len(files') = Len(files) /\ DOMAIN files' = DOMAIN files
         /\ \A i \in DOMAIN files :
              files'[i] = [files[i] EXCEPT !.age = IF @ < Duration THEN @ + 1 ELSE @]
  <1> DEFINE older(i) == [files[i] EXCEPT !.age = IF @ < Duration THEN @ + 1 ELSE @]
             new == [i \in DOMAIN files |-> older(i)]
  <1>1. ASSUME NEW i \in DOMAIN files
        PROVE  /\ older(i) \in File
               /\ older(i).state = files[i].state /\ older(i).rows = files[i].rows
    BY FilesType, DurationAssumption DEF File
  <1>2. files' = new /\ UNCHANGED <<lasting, shifted>>
    BY DEF SecondPasses, selfcare
  <1>3. new \in [DOMAIN files -> File]
    BY <1>1
  <1>4. \A i \in DOMAIN files : new[i].state = "IN_PROGRESS" => new[i].rows = {}
    BY <1>1 DEF ExportTypeOK
  <1>5. \A i \in DOMAIN files : new[i] = older(i)
    OBVIOUS
  <1> HIDE DEF new
  <1>6. QED
    BY <1>2, <1>3, <1>4, <1>5, RewrittenFilesOK

LEMMA NewFile ==
  ASSUME ExportTypeOK, NEW t \in Task, InitializeFile(t)
  PROVE  /\ FilesOK' /\ Len(files') = Len(files) + 1 /\ DOMAIN files' = 1..Len(files')
         /\ files'[Len(files')] = [state |-> "IN_PROGRESS", age |-> 0, rows |-> {}]
         /\ lasting'[Len(files')] = Lasting(delegated, groups)
         /\ \A i \in DOMAIN files : files'[i] = files[i] /\ lasting'[i] = lasting[i]
  <1> DEFINE new == [state |-> "IN_PROGRESS", age |-> 0, rows |-> {}]
             rest == Lasting(delegated, groups)
  <1>1. new \in File /\ rest \in SUBSET Group
    <2>1. \A i \in DOMAIN groups : groups[i] \in Group
      BY LenProperties DEF ExportTypeOK
    <2>2. QED
      BY <2>1, DurationAssumption DEF File, State, Lasting, Range
  <1>2. /\ files' = Append(files, new) /\ lasting' = Append(lasting, rest)
        /\ UNCHANGED shifted
    BY DEF InitializeFile
  <1> HIDE DEF new, rest
  <1>3. /\ files' \in Seq(File) /\ Len(files') = Len(files) + 1
        /\ DOMAIN files' = 1..Len(files')
        /\ files'[Len(files')] = new
        /\ \A i \in DOMAIN files : files'[i] = files[i]
    BY <1>1, <1>2, FilesType, AppendProperties, LenProperties DEF ExportTypeOK
  <1>4. /\ lasting' \in Seq(SUBSET Group) /\ Len(lasting') = Len(lasting) + 1
        /\ lasting'[Len(files')] = rest
        /\ \A i \in DOMAIN files : lasting'[i] = lasting[i]
    BY <1>1, <1>2, <1>3, FilesType, AppendProperties, LenProperties DEF ExportTypeOK
  <1>5. \A i \in DOMAIN files' : files'[i].state = "IN_PROGRESS" => files'[i].rows = {}
    BY <1>3, FilesType DEF new, ExportTypeOK
  <1>6. shifted' \subseteq DOMAIN files'
    BY <1>2, <1>3, FilesType DEF ExportTypeOK
  <1>7. QED
    BY <1>3, <1>4, <1>5, <1>6 DEF FilesOK, ExportTypeOK, new, rest

SelfcareOK == /\ delegated \in Seq(Aggregate) /\ IsInjective(delegated)
              /\ groups \in Seq(Group) /\ IsInjective(groups)

LEMMA SameSelfcare ==
  ASSUME ExportTypeOK, UNCHANGED <<delegated, groups>>
  PROVE  SelfcareOK'
  BY DEF ExportTypeOK, SelfcareOK, IsInjective

LEMMA ExportTypeFromParts ==
  (/\ SelfcareOK
   /\ FilesOK
   /\ task \in [Task -> Tasks]
   /\ offered \in 0..Len(files)
   /\ changes \in 0..MaxChange /\ failures \in 0..MaxFailure
   /\ together \in BOOLEAN /\ outlived \in BOOLEAN) => ExportTypeOK
  BY DEF ExportTypeOK, SelfcareOK, FilesOK, Tasks

LEMMA ExportTypeStep ==
  ExportTypeOK /\ OwnFile /\ [ExportNext]_exportVars => ExportTypeOK' /\ OwnFile'
  <1> SUFFICES ASSUME ExportTypeOK, OwnFile, [ExportNext]_exportVars
               PROVE  ExportTypeOK' /\ OwnFile'
    OBVIOUS
  <1> DEFINE Rest == /\ SelfcareOK'
                     /\ changes' \in 0..MaxChange /\ failures' \in 0..MaxFailure
                     /\ together' \in BOOLEAN /\ outlived' \in BOOLEAN
  <1>1. CASE Change
    <2>1. SelfcareOK'
      <3>1. CASE delegated' \in Edits(delegated, Aggregate) /\ UNCHANGED groups
        <4>1. delegated' \in Seq(Aggregate) /\ IsInjective(delegated')
          BY <3>1, EditedList DEF ExportTypeOK
        <4>2. IsInjective(delegated)' /\ IsInjective(groups)'
          BY <3>1, <4>1 DEF ExportTypeOK, IsInjective
        <4>3. QED
          BY <3>1, <4>1, <4>2 DEF SelfcareOK, ExportTypeOK
      <3>2. CASE groups' \in Edits(groups, Group) /\ UNCHANGED delegated
        <4>1. groups' \in Seq(Group) /\ IsInjective(groups')
          BY <3>2, EditedList DEF ExportTypeOK
        <4>2. IsInjective(delegated)' /\ IsInjective(groups)'
          BY <3>2, <4>1 DEF ExportTypeOK, IsInjective
        <4>3. QED
          BY <3>2, <4>1, <4>2 DEF SelfcareOK, ExportTypeOK
      <3>3. QED
        BY <1>1, <3>1, <3>2 DEF Change
    <2>2. /\ changes' \in 0..MaxChange
          /\ UNCHANGED <<files, task, offered, failures, together, outlived>>
      BY <1>1, ChangeAssumption DEF Change, ExportTypeOK
    <2>3. shifted' \subseteq DOMAIN files'
      <3>1. ASSUME NEW t \in Task, Shifts(t, delegated', groups')
            PROVE  task[t].file \in DOMAIN files
        BY <3>1 DEF Shifts, OwnFile, HasFile
      <3>2. shifted' = shifted \cup
              {task[t].file : t \in {u \in Task : Shifts(u, delegated', groups')}}
        BY <1>1 DEF Change
      <3>3. QED
        BY <2>2, <3>1, <3>2 DEF ExportTypeOK
    <2> DEFINE new == [i \in DOMAIN lasting |->
                         lasting[i] \cap Lasting(delegated', groups')]
    <2>4. lasting' = new
      BY <1>1 DEF Change
    <2>5. /\ DOMAIN lasting = 1..Len(lasting) /\ Len(lasting) \in Nat
          /\ \A i \in DOMAIN lasting : lasting[i] \in SUBSET Group
      BY FilesType, LenProperties DEF ExportTypeOK
    <2>6. new \in [1..Len(lasting) -> SUBSET Group]
      BY <2>5
    <2> HIDE DEF new
    <2>7. lasting' \in Seq(SUBSET Group)
      BY <2>4, <2>5, <2>6, SeqDef
    <2>8. /\ DOMAIN lasting' = 1..Len(lasting') /\ Len(lasting') \in Nat
          /\ DOMAIN lasting' = 1..Len(lasting)
      BY <2>4, <2>6, <2>7, LenProperties
    <2>9. Len(lasting') = Len(lasting)
      BY <2>5, <2>8, SameLength
    <2>10. FilesOK' /\ OwnFile'
      BY <2>2, <2>3, <2>7, <2>9 DEF FilesOK, OwnFile, HasFile, ExportTypeOK
    <2>11. task' \in [Task -> Tasks'] /\ offered' \in 0..Len(files')
      BY <2>2 DEF ExportTypeOK, Tasks
    <2>12. ExportTypeOK'
      BY <2>1, <2>2, <2>10, <2>11 DEF ExportTypeOK, SelfcareOK, FilesOK, Tasks
    <2>13. QED
      BY <2>10, <2>12
  <1>2. CASE SecondPasses
    <2>1. FilesOK' /\ Len(files') = Len(files) /\ DOMAIN files' = DOMAIN files
      BY <1>2, OlderFiles
    <2>2. UNCHANGED <<delegated, groups, changes, task, offered, failures, together>>
      BY <1>2 DEF SecondPasses, selfcare
    <2>3. outlived' \in BOOLEAN
      BY <1>2 DEF SecondPasses, ExportTypeOK
    <2>4. SelfcareOK' /\ OwnFile'
      BY <2>1, <2>2, SameSelfcare DEF OwnFile, HasFile
    <2>5. QED
      BY <2>1, <2>2, <2>3, <2>4 DEF ExportTypeOK, SelfcareOK, FilesOK
  <1>3. CASE Download
    <2>1. UNCHANGED <<delegated, groups, changes, lasting, shifted, files, task, failures,
                      together, outlived>>
      BY <1>3 DEF Download, selfcare
    <2>2. offered' \in 0..Len(files)
      BY <1>3, FilesType DEF Download, MostRecentExports, findExportsFiles
    <2>3. SelfcareOK' /\ OwnFile'
      BY <2>1, SameSelfcare DEF OwnFile, HasFile
    <2>4. QED
      BY <2>1, <2>2, <2>3 DEF ExportTypeOK, SelfcareOK
  <1>4. ASSUME NEW t \in Task, InitializeFile(t)
        PROVE  ExportTypeOK' /\ OwnFile'
    <2>1. FilesOK' /\ Len(files') = Len(files) + 1 /\ DOMAIN files' = 1..Len(files')
      BY <1>4, NewFile
    <2>2. task' \in [Task -> Tasks'] /\ OwnFile'
      BY <1>4, <2>1, TaskTakesFile DEF InitializeFile
    <2>3. Rest /\ offered' = 0
      BY <1>4, SameSelfcare DEF InitializeFile, ExportTypeOK
    <2>4. 0 \in 0..Len(files')
      BY <2>1, FilesType
    <2>5. QED
      BY <2>1, <2>2, <2>3, <2>4 DEF ExportTypeOK, SelfcareOK, FilesOK, Tasks
  <1>5. ASSUME NEW t \in Task,
               \/ Request(t) \/ RetrieveAggregatorGroups(t) \/ RetrieveAggregates(t)
               \/ FinalizeFile(t) \/ FailTask(t) \/ MarkFileAsFailed(t) \/ Stop(t)
        PROVE  ExportTypeOK' /\ OwnFile'
    <2>1. FilesOK' /\ Len(files') = Len(files) /\ DOMAIN files' = DOMAIN files
      BY <1>5, FinalizedFile, MarkedFile, SameFilesOK
      DEF Request, RetrieveAggregatorGroups, RetrieveAggregates, FailTask, Stop, selfcare
    <2>2. Rest /\ offered' = offered
      <3>1. /\ UNCHANGED <<delegated, groups, changes, offered, outlived>>
            /\ together' \in BOOLEAN
            /\ UNCHANGED failures \/ (failures < MaxFailure /\ failures' = failures + 1)
        BY <1>5
        DEF Request, RetrieveAggregatorGroups, RetrieveAggregates, FinalizeFile,
            FailTask, MarkFileAsFailed, Stop, Fault, selfcare, ExportTypeOK
      <3>2. failures' \in 0..MaxFailure
        BY <3>1, ChangeAssumption DEF ExportTypeOK
      <3>3. SelfcareOK'
        BY <3>1, SameSelfcare
      <3>4. QED
        BY <3>1, <3>2, <3>3 DEF ExportTypeOK
    <2>3. \E new \in TaskRecord :
            /\ task' = [task EXCEPT ![t] = new]
            /\ \/ new.step \in {"idle", "initialize"} /\ new.file \in {0, task[t].file}
               \/ HasFile(t) /\ new.file = task[t].file
      <3>1. task[t] \in TaskRecord
        BY TaskType
      <3>2. NoTask \in TaskRecord
        BY DEF NoTask, TaskRecord
      <3>3. CASE Request(t)
        <4>1. PICK new : new = [task[t] EXCEPT !.step = "initialize"]
          OBVIOUS
        <4>2. new \in TaskRecord /\ new.step = "initialize" /\ new.file = task[t].file
          BY <3>1, <4>1 DEF TaskRecord
        <4>3. task' = [task EXCEPT ![t] = new]
          BY <3>3, <4>1 DEF Request
        <4>4. QED
          BY <4>2, <4>3
      <3>4. CASE task' = [task EXCEPT ![t] = NoTask]
        BY <3>2, <3>4 DEF NoTask
      <3>5. CASE RetrieveAggregatorGroups(t)
        <4>1. HasFile(t)
          BY <3>5 DEF RetrieveAggregatorGroups, HasFile
        <4>2. QED
          BY <3>5, <4>1, GroupsRead
      <3>6. CASE RetrieveAggregates(t)
        <4>1. HasFile(t)
          BY <3>6 DEF RetrieveAggregates, HasFile
        <4>2. QED
          BY <3>6, <4>1, AggregatesRead
      <3>7. CASE HasFile(t) /\ Fails(t)
        BY <3>7, TaskFails
      <3>8. QED
        BY <1>5, <3>3, <3>4, <3>5, <3>6, <3>7
        DEF FinalizeFile, FailTask, MarkFileAsFailed, Stop, Running, HasFile
    <2>4. task' \in [Task -> Tasks'] /\ OwnFile'
      BY <2>1, <2>3, TaskGoesOn
    <2>5. QED
      BY <2>1, <2>2, <2>4 DEF ExportTypeOK, SelfcareOK, FilesOK, Tasks
  <1>6. CASE UNCHANGED exportVars
    <2>1. SelfcareOK'
      BY <1>6, SameSelfcare DEF exportVars, selfcare
    <2>2. QED
      BY <1>6, <2>1 DEF exportVars, selfcare, ExportTypeOK, SelfcareOK, OwnFile, HasFile
  <1>7. QED
    BY <1>1, <1>2, <1>3, <1>4, <1>5, <1>6 DEF ExportNext, Work

LEMMA ExportTypeStart == ExportInit => ExportTypeOK /\ OwnFile
  <1> SUFFICES ASSUME ExportInit PROVE ExportTypeOK /\ OwnFile
    OBVIOUS
  <1>1. /\ files \in Seq(File) /\ Len(files) = 0 /\ DOMAIN files = {}
        /\ lasting \in Seq(SUBSET Group) /\ Len(lasting) = 0
    BY DEF ExportInit
  <1>2. task \in [Task -> Tasks] /\ \A t \in Task : ~ HasFile(t)
    BY <1>1 DEF ExportInit, NoTask, Tasks, HasFile
  <1>3. SelfcareOK
    <2>1. ASSUME NEW S, NEW s \in SetToAllKPermutations(S), IsFiniteSet(S)
          PROVE  s \in Seq(S) /\ IsInjective(s)
      <3>1. PICK T \in SUBSET S : s \in SetToSeqs(T)
        BY <2>1 DEF SetToAllKPermutations
      <3>2. Cardinality(T) \in Nat
        BY <2>1, FS_Subset, FS_CardinalityType
      <3>3. /\ s \in [1..Cardinality(T) -> T]
            /\ \A i, j \in 1..Cardinality(T) : i # j => s[i] # s[j]
        BY <3>1 DEF SetToSeqs
      <3>4. s \in [1..Cardinality(T) -> S]
        BY <3>3
      <3>5. QED
        BY <3>2, <3>3, <3>4, SeqDef DEF IsInjective
    <2>2. delegated \in Seq(Aggregate) /\ IsInjective(delegated)
      BY <2>1, AggregateAssumption DEF ExportInit
    <2> DEFINE those == Range(delegated) \X {1, 2}
    <2>3. Range(delegated) \subseteq Aggregate
      BY <2>2, LenProperties DEF Range
    <2>4. those \subseteq Group
      BY <2>3 DEF Group
    <2>5. IsFiniteSet(those)
      <3>1. IsFiniteSet({1, 2})
        <4>1. {1, 2} = 1..2 /\ 1 \in Int /\ 2 \in Int
          OBVIOUS
        <4>2. IsFiniteSet(1..2)
          BY <4>1, FS_Interval
        <4>3. QED
          BY <4>1, <4>2
      <3>2. IsFiniteSet(Range(delegated))
        BY <2>3, AggregateAssumption, FS_Subset
      <3>3. QED
        BY <3>1, <3>2, FS_Product
    <2>6. groups \in SetToAllKPermutations(those)
      BY DEF ExportInit
    <2> HIDE DEF those
    <2>7. groups \in Seq(those) /\ IsInjective(groups)
      BY <2>1, <2>5, <2>6
    <2>8. groups \in Seq(Group)
      BY <2>4, <2>7, SeqMonotonic
    <2>9. QED
      BY <2>2, <2>7, <2>8 DEF SelfcareOK
  <1>4. OwnFile
    BY <1>2 DEF OwnFile
  <1>5. FilesOK /\ offered \in 0..Len(files)
    BY <1>1 DEF ExportInit, FilesOK
  <1>6. /\ changes \in 0..MaxChange /\ failures \in 0..MaxFailure
        /\ together \in BOOLEAN /\ outlived \in BOOLEAN
    <2>1. changes = 0 /\ failures = 0
      BY DEF ExportInit
    <2>2. changes \in 0..MaxChange /\ failures \in 0..MaxFailure
      BY <2>1, ChangeAssumption
    <2>3. together \in BOOLEAN /\ outlived \in BOOLEAN
      BY DEF ExportInit
    <2>4. QED
      BY <2>2, <2>3
  <1>7. QED
    BY <1>2, <1>3, <1>4, <1>5, <1>6, ExportTypeFromParts

\* The files, the tasks and what they have read keep their shape.
THEOREM ExportTypeCorrect == ExportSpec => []ExportTypeOK
  BY ExportTypeStart, ExportTypeStep, PTL DEF ExportSpec

-----------------------------------------------------------------------------
(* No group is left out                                                     *)

\* As many groups as institutions, and one for each, leave no institution two: the
\* count that the code compares is what makes the map of groups complete.
LEMMA OneGroupEach ==
  ASSUME NEW read \in Seq(Group), NEW ds \in Seq(Aggregate), IsInjective(ds),
         Len(read) = Len(ds), Range(ds) \subseteq {g[1] : g \in Range(read)},
         NEW j \in DOMAIN read, NEW k \in DOMAIN read, read[j][1] = read[k][1]
  PROVE  j = k
  <1> DEFINE n == Len(ds)
             first == [i \in 1..n |-> CHOOSE x \in 1..n : read[x][1] = ds[i]]
  <1>1. /\ n \in Nat /\ DOMAIN ds = 1..n /\ DOMAIN read = 1..n
    BY LenProperties
  <1>2. ASSUME NEW i \in 1..n
        PROVE  first[i] \in 1..n /\ read[first[i]][1] = ds[i]
    <2>1. \E x \in 1..n : read[x][1] = ds[i]
      <3>1. ds[i] \in Range(ds)
        BY <1>1 DEF Range
      <3>2. PICK g \in Range(read) : g[1] = ds[i]
        BY <3>1
      <3>3. PICK x \in DOMAIN read : g = read[x]
        BY DEF Range
      <3>4. QED
        BY <1>1, <3>2, <3>3
    <2>2. QED
      BY <2>1
  <1>3. first \in [1..n -> 1..n]
    BY <1>2
  <1>4. \A i, l \in 1..n : ds[i] = ds[l] => i = l
    BY <1>1 DEF IsInjective
  <1>5. IsFiniteSet(1..n)
    BY <1>1, FS_Interval
  <1> DEFINE places == 1..n
  <1> HIDE DEF first, places
  <1>6. first \in Injection(places, places)
    <2>1. \A a, b \in places : first[a] = first[b] => a = b
      BY <1>2, <1>4 DEF places
    <2>2. first \in [places -> places]
      BY <1>3 DEF places
    <2>3. QED
      BY <2>1, <2>2, Fun_IsInj
  <1>7. first \in Surjection(places, places)
    BY <1>5, <1>6, FS_Injection DEF places
  <1>8. \A x \in places : \E i \in places : first[i] = x
    BY <1>7, Fun_SurjectionProperties
  <1>9. PICK i \in 1..n : first[i] = j
    BY <1>1, <1>8 DEF places
  <1>10. PICK l \in 1..n : first[l] = k
    BY <1>1, <1>8 DEF places
  <1>11. ds[i] = ds[l]
    BY <1>2, <1>9, <1>10
  <1>12. QED
    BY <1>4, <1>9, <1>10, <1>11

\* The map then has every group that was read.
LEMMA MapIsComplete ==
  ASSUME NEW read \in Seq(Group), NEW ds \in Seq(Aggregate), IsInjective(ds),
         Len(read) = Len(ds), Range(ds) \subseteq {g[1] : g \in Range(read)}
  PROVE  Range(read) \subseteq aggregateToGroupMap(read)
  <1> SUFFICES ASSUME NEW i \in DOMAIN read
               PROVE  read[i] \in aggregateToGroupMap(read)
    BY DEF Range
  <1>1. DOMAIN read = 1..Len(read) /\ Len(read) \in Nat
    BY LenProperties
  <1>2. ASSUME NEW k \in DOMAIN read, k > i
        PROVE  read[k][1] # read[i][1]
    <2>1. SUFFICES ASSUME read[k][1] = read[i][1] PROVE FALSE
      OBVIOUS
    <2>2. k = i
      BY <2>1, OneGroupEach
    <2>3. QED
      BY <1>1, <1>2, <2>2
  <1>3. QED
    BY <1>2 DEF aggregateToGroupMap

\* What a request found, and lasts, is found again at every step until it is in the
\* file: on the pages, as long as none has moved, then among the rows.
Reading(t) ==
  /\ task[t].step = "groups" =>
       IsPrefix(task[t].groups, groups) /\ task[t].aggregates = <<>>
  /\ task[t].step = "aggregates" =>
       /\ IsPrefix(task[t].aggregates, delegated)
       /\ Range(task[t].aggregates) \subseteq {g[1] : g \in Range(task[t].groups)}
       /\ lasting[task[t].file] \subseteq Range(task[t].groups)
  /\ task[t].step = "finalize" => lasting[task[t].file] \subseteq task[t].rows

InOrder(t) == HasFile(t) /\ task[t].file \notin shifted

Kept ==
  /\ \A i \in DOMAIN files : lasting[i] \subseteq Lasting(delegated, groups)
  /\ NoGroupLeftOut
  /\ \A t \in Task : InOrder(t) => Reading(t)

LEMMA ReadingSame ==
  ASSUME NEW t \in Task, InOrder(t) => Reading(t), InOrder(t)', task'[t] = task[t],
         UNCHANGED <<delegated, groups, lasting, shifted>>
  PROVE  Reading(t)'
  BY DEF InOrder, HasFile, Reading, IsPrefix, Range

\* A step that rewrites no file as done and moves one task.
LEMMA KeptGoesOn ==
  ASSUME Kept, UNCHANGED <<selfcare, files>>, NEW t \in Task,
         \A u \in Task : u # t => task'[u] = task[u],
         InOrder(t)' => Reading(t)'
  PROVE  Kept'
  <1>1. UNCHANGED <<delegated, groups, lasting, shifted, files>>
    BY DEF selfcare
  <1>2. ASSUME NEW u \in Task, InOrder(u)', u # t
        PROVE  Reading(u)'
    BY <1>1, <1>2, ReadingSame DEF Kept
  <1>3. QED
    BY <1>1, <1>2 DEF Kept, NoGroupLeftOut, Lasting, Range

LEMMA KeptStep ==
  ExportTypeOK /\ OwnFile /\ ExportTypeOK' /\ Kept /\ [ExportNext]_exportVars => Kept'
  <1> SUFFICES ASSUME ExportTypeOK, OwnFile, ExportTypeOK', Kept, [ExportNext]_exportVars
               PROVE  Kept'
    OBVIOUS
  <1>1. CASE Change
    <2>1. UNCHANGED <<files, task>>
      BY <1>1 DEF Change
    <2>2. DOMAIN lasting' = DOMAIN files'
      BY FilesType, <2>1, LenProperties DEF ExportTypeOK
    <2>3. \A i \in DOMAIN files :
            lasting'[i] = lasting[i] \cap Lasting(delegated', groups')
      BY <1>1, FilesType DEF Change
    <2>4. \A t \in Task : HasFile(t) => task[t].file \in DOMAIN files
      BY DEF OwnFile
    <2>5. Lasting(delegated', groups') = Lasting(delegated, groups)'
      BY DEF Lasting, Range
    <2>6. shifted' = shifted \cup
            {task[t].file : t \in {u \in Task : Shifts(u, delegated', groups')}}
      BY <1>1 DEF Change
    <2>7. ASSUME NEW t \in Task, InOrder(t)'
          PROVE  Reading(t)'
      <3>1. InOrder(t) /\ ~ Shifts(t, delegated', groups')
        BY <2>1, <2>6, <2>7 DEF InOrder, HasFile
      <3>2. Reading(t)
        BY <3>1 DEF Kept
      <3>3. lasting'[task[t].file] \subseteq lasting[task[t].file]
        BY <2>3, <2>4, <3>1 DEF InOrder
      <3>4. /\ task[t].step = "groups" => IsPrefix(task[t].groups, groups')
            /\ task[t].step = "aggregates" => IsPrefix(task[t].aggregates, delegated')
        BY <3>1 DEF Shifts
      <3>5. /\ task[t].step = "groups" => IsPrefix(task[t].groups, groups)'
            /\ task[t].step = "aggregates" => IsPrefix(task[t].aggregates, delegated)'
        BY <2>1, <3>4 DEF IsPrefix
      <3>6. QED
        BY <2>1, <3>2, <3>3, <3>5 DEF Reading, Range
    <2>8. NoGroupLeftOut'
      BY <2>1, <2>3, <2>6 DEF Kept, NoGroupLeftOut
    <2>9. QED
      BY <2>1, <2>3, <2>5, <2>7, <2>8 DEF Kept
  <1>2. CASE SecondPasses
    <2>1. /\ DOMAIN files' = DOMAIN files
          /\ \A i \in DOMAIN files :
               files'[i] = [files[i] EXCEPT !.age = IF @ < Duration THEN @ + 1 ELSE @]
      BY <1>2, OlderFiles
    <2>2. \A i \in DOMAIN files :
            files'[i].state = files[i].state /\ files'[i].rows = files[i].rows
      BY <2>1, FilesType DEF File
    <2>3. UNCHANGED <<delegated, groups, lasting, shifted, task>>
      BY <1>2 DEF SecondPasses, selfcare
    <2>4. \A t \in Task : InOrder(t)' => Reading(t)'
      BY <2>3, ReadingSame DEF Kept
    <2>5. QED
      BY <2>1, <2>2, <2>3, <2>4 DEF Kept, NoGroupLeftOut, Lasting, Range
  <1>3. CASE Download \/ UNCHANGED exportVars
    <2>1. UNCHANGED <<delegated, groups, lasting, shifted, task, files>>
      BY <1>3 DEF Download, exportVars, selfcare
    <2>2. \A t \in Task : InOrder(t)' => Reading(t)'
      BY <2>1, ReadingSame DEF Kept
    <2>3. QED
      BY <2>1, <2>2 DEF Kept, NoGroupLeftOut, Lasting, Range
  <1>4. ASSUME NEW t \in Task, InitializeFile(t)
        PROVE  Kept'
    <2>1. /\ Len(files') = Len(files) + 1 /\ DOMAIN files' = 1..Len(files')
          /\ files'[Len(files')].state # "DONE"
          /\ lasting'[Len(files')] = Lasting(delegated, groups)
          /\ \A i \in DOMAIN files : files'[i] = files[i] /\ lasting'[i] = lasting[i]
      BY <1>4, NewFile
    <2>2. \A i \in DOMAIN files' : i \in DOMAIN files \/ i = Len(files')
      BY <2>1, FilesType
    <2>3. UNCHANGED <<delegated, groups, shifted>>
      BY <1>4 DEF InitializeFile
    <2>4. \A u \in Task : u # t => task'[u] = task[u]
      BY <1>4 DEF InitializeFile, ExportTypeOK
    <2>5. /\ task'[t].step = "groups"
          /\ task'[t].groups = <<>> /\ task'[t].aggregates = <<>>
      BY <1>4 DEF InitializeFile, ExportTypeOK, NoTask
    <2>6. ASSUME NEW u \in Task, u # t, InOrder(u)'
          PROVE  Reading(u)'
      <3>1. task'[u] = task[u] /\ InOrder(u)
        BY <2>3, <2>4, <2>6 DEF InOrder, HasFile
      <3>2. lasting'[task'[u].file] = lasting[task[u].file]
        BY <2>1, <3>1 DEF OwnFile, InOrder
      <3>3. Reading(u)
        BY <3>1 DEF Kept
      <3>4. QED
        BY <2>3, <3>1, <3>2, <3>3 DEF Reading, IsPrefix, Range
    <2>7. Reading(t)'
      <3>1. IsPrefix(<<>>, groups)
        BY EmptyPrefix DEF ExportTypeOK
      <3>2. QED
        BY <2>3, <2>5, <3>1 DEF Reading
    <2>8. NoGroupLeftOut'
      BY <2>1, <2>2, <2>3 DEF Kept, NoGroupLeftOut
    <2>9. \A i \in DOMAIN files' : lasting'[i] \subseteq Lasting(delegated, groups)'
      BY <2>1, <2>2, <2>3 DEF Kept, Lasting, Range
    <2>10. QED
      BY <2>6, <2>7, <2>8, <2>9 DEF Kept
  <1>5. ASSUME NEW t \in Task, RetrieveAggregatorGroups(t)
        PROVE  Kept'
    <2> DEFINE next == PageAfter(groups, task[t].groups, GroupPage)
               last == IsLastPage(groups, task[t].groups, GroupPage)
    <2>1. PICK new \in TaskRecord :
            /\ task' = [task EXCEPT ![t] = new]
            /\ new.file = task[t].file
            /\ new.groups = task[t].groups \o next
            /\ new.aggregates = task[t].aggregates
            /\ new.step = IF last THEN "aggregates" ELSE "groups"
      BY <1>5, GroupsRead
    <2>2. /\ task'[t] = new /\ \A u \in Task : u # t => task'[u] = task[u]
          /\ UNCHANGED <<selfcare, files>> /\ task[t].step = "groups"
      BY <1>5, <2>1 DEF RetrieveAggregatorGroups, ExportTypeOK
    <2>3. ASSUME InOrder(t)'
          PROVE  Reading(t)'
      <3>1. InOrder(t) /\ UNCHANGED <<delegated, groups, lasting, shifted>>
        BY <2>1, <2>2, <2>3 DEF InOrder, HasFile, selfcare
      <3>2. IsPrefix(task[t].groups, groups) /\ task[t].aggregates = <<>>
        BY <2>2, <3>1 DEF Kept, Reading
      <3>3. /\ groups \in Seq(Group) /\ task[t].groups \in Seq(Group)
            /\ GroupPage \in Nat \ {0}
        BY TaskType, PageAssumption DEF ExportTypeOK, TaskRecord
      <3>4. /\ IsPrefix(task[t].groups \o next, groups)
            /\ last => task[t].groups \o next = groups
        BY <3>2, <3>3, PageGoesOn
      <3>5. CASE last
        <4>1. /\ task'[t].step = "aggregates" /\ task'[t].groups = groups
              /\ task'[t].file = task[t].file /\ task'[t].aggregates = task[t].aggregates
          BY <2>1, <2>2, <3>4, <3>5
        <4>2. task[t].aggregates = <<>>
          BY <3>2
        <4>3. lasting[task[t].file] \subseteq Range(groups)
          BY <3>1 DEF InOrder, OwnFile, Kept, Lasting
        <4>4. IsPrefix(<<>>, delegated)
          BY EmptyPrefix DEF ExportTypeOK
        <4>5. Range(<<>>) = {}
          BY DEF Range
        <4>6. QED
          BY <3>1, <4>1, <4>2, <4>3, <4>4, <4>5 DEF Reading
      <3>6. CASE ~ last
        <4>1. /\ task'[t].step = "groups" /\ task'[t].groups = task[t].groups \o next
              /\ task'[t].aggregates = <<>>
          BY <2>1, <2>2, <3>2, <3>6
        <4>2. QED
          BY <3>1, <3>4, <4>1 DEF Reading
      <3>7. QED
        BY <3>5, <3>6
    <2>4. QED
      BY <2>2, <2>3, KeptGoesOn
  <1>6. ASSUME NEW t \in Task, RetrieveAggregates(t)
        PROVE  Kept'
    <2> DEFINE next == PageAfter(delegated, task[t].aggregates, DelegationPage)
               read == task[t].groups
    <2>1. PICK new \in TaskRecord :
            /\ task' = [task EXCEPT ![t] = new]
            /\ new.file = task[t].file
            /\ new.step \in {"aggregates", "finalize", "fail"}
            /\ new.step = "aggregates" => new.groups = read /\ new.aggregates = More(t)
            /\ new.step = "finalize" =>
                 /\ IsLastPage(delegated, task[t].aggregates, DelegationPage)
                 /\ Len(read) = Len(More(t))
                 /\ new.rows = {g \in aggregateToGroupMap(read) : g[1] \in Range(More(t))}
            /\ new.step # "fail" => Range(next) \subseteq {g[1] : g \in Range(read)}
      BY <1>6, AggregatesRead
    <2>2. /\ task'[t] = new /\ \A u \in Task : u # t => task'[u] = task[u]
          /\ UNCHANGED <<selfcare, files>> /\ task[t].step = "aggregates"
      BY <1>6, <2>1 DEF RetrieveAggregates, ExportTypeOK
    <2>3. ASSUME InOrder(t)'
          PROVE  Reading(t)'
      <3>1. InOrder(t) /\ UNCHANGED <<delegated, groups, lasting, shifted>>
        BY <2>1, <2>2, <2>3 DEF InOrder, HasFile, selfcare
      <3>2. /\ IsPrefix(task[t].aggregates, delegated)
            /\ Range(task[t].aggregates) \subseteq {g[1] : g \in Range(read)}
            /\ lasting[task[t].file] \subseteq Range(read)
        BY <2>2, <3>1 DEF Kept, Reading
      <3>3. /\ delegated \in Seq(Aggregate) /\ task[t].aggregates \in Seq(Aggregate)
            /\ read \in Seq(Group) /\ DelegationPage \in Nat \ {0}
            /\ IsInjective(delegated)
        BY TaskType, PageAssumption DEF ExportTypeOK, TaskRecord
      <3>4. /\ next \in Seq(Aggregate) /\ IsPrefix(More(t), delegated)
            /\ IsLastPage(delegated, task[t].aggregates, DelegationPage)
                 => More(t) = delegated
        BY <3>2, <3>3, PageGoesOn DEF More
      <3>5. Range(More(t)) = Range(task[t].aggregates) \cup Range(next)
        BY <3>3, <3>4, RangeConcatenation DEF More
      <3>6. CASE new.step = "aggregates"
        BY <2>1, <2>2, <3>1, <3>2, <3>4, <3>5, <3>6 DEF Reading
      <3>7. CASE new.step = "finalize"
        <4>1. /\ More(t) = delegated /\ Len(read) = Len(delegated)
              /\ Range(delegated) \subseteq {g[1] : g \in Range(read)}
              /\ task'[t].rows = {g \in aggregateToGroupMap(read) : g[1] \in Range(delegated)}
          BY <2>1, <2>2, <3>2, <3>4, <3>5, <3>7
        <4>2. Range(read) \subseteq aggregateToGroupMap(read)
          BY <3>3, <4>1, MapIsComplete
        <4>3. lasting[task[t].file] \subseteq Lasting(delegated, groups)
          BY <3>1 DEF InOrder, OwnFile, Kept
        <4>4. \A g \in lasting[task[t].file] : g[1] \in Range(delegated)
          BY <4>3 DEF Lasting
        <4>5. lasting[task[t].file] \subseteq task'[t].rows
          BY <3>2, <4>1, <4>2, <4>4
        <4>6. QED
          BY <2>1, <2>2, <3>1, <3>7, <4>5 DEF Reading
      <3>8. CASE new.step = "fail"
        BY <2>2, <3>8 DEF Reading
      <3>9. QED
        BY <2>1, <3>6, <3>7, <3>8
    <2>4. QED
      BY <2>2, <2>3, KeptGoesOn
  <1>7. ASSUME NEW t \in Task, FinalizeFile(t)
        PROVE  Kept'
    <2>1. /\ DOMAIN files' = DOMAIN files
          /\ \A i \in DOMAIN files :
               files'[i] = IF i = task[t].file
                             THEN [state |-> "DONE", age |-> 0, rows |-> task[t].rows]
                             ELSE files[i]
      BY <1>7, FinalizedFile
    <2>2. UNCHANGED <<delegated, groups, lasting, shifted>>
      BY <1>7 DEF FinalizeFile, selfcare
    <2>3. task[t].step = "finalize" /\ \A u \in Task : u # t => task'[u] = task[u]
      BY <1>7 DEF FinalizeFile, Fails, ExportTypeOK
    <2>4. task'[t].step \in {"idle", "fail"}
      <3>1. CASE task' = [task EXCEPT ![t] = NoTask]
        BY <3>1 DEF NoTask, ExportTypeOK
      <3>2. CASE Fails(t)
        BY <3>2, TaskFails DEF ExportTypeOK
      <3>3. QED
        BY <1>7, <3>1, <3>2 DEF FinalizeFile
    <2>5. task[t].file \in shifted \/ lasting[task[t].file] \subseteq task[t].rows
      BY <2>3 DEF Kept, InOrder, HasFile, Reading
    <2>6. NoGroupLeftOut'
      BY <2>1, <2>2, <2>5 DEF Kept, NoGroupLeftOut
    <2>7. ASSUME NEW u \in Task, InOrder(u)'
          PROVE  Reading(u)'
      <3>1. CASE u = t
        BY <2>4, <3>1 DEF Reading
      <3>2. CASE u # t
        BY <2>2, <2>3, <2>7, <3>2, ReadingSame DEF Kept
      <3>3. QED
        BY <3>1, <3>2
    <2>8. QED
      BY <2>1, <2>2, <2>6, <2>7 DEF Kept, Lasting, Range
  <1>8. ASSUME NEW t \in Task, MarkFileAsFailed(t)
        PROVE  Kept'
    <2>1. /\ DOMAIN files' = DOMAIN files
          /\ \A i \in DOMAIN files :
               files'[i] = IF i = task[t].file
                             THEN [files[i] EXCEPT !.state = "FAILED"]
                             ELSE files[i]
      BY <1>8, MarkedFile
    <2>2. \A i \in DOMAIN files :
            files'[i].state = "DONE" => files[i].state = "DONE" /\ files'[i] = files[i]
      BY <2>1, FilesType DEF File
    <2>3. /\ UNCHANGED <<delegated, groups, lasting, shifted>>
          /\ task'[t].step = "idle" /\ \A u \in Task : u # t => task'[u] = task[u]
      BY <1>8 DEF MarkFileAsFailed, ExportTypeOK, NoTask, selfcare
    <2>4. NoGroupLeftOut'
      BY <2>1, <2>2, <2>3 DEF Kept, NoGroupLeftOut
    <2>5. ASSUME NEW u \in Task, InOrder(u)'
          PROVE  Reading(u)'
      <3>1. CASE u = t
        BY <2>3, <3>1 DEF Reading
      <3>2. CASE u # t
        BY <2>3, <2>5, <3>2, ReadingSame DEF Kept
      <3>3. QED
        BY <3>1, <3>2
    <2>6. QED
      BY <2>1, <2>3, <2>4, <2>5 DEF Kept, Lasting, Range
  <1>9. ASSUME NEW t \in Task, Request(t) \/ FailTask(t) \/ Stop(t)
        PROVE  Kept'
    <2>1. UNCHANGED <<selfcare, files>> /\ \A u \in Task : u # t => task'[u] = task[u]
      BY <1>9 DEF Request, FailTask, Stop, Fails, ExportTypeOK
    <2>2. task'[t].step \in {"initialize", "fail", "idle"}
      <3>1. CASE Request(t) \/ Stop(t)
        BY <3>1, TaskType DEF Request, Stop, NoTask, ExportTypeOK, TaskRecord
      <3>2. CASE FailTask(t)
        BY <3>2, TaskFails DEF FailTask, ExportTypeOK
      <3>3. QED
        BY <1>9, <3>1, <3>2
    <2>3. Reading(t)'
      BY <2>2 DEF Reading
    <2>4. QED
      BY <2>1, <2>3, KeptGoesOn
  <1>10. QED
    BY <1>1, <1>2, <1>3, <1>4, <1>5, <1>6, <1>7, <1>8, <1>9 DEF ExportNext, Work

\* Whatever self-care changes while an export is made, and whatever fails, an
\* export that can be downloaded has every group that was there all the time.
THEOREM ExportKeptCorrect == ExportSpec => []NoGroupLeftOut
  <1>1. ExportInit => Kept
    BY DEF ExportInit, Kept, NoGroupLeftOut, NoTask, InOrder, HasFile
  <1>2. Kept => NoGroupLeftOut
    BY DEF Kept
  <1>3. ExportTypeOK /\ OwnFile /\ Kept /\ [ExportNext]_exportVars
          => ExportTypeOK' /\ OwnFile' /\ Kept'
    BY ExportTypeStep, KeptStep
  <1>4. QED
    BY <1>1, <1>2, <1>3, ExportTypeStart, PTL DEF ExportSpec

-----------------------------------------------------------------------------
(* The link is of the last request                                          *)

\* While no two requests raced and no task outlived its file, at most one request
\* has no file yet, and then nothing is being made; the file that is being made is
\* the last one; and the last file is never older than another.
LastInv ==
  ~ together /\ ~ outlived =>
    /\ \A i \in DOMAIN files : files[Len(files)].age <= files[i].age
    /\ \A t \in Running : /\ task[t].file = Len(files)
                          /\ files[task[t].file].state = "IN_PROGRESS"
                          /\ ~ Expired(files[task[t].file])
    /\ \A t, u \in Task :
         task[t].step = "initialize" => /\ u \notin Running
                                        /\ task[u].step = "initialize" => u = t

\* A step of a task that leaves the files alone and starts nothing.
LEMMA LastGoesOn ==
  ASSUME LastInv, UNCHANGED files, NEW t \in Task,
         together => together', outlived => outlived',
         \A u \in Task : u # t => task'[u] = task[u],
         task'[t].step # "initialize", t \in Running' => t \in Running,
         t \in Running => task'[t].file = task[t].file
  PROVE  LastInv'
  BY DEF LastInv, Running, Expired

LEMMA LastStep ==
  ExportTypeOK /\ OwnFile /\ LastInv /\ [ExportNext]_exportVars => LastInv'
  <1> SUFFICES ASSUME ExportTypeOK, OwnFile, LastInv, [ExportNext]_exportVars,
                      ~ together', ~ outlived'
               PROVE  LastInv'
    BY DEF LastInv
  <1> USE DEF Expired
  <1>1. CASE Change \/ Download \/ UNCHANGED exportVars
    BY <1>1 DEF Change, Download, exportVars, LastInv, Running
  <1>2. CASE SecondPasses
    <2>1. /\ Len(files') = Len(files) /\ DOMAIN files' = DOMAIN files
          /\ \A i \in DOMAIN files :
               files'[i] = [files[i] EXCEPT !.age = IF @ < Duration THEN @ + 1 ELSE @]
      BY <1>2, OlderFiles
    <2>2. \A i \in DOMAIN files :
            /\ files'[i].state = files[i].state
            /\ files'[i].age = IF files[i].age < Duration THEN files[i].age + 1
                                                          ELSE files[i].age
            /\ files[i].age \in 0..Duration
      BY <2>1, FilesType DEF File
    <2>3. /\ UNCHANGED <<task, together>> /\ ~ outlived
          /\ \A t \in Running : files'[task[t].file].age < Duration
      <3>1. ~ (outlived \/ \E t \in Running : Expired(files'[task[t].file]))
        BY <1>2 DEF SecondPasses
      <3>2. \A t \in Running : task[t].file \in DOMAIN files
        BY DEF Running, OwnFile, HasFile
      <3>3. \A i \in DOMAIN files : files'[i].age \in Nat
        BY <2>2, DurationAssumption
      <3>4. ASSUME NEW t \in Running
            PROVE  files'[task[t].file].age < Duration
        <4>1. ~ (files'[task[t].file].age >= Duration)
          BY <3>1
        <4>2. files'[task[t].file].age \in Nat
          BY <3>2, <3>3
        <4>3. QED
          BY <4>1, <4>2, DurationAssumption
      <3>5. UNCHANGED <<task, together>> /\ ~ outlived
        BY <1>2, <3>1 DEF SecondPasses
      <3>6. QED
        BY <3>4, <3>5
    <2>4. \A i \in DOMAIN files' : files'[Len(files')].age <= files'[i].age
      <3>1. ASSUME NEW i \in DOMAIN files
            PROVE  files'[Len(files)].age <= files'[i].age
        <4>1. Len(files) \in DOMAIN files
          BY <3>1, FilesType
        <4>2. files[Len(files)].age <= files[i].age
          BY <2>3 DEF LastInv
        <4>3. QED
          BY <2>2, <3>1, <4>1, <4>2, DurationAssumption
      <3>2. QED
        BY <2>1, <3>1
    <2>5. Running' = Running
      BY <2>3 DEF Running
    <2>6. \A t \in Running : task[t].file \in DOMAIN files
      BY DEF Running, OwnFile, HasFile
    <2>7. \A t \in Running : /\ task[t].file = Len(files')
                             /\ files'[task[t].file].state = "IN_PROGRESS"
                             /\ ~ (files'[task[t].file].age >= Duration)
      BY <2>1, <2>2, <2>3, <2>6, DurationAssumption DEF LastInv
    <2>8. QED
      BY <2>3, <2>4, <2>5, <2>7 DEF LastInv
  <1>3. ASSUME NEW t \in Task, Request(t)
        PROVE  LastInv'
    <2>1. ~ together /\ \A u \in Task : task[u].step # "initialize"
      BY <1>3 DEF Request
    <2>2. UNCHANGED <<files, outlived>> /\ \A u \in Task : u # t => task'[u] = task[u]
      BY <1>3 DEF Request, ExportTypeOK
    <2>3. Running = {}
      <3>1. ASSUME NEW u \in Running
            PROVE  FALSE
        <4>1. /\ files[task[u].file].state = "IN_PROGRESS"
              /\ ~ Expired(files[task[u].file])
          BY <2>1, <2>2 DEF LastInv
        <4>2. task[u].file \in DOMAIN files
          BY DEF Running, OwnFile, HasFile
        <4>3. QED
          BY <1>3, <4>1, <4>2 DEF Request, AlreadyInProgress, findExportsFiles
      <3>2. QED
        BY <3>1
    <2>4. task'[t].step = "initialize"
      BY <1>3, TaskType DEF Request, ExportTypeOK, TaskRecord
    <2>5. Running' = {}
      BY <2>2, <2>3, <2>4 DEF Running
    <2>6. QED
      BY <2>1, <2>2, <2>5 DEF LastInv
  <1>4. ASSUME NEW t \in Task, InitializeFile(t)
        PROVE  LastInv'
    <2>1. /\ Len(files') = Len(files) + 1 /\ DOMAIN files' = 1..Len(files')
          /\ files'[Len(files')] = [state |-> "IN_PROGRESS", age |-> 0, rows |-> {}]
          /\ \A i \in DOMAIN files : files'[i] = files[i]
      BY <1>4, NewFile
    <2>2. \A i \in DOMAIN files' : files'[i].age \in Nat
      <3>1. \A i \in DOMAIN files' : i \in DOMAIN files \/ i = Len(files')
        BY <2>1, FilesType
      <3>2. \A i \in DOMAIN files : files[i].age \in Nat
        BY FilesType, DurationAssumption DEF File
      <3>3. QED
        BY <2>1, <3>1, <3>2
    <2>3. UNCHANGED <<together, outlived>>
      BY <1>4 DEF InitializeFile
    <2>4. \A u \in Task : /\ u \notin Running
                          /\ task[u].step = "initialize" => u = t
      BY <1>4, <2>3 DEF InitializeFile, LastInv
    <2>5. \A u \in Task : u # t => task'[u] = task[u]
      BY <1>4 DEF InitializeFile, ExportTypeOK
    <2>6. task'[t].step = "groups" /\ task'[t].file = Len(files')
      BY <1>4 DEF InitializeFile, ExportTypeOK, NoTask
    <2>7. Running' = {t} /\ \A u \in Task : task'[u].step # "initialize"
      BY <2>4, <2>5, <2>6 DEF Running
    <2>8. \A i \in DOMAIN files' : files'[Len(files')].age <= files'[i].age
      BY <2>1, <2>2
    <2>9. /\ files'[task'[t].file].state = "IN_PROGRESS"
          /\ ~ (files'[task'[t].file].age >= Duration)
      BY <2>1, <2>6, DurationAssumption
    <2>10. QED
      BY <2>6, <2>7, <2>8, <2>9 DEF LastInv
  <1>5. ASSUME NEW t \in Task,
               RetrieveAggregatorGroups(t) \/ RetrieveAggregates(t) \/ FailTask(t) \/ Stop(t)
        PROVE  LastInv'
    <2>1. /\ UNCHANGED <<files, together, outlived>>
          /\ \A u \in Task : u # t => task'[u] = task[u]
      <3>1. task' = [task EXCEPT ![t] = task'[t]]
        BY <1>5, GroupsRead, AggregatesRead, TaskFails DEF FailTask, Stop, ExportTypeOK
      <3>2. QED
        BY <1>5, <3>1
        DEF RetrieveAggregatorGroups, RetrieveAggregates, FailTask, Stop, ExportTypeOK
    <2>2. CASE RetrieveAggregatorGroups(t)
      <3>1. /\ task'[t].step \in {"groups", "aggregates"} /\ task'[t].file = task[t].file
            /\ task[t].step = "groups"
        BY <2>2, GroupsRead DEF RetrieveAggregatorGroups, ExportTypeOK
      <3>2. QED
        BY <2>1, <3>1, LastGoesOn DEF Running
    <2>3. CASE RetrieveAggregates(t)
      <3>1. task[t].step = "aggregates"
        BY <2>3 DEF RetrieveAggregates
      <3>2. /\ task'[t].step \in {"aggregates", "finalize", "fail"}
            /\ task'[t].file = task[t].file
        BY <2>3, AggregatesRead DEF ExportTypeOK
      <3>3. QED
        BY <2>1, <3>1, <3>2, LastGoesOn DEF Running
    <2>4. CASE FailTask(t) \/ Stop(t)
      <3>1. \/ task'[t].step = "fail" /\ task'[t].file = task[t].file
            \/ task'[t] = NoTask
        BY <2>4, TaskFails DEF FailTask, Stop, ExportTypeOK
      <3>2. task'[t].step \in {"fail", "idle"}
        BY <3>1 DEF NoTask
      <3>3. t \notin Running'
        BY <3>2 DEF Running
      <3>4. QED
        BY <2>1, <3>2, <3>3 DEF LastInv, Running
    <2>5. QED
      BY <1>5, <2>2, <2>3, <2>4
  <1>6. ASSUME NEW t \in Task, FinalizeFile(t)
        PROVE  LastInv'
    <2>1. /\ Len(files') = Len(files) /\ DOMAIN files' = DOMAIN files
          /\ \A i \in DOMAIN files :
               files'[i] = IF i = task[t].file
                             THEN [state |-> "DONE", age |-> 0, rows |-> task[t].rows]
                             ELSE files[i]
      BY <1>6, FinalizedFile
    <2>2. UNCHANGED <<together, outlived>> /\ \A u \in Task : u # t => task'[u] = task[u]
      BY <1>6 DEF FinalizeFile, Fails, ExportTypeOK
    <2>3. task'[t].step \in {"idle", "fail"} /\ t \in Running
      BY <1>6, TaskFails DEF FinalizeFile, ExportTypeOK, NoTask, Running
    <2>4. task[t].file = Len(files) /\ task[t].file \in DOMAIN files
      BY <2>2, <2>3 DEF LastInv, Running, OwnFile, HasFile
    <2>5. Running' = {}
      <3>1. ASSUME NEW u \in Running, u # t
            PROVE  FALSE
        BY <2>2, <2>3, <2>4, <3>1 DEF LastInv, OwnFile, HasFile, Running
      <3>2. QED
        BY <2>2, <2>3, <3>1 DEF Running
    <2>6. \A i \in DOMAIN files' : files'[Len(files')].age <= files'[i].age
      <3>1. \A i \in DOMAIN files : files[i].age \in Nat
        BY FilesType, DurationAssumption DEF File
      <3>2. files'[Len(files')].age = 0
        BY <2>1, <2>4
      <3>3. \A i \in DOMAIN files : files'[i].age \in Nat
        BY <2>1, <3>1
      <3>4. QED
        BY <2>1, <3>2, <3>3
    <2>7. \A u \in Task : task'[u].step = "initialize" => task[u].step = "initialize"
      BY <2>2, <2>3
    <2>8. QED
      BY <2>2, <2>5, <2>6, <2>7 DEF LastInv
  <1>7. ASSUME NEW t \in Task, MarkFileAsFailed(t)
        PROVE  LastInv'
    <2>1. /\ Len(files') = Len(files) /\ DOMAIN files' = DOMAIN files
          /\ \A i \in DOMAIN files :
               files'[i] = IF i = task[t].file
                             THEN [files[i] EXCEPT !.state = "FAILED"]
                             ELSE files[i]
      BY <1>7, MarkedFile
    <2>2. \A i \in DOMAIN files : files'[i].age = files[i].age
      BY <2>1, FilesType DEF File
    <2>3. /\ UNCHANGED <<together, outlived>> /\ \A u \in Task : u # t => task'[u] = task[u]
          /\ task'[t].step = "idle" /\ HasFile(t)
      BY <1>7 DEF MarkFileAsFailed, ExportTypeOK, NoTask, HasFile
    <2>4. ASSUME NEW u \in Running'
          PROVE  /\ u \in Running /\ task'[u] = task[u]
                 /\ task[u].file \in DOMAIN files /\ task[u].file # task[t].file
      BY <2>3 DEF Running, OwnFile, HasFile
    <2>5. \A i \in DOMAIN files' : files'[Len(files')].age <= files'[i].age
      BY <2>1, <2>2, <2>3, FilesType DEF LastInv
    <2>6. \A u \in Running' : /\ task'[u].file = Len(files')
                              /\ files'[task'[u].file].state = "IN_PROGRESS"
                              /\ ~ (files'[task'[u].file].age >= Duration)
      BY <2>1, <2>3, <2>4 DEF LastInv
    <2>7. QED
      BY <2>3, <2>4, <2>5, <2>6 DEF LastInv
  <1>8. QED
    BY <1>1, <1>2, <1>3, <1>4, <1>5, <1>6, <1>7 DEF ExportNext, Work

\* The link that is made is the one of the last request, or of a file as young.
LEMMA LinkStep ==
  ExportTypeOK /\ LastInv /\ [ExportNext]_exportVars
    => (offered' \notin {0, offered} =>
          \/ together \/ outlived
          \/ offered' = Len(files)
          \/ files[offered'].age = files[Len(files)].age)
  <1> SUFFICES ASSUME ExportTypeOK, LastInv, [ExportNext]_exportVars,
                      offered' \notin {0, offered},
                      ~ together, ~ outlived
               PROVE  files[offered'].age = files[Len(files)].age
    OBVIOUS
  <1>1. Download
    BY DEF ExportNext, Work, Change, SecondPasses, Request, InitializeFile,
       RetrieveAggregatorGroups, RetrieveAggregates, FinalizeFile, FailTask,
       MarkFileAsFailed, Stop, exportVars
  <1>2. PICK i \in MostRecentExports : offered' = i
    BY <1>1 DEF Download
  <1>3. /\ i \in DOMAIN files /\ ~ Expired(files[i])
        /\ \A j \in DOMAIN files : ~ Expired(files[j]) => files[i].age <= files[j].age
    BY <1>2 DEF MostRecentExports, findExportsFiles
  <1>4. /\ Len(files) \in DOMAIN files
        /\ \A j \in DOMAIN files : files[j].age \in Nat
    BY <1>3, FilesType, DurationAssumption DEF File
  <1>5. files[Len(files)].age <= files[i].age
    BY <1>3 DEF LastInv
  <1>6. ~ Expired(files[Len(files)])
    BY <1>3, <1>4, <1>5, DurationAssumption DEF Expired
  <1>7. QED
    BY <1>2, <1>3, <1>4, <1>5, <1>6

\* What is downloaded is of the last request, and so under the password the user
\* chose last, whatever the tasks of the requests before are doing.
THEOREM ExportLinkCorrect == ExportSpec => LinkIsOfLastRequest
  <1>1. ExportInit => LastInv
    BY DEF ExportInit, LastInv, Running, NoTask
  <1>2. QED
    BY <1>1, ExportTypeStart, ExportTypeStep, LastStep, LinkStep, PTL
    DEF ExportSpec, LinkIsOfLastRequest
==================================================================================
