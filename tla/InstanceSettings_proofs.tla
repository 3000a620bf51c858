----------------------- MODULE InstanceSettings_proofs -----------------------
(***************************************************************************)
(* Proofs about InstanceSettings: its types, that a whole-row save loses   *)
(* only what was written after its copy was loaded, that an answered       *)
(* request is in force, and that the running client follows the row.       *)
(***************************************************************************)
EXTENDS InstanceSettings, TLAPS

(* What rows and copies agree on, whoever is in the middle of a request.   *)
ColumnsKept ==
  row # NoRow => \A c \in Column \ overtaken : row[c] = last[c]

CopiesKept ==
  \A r \in Served : \A c \in Column \ (overtaken \cup since[r]) :
    copy[r][c] = last[c]

DeletionSeen ==
  deleted /\ "row" \notin overtaken =>
    row = NoRow /\ \A r \in Served : "row" \in since[r]

Applying == {r \in Request : pc[r] = "apply"}

(* What a request has read back is what it wrote.                          *)
FreshKept ==
  \A r \in Applying : \A c \in Column \ (overtaken \cup since[r]) :
    fresh[r][c] = copy[r][c]

Kept == ColumnsKept /\ CopiesKept /\ DeletionSeen /\ FreshKept

IInv == TypeOK /\ Kept

------------------------------------------------------------------------------
(* Operators.                                                              *)

LEMMA StampIsRow ==
  ASSUME clock \in Nat, NEW target \in Row, NEW cs
  PROVE  Stamp(target, cs) \in Row
BY DEF Stamp, Row

LEMMA WrittenIsRow ==
  ASSUME clock \in Nat, NEW target \in Row, NEW o
  PROVE  Written(o, target) \in Row
BY DEF Written, Row

LEMMA WrittenOf ==
  ASSUME NEW o, NEW a, NEW b, NEW c \in Column, c \in Sets(o) \/ a[c] = b[c]
  PROVE  Written(o, a)[c] = Written(o, b)[c]
BY DEF Written

LEMMA WrittenElsewhere ==
  ASSUME NEW o, NEW target, NEW c \in Column \ Sets(o)
  PROVE  Written(o, target)[c] = target[c]
BY DEF Written

LEMMA SetsAreColumns == \A o : Sets(o) \subseteq Column
BY DEF Sets, Column, Setting

LEMMA RowIsNoColumn == "row" \notin Column
BY DEF Column, Setting

LEMMA MyClientOfARow == \A cd \in Row : MyClientOf(cd) \in MyClient
BY DEF MyClientOf, MyClient, Row, Column, Setting

(* Who has taken a step is still served, or done; nobody else begins.      *)
LEMMA ServedStays ==
  ASSUME pc \in [Request -> Steps], NEW r \in Request, NEW step,
         pc[r] \notin {"idle", "done"}, Goto(r, step)
  PROVE  Served' \subseteq Served
BY DEF Served, Goto

------------------------------------------------------------------------------
(* The forms of a step, as far as rows and copies go.                      *)

LEMMA NothingWritten ==
  ASSUME Kept, Served' \subseteq Served, Applying' \subseteq Applying,
         UNCHANGED <<row, copy, fresh, ghosts>>
  PROVE  Kept'
BY DEF Kept, FreshKept, ColumnsKept, CopiesKept, DeletionSeen, ghosts

LEMMA ColumnsWritten ==
  ASSUME IInv, Served' \subseteq Served, UNCHANGED fresh,
         NEW writers \in SUBSET Request, NEW cs \in SUBSET Column,
         Applying' \subseteq Applying \ writers,
         UpdateColumns(writers, cs),
         \A r \in Served' \ writers : copy'[r] = copy[r],
         \A r \in Served' \cap writers :
           copy'[r] = IF row = NoRow THEN copy[r] ELSE Stamp(copy[r], cs)
  PROVE  Kept'
<1>0. Applying' \subseteq Served'
  BY DEF Applying, Served
<1>1. CASE row = NoRow
  BY <1>0, <1>1 DEF IInv, Kept, FreshKept, ColumnsKept, CopiesKept, DeletionSeen, ghosts,
              UpdateColumns
<1>2. CASE row # NoRow
  <2>1. /\ row' = Stamp(row, cs) /\ last' = Stamp(last, cs)
        /\ overtaken' = overtaken \ cs /\ deleted' = deleted
        /\ \A r \in Served' : since'[r] = IF r \in writers THEN since[r]
                                          ELSE since[r] \cup cs
    BY <1>2 DEF UpdateColumns, Ages, Served
  <2>2. ColumnsKept'
    BY <1>2, <2>1 DEF IInv, Kept, ColumnsKept, Stamp
  <2>3. CopiesKept'
    <3>1. SUFFICES ASSUME NEW r \in Served', NEW c \in Column,
                          c \notin overtaken' \cup since'[r]
                   PROVE  copy'[r][c] = last'[c]
      BY DEF CopiesKept
    <3>2. r \in Served
      OBVIOUS
    <3>3. CASE c \in cs
      <4>1. r \in writers
        BY <2>1, <3>1, <3>3
      <4>2. copy'[r] = Stamp(copy[r], cs)
        BY <4>1, <1>2
      <4> QED BY <4>2, <2>1, <3>3 DEF Stamp
    <3>4. CASE c \notin cs
      <4>1. copy[r][c] = last[c]
        BY <2>1, <3>1, <3>2, <3>4 DEF IInv, Kept, CopiesKept
      <4>2. last'[c] = last[c]
        BY <2>1, <3>4 DEF Stamp
      <4>3. copy'[r][c] = copy[r][c]
        BY ZenonT(60), <1>2, <3>4 DEF Stamp
      <4> QED BY <4>1, <4>2, <4>3
    <3> QED BY <3>3, <3>4
  <2>4. DeletionSeen'
    BY <1>2, <2>1, RowIsNoColumn DEF IInv, Kept, DeletionSeen
  <2>5. FreshKept'
    <3>1. \A r \in Applying' :
            copy'[r] = copy[r] /\ since'[r] = since[r] \cup cs
      BY <1>0, <2>1
    <3> QED BY <2>1, <3>1 DEF IInv, Kept, FreshKept
  <2> QED BY <2>2, <2>3, <2>4, <2>5 DEF Kept
<1> QED BY <1>1, <1>2

LEMMA RowSaved ==
  ASSUME IInv, NEW r \in Request, SaveRow(r)
  PROVE  Kept'
<1> DEFINE cs == Sets(op[r])
<1>1. /\ row' = Written(op[r], copy[r]) /\ last' = Written(op[r], last)
      /\ copy' = [copy EXCEPT ![r] = Written(op[r], copy[r])]
      /\ overtaken' = (overtaken \ cs) \cup (since[r] \ cs)
      /\ deleted' = deleted
  BY DEF SaveRow, Update
<1>2. Served' \subseteq Served /\ r \in Served
  <2>1. pc[r] \notin {"idle", "done"} /\ Goto(r, AfterSave(op[r]))
    BY DEF SaveRow
  <2> QED BY <2>1, ServedStays DEF IInv, TypeOK, Served
<1>3. \A s \in Served' : since'[s] = IF s = r THEN since[s] ELSE since[s] \cup cs
  BY <1>2 DEF SaveRow, Update, Ages, Served
<1>4. cs \subseteq Column
  BY SetsAreColumns
<1>5. copy \in [Request -> Row]
  BY DEF IInv, TypeOK
<1>6. \A c \in Column \ (overtaken' \cup cs) : copy[r][c] = last[c]
  BY <1>1, <1>2 DEF IInv, Kept, CopiesKept
<1>7. ColumnsKept'
  BY <1>1, <1>6, WrittenOf DEF ColumnsKept
<1>8. CopiesKept'
  <2>1. SUFFICES ASSUME NEW s \in Served', NEW c \in Column,
                        c \notin overtaken' \cup since'[s]
                 PROVE  copy'[s][c] = last'[c]
    BY DEF CopiesKept
  <2>2. CASE s = r
    BY <1>1, <1>5, <1>6, <2>1, <2>2, WrittenOf
  <2>3. CASE s # r
    <3>1. c \notin cs /\ c \notin overtaken /\ c \notin since[s]
      BY <1>1, <1>3, <2>1, <2>3
    <3>2. copy[s][c] = last[c]
      BY <1>2, <3>1 DEF IInv, Kept, CopiesKept
    <3>3. copy'[s] = copy[s]
      BY <1>1, <1>5, <2>3
    <3> QED BY <1>1, <3>1, <3>2, <3>3, WrittenElsewhere
  <2> QED BY <2>2, <2>3
<1>9. DeletionSeen'
  BY <1>1, <1>2, <1>4, RowIsNoColumn DEF IInv, Kept, DeletionSeen
<1>10. FreshKept'
  <2>1. Applying' \subseteq (Applying \ {r}) \cap Served' /\ fresh' = fresh
    BY DEF SaveRow, Goto, AfterSave, Applying, Served, IInv, TypeOK
  <2> QED BY ZenonT(60), <1>1, <1>3, <1>5, <2>1 DEF IInv, Kept, FreshKept, Applying
<1> QED BY <1>7, <1>8, <1>9, <1>10 DEF Kept

LEMMA RowLoaded ==
  ASSUME IInv, NEW r \in Request, NEW o \in Op, Load(r, o)
  PROVE  Kept'
<1>1. /\ UNCHANGED <<row, last, deleted, overtaken>>
      /\ copy'[r] = row /\ since'[r] = {} /\ row # NoRow
      /\ \A s \in Request \ {r} : copy'[s] = copy[s] /\ since'[s] = since[s]
  BY DEF Load, Fetched, IInv, TypeOK
<1>2. Served' \ {r} \subseteq Served
  BY DEF Load, Served, IInv, TypeOK
<1>3. CopiesKept'
  BY <1>1, <1>2 DEF IInv, Kept, ColumnsKept, CopiesKept, Served
<1>4. DeletionSeen'
  BY <1>1, <1>2 DEF IInv, Kept, DeletionSeen, Served
<1>5. FreshKept'
  <2>1. Applying' \subseteq Applying \ {r} /\ fresh' = fresh
    BY DEF Load, FirstStep, Applying, IInv, TypeOK
  <2> QED BY <1>1, <2>1 DEF IInv, Kept, FreshKept, Applying
<1> QED BY <1>1, <1>3, <1>4, <1>5 DEF IInv, Kept, ColumnsKept

LEMMA RowDeleted ==
  ASSUME IInv, NEW r \in Request, DeleteRow(r)
  PROVE  Kept'
<1>1. /\ row' = NoRow /\ UNCHANGED <<copy, last>>
      /\ overtaken' = overtaken \ {"row"}
  BY DEF DeleteRow
<1>2. Served' \subseteq Served \ {r}
  BY DEF DeleteRow, Goto, Served, IInv, TypeOK
<1>3. \A s \in Served' : since'[s] = since[s] \cup {"row"}
  BY <1>2 DEF DeleteRow, Ages, Served
<1>4. CopiesKept'
  BY <1>1, <1>2, <1>3, RowIsNoColumn DEF IInv, Kept, CopiesKept
<1>5. FreshKept'
  <2>1. Applying' \subseteq Applying \cap Served' /\ fresh' = fresh
    BY DEF DeleteRow, Goto, Applying, Served, IInv, TypeOK
  <2> QED BY <1>1, <1>3, <2>1, RowIsNoColumn DEF IInv, Kept, FreshKept
<1> QED BY <1>1, <1>3, <1>4, <1>5 DEF Kept, ColumnsKept, DeletionSeen

LEMMA RowReadBack ==
  ASSUME IInv, NEW r \in Request, ReadBack(r)
  PROVE  Kept'
<1>1. UNCHANGED <<row, copy, last, deleted, since, overtaken>>
  BY DEF ReadBack, ghosts
<1>2. r \in Served /\ Served' \subseteq Served
  <2>1. \E step \in Steps : Goto(r, step) /\ pc[r] \notin {"idle", "done"}
    BY DEF ReadBack, Steps
  <2> QED BY <2>1, ServedStays DEF IInv, TypeOK, Served
<1>3. FreshKept'
  <2>1. SUFFICES ASSUME NEW s \in Applying', NEW c \in Column,
                        c \notin overtaken \cup since[s]
                 PROVE  fresh'[s][c] = copy[s][c]
    BY <1>1 DEF FreshKept
  <2>2. CASE s = r
    <3>1. row # NoRow /\ fresh'[r] = row
      BY <2>2 DEF ReadBack, Goto, Applying, IInv, TypeOK
    <3> QED BY <1>2, <2>1, <2>2, <3>1
            DEF IInv, Kept, ColumnsKept, CopiesKept
  <2>3. CASE s # r
    <3>1. fresh'[s] = fresh[s] /\ s \in Applying
      BY <2>3 DEF ReadBack, Goto, Applying, IInv, TypeOK
    <3> QED BY <2>1, <3>1 DEF IInv, Kept, FreshKept
  <2> QED BY <2>2, <2>3
<1> QED BY <1>1, <1>2, <1>3
        DEF IInv, Kept, ColumnsKept, CopiesKept, DeletionSeen

------------------------------------------------------------------------------
(* The steps that load no row and save none.                               *)

LEMMA OnlyMemory ==
  ASSUME IInv, NEW r \in Request, Apply(r) \/ Ensure(r) \/ Restart(r)
  PROVE  Kept'
<1>1. UNCHANGED <<copy, fresh>>
  BY DEF Apply, Ensure, Restart
<1>2. /\ pc[r] \notin {"idle", "done"}
      /\ \E step \in Steps \ {"apply"} : Goto(r, step)
  BY DEF Apply, Ensure, Restart, StartInstance, AfterEnsure, Steps
<1>3. Served' \subseteq Served
  BY <1>2, ServedStays DEF IInv, TypeOK
<1>4. Applying' \subseteq Applying
  BY <1>2 DEF Goto, Applying, IInv, TypeOK
<1>5. CASE UNCHANGED <<row, clock, ghosts>>
  BY <1>1, <1>3, <1>4, <1>5, NothingWritten DEF IInv
<1>6. CASE UpdateColumns({}, {"proxy"})
  <2>1. {"proxy"} \in SUBSET Column
    BY DEF Column, Setting
  <2> QED BY <1>1, <1>3, <1>4, <1>6, <2>1, ColumnsWritten
<1> QED BY <1>5, <1>6 DEF Apply, Ensure, Restart, StartInstance

LEMMA ConnectedWritten ==
  ASSUME IInv, NEW r \in Request, Kill(r) \/ Signal(r) \/ Clean(r) \/ Forget(r)
  PROVE  Kept'
<1>1. UNCHANGED <<copy, fresh>>
  BY DEF Kill, Signal, Clean, Forget
<1>2. /\ pc[r] \notin {"idle", "done"}
      /\ \E step \in Steps \ {"apply"} : Goto(r, step)
  BY DEF Kill, Signal, Clean, Forget, Steps
<1>3. Served' \subseteq Served
  BY <1>2, ServedStays DEF IInv, TypeOK
<1>4. Applying' \subseteq Applying
  BY <1>2 DEF Goto, Applying, IInv, TypeOK
<1>5. CASE UNCHANGED <<row, clock, ghosts>>
  BY <1>1, <1>3, <1>4, <1>5, NothingWritten DEF IInv
<1>6. CASE UpdateColumns({}, {"connected"})
  <2>1. {"connected"} \in SUBSET Column
    BY DEF Column
  <2> QED BY <1>1, <1>3, <1>4, <1>6, <2>1, ColumnsWritten
<1> QED BY <1>5, <1>6 DEF Kill, Signal, Clean, Forget

LEMMA AdvancedWritten ==
  ASSUME IInv, NEW r \in Request, UpdateAdvancedSettings(r)
  PROVE  Kept'
<1>1. /\ pc[r] = "column" /\ Goto(r, "sync") /\ UNCHANGED fresh
      /\ UpdateColumns({r}, {"advanced"})
      /\ copy' = IF row = NoRow THEN copy
                 ELSE [copy EXCEPT ![r] = Stamp(copy[r], {"advanced"})]
  BY DEF UpdateAdvancedSettings
<1>2. Served' \subseteq Served
  BY <1>1, ServedStays DEF IInv, TypeOK
<1>3. Applying' \subseteq Applying \ {r}
  BY <1>1 DEF Goto, Applying, IInv, TypeOK
<1>4. /\ \A s \in Served' \ {r} : copy'[s] = copy[s]
      /\ copy'[r] = IF row = NoRow THEN copy[r]
                    ELSE Stamp(copy[r], {"advanced"})
  BY <1>1 DEF Served, IInv, TypeOK
<1>5. {"advanced"} \in SUBSET Column /\ {r} \in SUBSET Request
  BY DEF Column, Setting
<1> QED BY <1>1, <1>2, <1>3, <1>4, <1>5, ColumnsWritten

LEMMA EventWritten ==
  ASSUME IInv, NEW r \in Request, Event(r)
  PROVE  Kept'
<1>1. /\ UpdateColumns({}, {"connected"}) /\ UNCHANGED <<copy, fresh>>
      /\ pc' = [pc EXCEPT ![r] = "done"]
  BY DEF Event, Goto
<1>2. Served' \subseteq Served /\ Applying' \subseteq Applying
  BY <1>1 DEF Served, Applying, IInv, TypeOK
<1>3. {"connected"} \in SUBSET Column
  BY DEF Column
<1> QED BY <1>1, <1>2, <1>3, ColumnsWritten

------------------------------------------------------------------------------
(* Types.                                                                  *)

LEMMA ColumnsTyped ==
  ASSUME TypeOK, NEW writers \in SUBSET Request, NEW cs \in SUBSET Column,
         UpdateColumns(writers, cs)
  PROVE  /\ row' \in Row \cup {NoRow} /\ last' \in Row /\ clock' \in Nat
         /\ since' \in [Request -> SUBSET (Column \cup {"row"})]
         /\ overtaken' \subseteq Column \cup {"row"} /\ deleted' \in BOOLEAN
<1>1. CASE row = NoRow
  BY <1>1 DEF UpdateColumns, TypeOK, ghosts
<1>2. CASE row # NoRow
  <2>1. row \in Row
    BY <1>2 DEF TypeOK
  <2>2. row' \in Row /\ last' \in Row
    BY <1>2, <2>1, StampIsRow DEF UpdateColumns, TypeOK
  <2>3. clock' \in Nat /\ deleted' \in BOOLEAN
        /\ overtaken' \subseteq Column \cup {"row"}
    BY <1>2 DEF UpdateColumns, TypeOK
  <2>4. since' \in [Request -> SUBSET (Column \cup {"row"})]
    BY <1>2 DEF UpdateColumns, Ages, TypeOK
  <2> QED BY <2>2, <2>3, <2>4
<1> QED BY <1>1, <1>2

LEMMA KilledTyped ==
  ASSUME TypeOK, NEW cd, Killed(cd)
  PROVE  pending' \subseteq Row /\ watching' \subseteq Row /\ raced' \in BOOLEAN
<1>1. pending' \subseteq Row /\ watching' \subseteq Row
  BY DEF Killed, Starts, TypeOK
<1>2. raced' \in BOOLEAN
  BY DEF Killed, TypeOK
<1> QED BY <1>1, <1>2

LEMMA TypeInit == Init => TypeOK
<1> SUFFICES ASSUME Init PROVE TypeOK
  OBVIOUS
<1>1. Blank \in Row
  BY DEF Blank, Row
<1>2. running \in MyClient
  BY <1>1, MyClientOfARow DEF Init
<1> QED BY <1>1, <1>2 DEF Init, TypeOK, Steps

LEMMA TypeLoad ==
  ASSUME TypeOK, NEW r \in Request, NEW o \in Op, Load(r, o)
  PROVE  TypeOK'
<1>1. FirstStep(o) \in Steps
  BY DEF FirstStep, Steps
<1>2. pc' \in [Request -> Steps] /\ op' \in [Request -> Op \cup {"none", "event"}]
  BY <1>1 DEF Load, TypeOK
<1>3. copy' \in [Request -> Row] /\ since' \in [Request -> SUBSET (Column \cup {"row"})]
  BY DEF Load, Fetched, TypeOK
<1>4. raced' \in BOOLEAN
  BY DEF Load, TypeOK, Busy
<1> QED BY <1>2, <1>3, <1>4 DEF Load, TypeOK, memory

LEMMA TypeSaveRow ==
  ASSUME TypeOK, NEW r \in Request, SaveRow(r)
  PROVE  TypeOK'
<1> DEFINE cs == Sets(op[r])
<1>0. cs \subseteq Column
  BY SetsAreColumns
<1> HIDE DEF cs
<1>1. row' = Written(op[r], copy[r]) /\ last' = Written(op[r], last)
      /\ copy' = [copy EXCEPT ![r] = row'] /\ clock' = clock + 1
      /\ overtaken' = (overtaken \ cs) \cup (since[r] \ cs)
      /\ Ages({r}, cs) /\ deleted' = deleted
  BY DEF SaveRow, Update, cs
<1>2. row' \in Row /\ last' \in Row
  BY <1>1, WrittenIsRow DEF TypeOK
<1>3. copy' \in [Request -> Row] /\ clock' \in Nat
  BY <1>1, <1>2 DEF TypeOK
<1>4. since' \in [Request -> SUBSET (Column \cup {"row"})]
      /\ overtaken' \subseteq Column \cup {"row"}
  BY <1>0, <1>1 DEF Ages, TypeOK
<1>5. pc' \in [Request -> Steps]
  BY DEF SaveRow, Goto, AfterSave, Steps, TypeOK
<1>6. raced' \in BOOLEAN
  BY DEF SaveRow, TypeOK
<1> QED BY <1>1, <1>2, <1>3, <1>4, <1>5, <1>6 DEF SaveRow, TypeOK, memory

LEMMA TypeDeleteRow ==
  ASSUME TypeOK, NEW r \in Request, DeleteRow(r)
  PROVE  TypeOK'
<1>1. since' \in [Request -> SUBSET (Column \cup {"row"})]
      /\ overtaken' \subseteq Column \cup {"row"}
  BY DEF DeleteRow, Ages, TypeOK
<1>2. pc' \in [Request -> Steps]
  BY DEF DeleteRow, Goto, Steps, TypeOK
<1> QED BY <1>1, <1>2 DEF DeleteRow, TypeOK, memory

LEMMA TypeAdvanced ==
  ASSUME TypeOK, NEW r \in Request, UpdateAdvancedSettings(r)
  PROVE  TypeOK'
<1>1. {"advanced"} \in SUBSET Column /\ {r} \in SUBSET Request
  BY DEF Column, Setting
<1>2. UpdateColumns({r}, {"advanced"})
  BY DEF UpdateAdvancedSettings
<1>3. copy' \in [Request -> Row]
  BY StampIsRow DEF UpdateAdvancedSettings, TypeOK
<1>4. pc' \in [Request -> Steps]
  BY DEF UpdateAdvancedSettings, Goto, Steps, TypeOK
<1> QED BY <1>1, <1>2, <1>3, <1>4, ColumnsTyped
        DEF UpdateAdvancedSettings, TypeOK, memory

LEMMA TypeReadBack ==
  ASSUME TypeOK, NEW r \in Request, ReadBack(r)
  PROVE  TypeOK'
<1>1. fresh' \in [Request -> Row] /\ pending' \subseteq Row
  BY DEF ReadBack, Starts, TypeOK
<1>2. pc' \in [Request -> Steps]
  BY DEF ReadBack, Goto, Steps, TypeOK
<1> QED BY <1>1, <1>2 DEF ReadBack, TypeOK, ghosts

LEMMA TypeApply ==
  ASSUME TypeOK, NEW r \in Request, Apply(r)
  PROVE  TypeOK'
<1>1. running' \in MyClient \cup {NoClient} /\ pending' \subseteq Row
  <2>1. CASE running # NoClient
    <3>1. running \in MyClient /\ fresh[r] \in Row
      BY <2>1 DEF TypeOK
    <3>2. [running EXCEPT !.instance = fresh[r]] \in MyClient
      BY <3>1 DEF MyClient
    <3> QED BY <2>1, <3>1, <3>2, MyClientOfARow DEF Apply, Applied, TypeOK
  <2>2. CASE running = NoClient
    BY <2>2 DEF Apply, Starts, TypeOK
  <2> QED BY <2>1, <2>2
<1>2. pc' \in [Request -> Steps]
  BY DEF Apply, Goto, Steps, TypeOK
<1> QED BY <1>1, <1>2 DEF Apply, TypeOK, ghosts

LEMMA StartInstanceTyped ==
  ASSUME TypeOK, NEW r \in Request, NEW next \in Steps, StartInstance(r, next)
  PROVE  /\ row' \in Row \cup {NoRow} /\ last' \in Row /\ clock' \in Nat
         /\ since' \in [Request -> SUBSET (Column \cup {"row"})]
         /\ overtaken' \subseteq Column \cup {"row"} /\ deleted' \in BOOLEAN
         /\ pending' \subseteq Row /\ raced' \in BOOLEAN
         /\ pc' \in [Request -> Steps]
<1>1. pc' \in [Request -> Steps]
  BY DEF StartInstance, Goto, Steps, TypeOK
<1>2. CASE UNCHANGED <<row, clock, ghosts, raced>>
  <2>1. pending' \subseteq Row
    BY <1>2 DEF StartInstance, Startable, Starts, TypeOK, UpdateColumns
  <2> QED BY <1>1, <1>2, <2>1 DEF ghosts, TypeOK
<1>3. CASE /\ row # NoRow /\ UpdateColumns({}, {"proxy"}) /\ Starts({row'})
           /\ raced' = (raced \/ client = "up" \/ pending # {})
  <2>1. {"proxy"} \in SUBSET Column
    BY DEF Column, Setting
  <2>2. row' \in Row
    BY <1>3, StampIsRow DEF UpdateColumns, TypeOK
  <2>3. pending' \subseteq Row
    BY <1>3, <2>2 DEF Starts, TypeOK
  <2>4. raced' \in BOOLEAN
    BY <1>3 DEF TypeOK
  <2> QED BY <1>1, <1>3, <2>1, <2>3, <2>4, ColumnsTyped
<1> QED BY <1>2, <1>3 DEF StartInstance, Startable

LEMMA TypeEnsure ==
  ASSUME TypeOK, NEW r \in Request, Ensure(r) \/ Restart(r)
  PROVE  TypeOK'
<1>1. UNCHANGED <<client, running, watching, op, copy, fresh>>
  BY DEF Ensure, Restart, StartInstance, memory
<1>2. CASE \E next \in Steps : StartInstance(r, next)
  BY <1>1, <1>2, StartInstanceTyped DEF TypeOK
<1>3. CASE /\ UNCHANGED <<row, memory, clock, ghosts, raced>>
           /\ \E step \in Steps : Goto(r, step)
  <2>1. pc' \in [Request -> Steps]
    BY <1>3 DEF Goto, TypeOK
  <2> QED BY <1>1, <1>3, <2>1 DEF TypeOK, memory, ghosts
<1>4. "wait" \in Steps /\ "done" \in Steps
      /\ \A o : AfterEnsure(o) \subseteq Steps
  BY DEF Steps, AfterEnsure
<1> QED BY <1>2, <1>3, <1>4 DEF Ensure, Restart

LEMMA TypeTeardown ==
  ASSUME TypeOK, NEW r \in Request, Kill(r) \/ Signal(r) \/ Clean(r) \/ Forget(r)
  PROVE  TypeOK'
<1>1. /\ row' \in Row \cup {NoRow} /\ last' \in Row /\ clock' \in Nat
      /\ since' \in [Request -> SUBSET (Column \cup {"row"})]
      /\ overtaken' \subseteq Column \cup {"row"} /\ deleted' \in BOOLEAN
  <2>1. CASE UNCHANGED <<row, clock, ghosts>>
    BY <2>1 DEF TypeOK, ghosts
  <2>2. CASE UpdateColumns({}, {"connected"})
    <3>1. {"connected"} \in SUBSET Column
      BY DEF Column
    <3> QED BY <2>2, <3>1, ColumnsTyped
  <2> QED BY <2>1, <2>2 DEF Kill, Signal, Clean, Forget
<1>2. pending' \subseteq Row /\ watching' \subseteq Row /\ raced' \in BOOLEAN
  <2>1. CASE NobodyKilled
    BY <2>1 DEF NobodyKilled, TypeOK
  <2> QED BY <2>1, KilledTyped DEF Kill, Signal, Clean, Forget
<1>3. client' = "none" /\ running' \in MyClient \cup {NoClient}
      /\ UNCHANGED <<op, copy, fresh>>
  BY DEF Kill, Signal, Clean, Forget, TypeOK
<1>4. pc' \in [Request -> Steps]
  BY DEF Kill, Signal, Clean, Forget, Goto, Steps, TypeOK
<1> QED BY <1>1, <1>2, <1>3, <1>4 DEF TypeOK

LEMMA TypeEvent ==
  ASSUME TypeOK, NEW r \in Request, Event(r)
  PROVE  TypeOK'
<1>1. {"connected"} \in SUBSET Column /\ UpdateColumns({}, {"connected"})
  BY DEF Column, Event
<1>2. /\ client' \in {"none", "up", "down"}
      /\ op' \in [Request -> Op \cup {"none", "event"}]
      /\ pc' \in [Request -> Steps]
  BY DEF Event, Goto, Steps, TypeOK
<1>3. raced' \in BOOLEAN
  BY DEF Event, Busy, TypeOK
<1> QED BY <1>1, <1>2, <1>3, ColumnsTyped DEF Event, TypeOK

LEMMA TypeStartClient ==
  ASSUME TypeOK, NEW cd \in pending, StartClient(cd)
  PROVE  TypeOK'
<1>1. cd \in Row
  BY DEF TypeOK
<1>2. MyClientOf(cd) \in MyClient
  BY <1>1, MyClientOfARow
<1>3. pending' \subseteq Row /\ watching' \subseteq Row
  BY <1>1 DEF StartClient, TypeOK
<1>4. running' \in MyClient \cup {NoClient} /\ client' \in {"none", "up", "down"}
  BY <1>2 DEF StartClient, TypeOK
<1> QED BY <1>3, <1>4 DEF StartClient, TypeOK, ghosts

------------------------------------------------------------------------------
(* The theorems.                                                           *)

LEMMA InvInit == Init => IInv
<1> SUFFICES ASSUME Init PROVE Kept
  BY TypeInit DEF IInv
<1> QED BY DEF Init, Kept, ColumnsKept, CopiesKept, DeletionSeen, FreshKept,
           Served, Applying

LEMMA InvNext == IInv /\ [Next]_vars => IInv'
<1> SUFFICES ASSUME IInv, [Next]_vars PROVE IInv'
  OBVIOUS
<1>0. TypeOK
  BY DEF IInv
<1>1. CASE \E r \in Request, o \in Op : Load(r, o)
  BY <1>0, <1>1, TypeLoad, RowLoaded DEF IInv
<1>2. CASE \E r \in Request : SaveRow(r)
  BY <1>0, <1>2, TypeSaveRow, RowSaved DEF IInv
<1>3. CASE \E r \in Request : UpdateAdvancedSettings(r)
  BY <1>0, <1>3, TypeAdvanced, AdvancedWritten DEF IInv
<1>4. CASE \E r \in Request : ReadBack(r)
  BY <1>0, <1>4, TypeReadBack, RowReadBack DEF IInv
<1>5. CASE \E r \in Request : Apply(r)
  BY <1>0, <1>5, TypeApply, OnlyMemory DEF IInv
<1>6. CASE \E r \in Request : Ensure(r) \/ Restart(r)
  BY <1>0, <1>6, TypeEnsure, OnlyMemory DEF IInv
<1>7. CASE \E r \in Request : Kill(r) \/ Signal(r) \/ Clean(r) \/ Forget(r)
  BY <1>0, <1>7, TypeTeardown, ConnectedWritten DEF IInv
<1>8. CASE \E r \in Request : DeleteRow(r)
  BY <1>0, <1>8, TypeDeleteRow, RowDeleted DEF IInv
<1>9. CASE \E r \in Request : Event(r)
  BY <1>0, <1>9, TypeEvent, EventWritten DEF IInv
<1>10. CASE \E cd \in pending : StartClient(cd)
  <2>1. /\ UNCHANGED <<row, copy, fresh, ghosts>>
        /\ Served' = Served /\ Applying' = Applying
    BY <1>10 DEF StartClient, Served, Applying
  <2> QED BY <1>0, <1>10, <2>1, TypeStartClient, NothingWritten DEF IInv
<1>11. CASE UNCHANGED vars
  <2>1. /\ UNCHANGED <<row, copy, fresh, ghosts>>
        /\ Served' = Served /\ Applying' = Applying
    BY <1>11 DEF vars, Served, Applying
  <2>2. TypeOK'
    BY <1>0, <1>11 DEF TypeOK, vars, memory, ghosts
  <2> QED BY <2>1, <2>2, NothingWritten DEF IInv
<1> QED BY <1>1, <1>2, <1>3, <1>4, <1>5, <1>6, <1>7, <1>8, <1>9, <1>10, <1>11
        DEF Next, RequestStep

LEMMA Invariant == Spec => []IInv
  BY InvInit, InvNext, PTL DEF Spec

(* Every copy of the row in use, by a request, a supervisor or the client, *)
(* was read from a row that was there.                                     *)
THEOREM TypeCorrect == Spec => []TypeOK
  BY Invariant, PTL DEF IInv

(* For any number of requests: a setting is lost, or a deleted row comes   *)
(* back, only to a save whose copy is older than the write it undoes.      *)
THEOREM LostOnlyToOverlapping == Spec => []LostOnlyToOverlap
<1>1. IInv => LostOnlyToOverlap
  BY DEF IInv, Kept, ColumnsKept, DeletionSeen, LostOnlyToOverlap
<1> QED BY <1>1, Invariant, PTL

(* For any number of requests: a client that runs when Connect or          *)
(* UpdateAdvancedSettings ends has the settings that were asked for.       *)
THEOREM AnswersAreInForce == Spec => AnswerIsInForce
<1> DEFINE held(r, c) == c \in since[r] \cup overtaken
           InForce(r) ==
             pc[r] = "apply" /\ pc[r]' = "done" /\ running' # NoClient =>
               IF op[r] = "connect"
               THEN /\ held(r, "webhook")
                       \/ running.webhook' >= copy[r]["webhook"]
                    /\ held(r, "events")
                       \/ running.subscriptions' >= copy[r]["events"]
               ELSE held(r, "advanced")
                    \/ running.instance'["advanced"] >= copy[r]["advanced"]
<1>1. ASSUME IInv, [Next]_vars, NEW r \in Request
      PROVE  InForce(r)
  <2>1. SUFFICES ASSUME pc[r] = "apply", pc'[r] = "done", running' # NoClient
                 PROVE  InForce(r)
    OBVIOUS
  <2> HIDE DEF InForce
  <2>2. Apply(r)
    <3>1. \/ UNCHANGED pc
          \/ \E s \in Request : \E step \in Steps :
               Goto(s, step) /\ (pc[s] = "apply" => Apply(s))
      <4>1. CASE UNCHANGED vars \/ \E cd \in pending : StartClient(cd)
        BY <4>1 DEF vars, StartClient
      <4>2. CASE \E s \in Request : \E o \in Op : Load(s, o)
        BY <4>2 DEF Load, FirstStep, Goto, Steps
      <4>3. CASE \E s \in Request : SaveRow(s) \/ UpdateAdvancedSettings(s)
                                    \/ ReadBack(s) \/ Apply(s)
        BY <4>3 DEF SaveRow, AfterSave, UpdateAdvancedSettings, ReadBack,
                    Apply, Steps
      <4>4. CASE \E s \in Request : Ensure(s) \/ Restart(s)
        BY <4>4 DEF Ensure, AfterEnsure, Restart, StartInstance, Steps
      <4>5. CASE \E s \in Request : Kill(s) \/ Signal(s) \/ Clean(s)
                                    \/ Forget(s) \/ DeleteRow(s) \/ Event(s)
        BY <4>5 DEF Kill, Signal, Clean, Forget, DeleteRow, Event, Steps
      <4> QED BY <1>1, <4>1, <4>2, <4>3, <4>4, <4>5 DEF Next, RequestStep
    <3> QED BY <1>1, <2>1, <3>1 DEF Goto, IInv, TypeOK
  <2>3. /\ fresh[r] \in Row /\ copy[r] \in Row /\ r \in Applying
        /\ running \in MyClient
    BY <1>1, <2>1, <2>2 DEF Apply, Applying, IInv, TypeOK
  <2>4. running' = Applied(op[r], fresh[r])
    BY <2>1, <2>2 DEF Apply
  <2>5. \A c \in Column : held(r, c) \/ fresh[r][c] = copy[r][c]
    BY <1>1, <2>3 DEF IInv, Kept, FreshKept
  <2>6. \A c \in Column : held(r, c) \/ fresh[r][c] >= copy[r][c]
    BY <2>3, <2>5 DEF Row
  <2>7. running'.instance = fresh[r]
    BY <2>3, <2>4 DEF Applied, MyClientOf, MyClient
  <2>8. op[r] = "connect" => /\ running'.webhook = fresh[r]["webhook"]
                             /\ running'.subscriptions = fresh[r]["events"]
    BY <2>4 DEF Applied, MyClientOf
  <2>9. {"webhook", "events", "advanced"} \subseteq Column
    BY DEF Column, Setting
  <2> QED BY <2>6, <2>7, <2>8, <2>9 DEF InForce
<1>2. IInv /\ [Next]_vars => [\A r \in Request : InForce(r)]_vars
  BY <1>1
<1> QED BY <1>2, Invariant, PTL DEF Spec, AnswerIsInForce

------------------------------------------------------------------------------
(* The running client.  As long as nothing has raced there is one request  *)
(* at a time, and its call says which settings the client has yet to get.  *)

Same(cd) == \A c \in Setting : cd[c] = row[c]

StepsOf(o) ==
  CASE o = "connect" -> {"save", "sync", "apply"}
    [] o = "disconnect" -> {"ensure", "wait", "kill", "save"}
    [] o = "logout" -> {"ensure", "wait", "save", "signal"}
    [] o = "pair" -> {"save"}
    [] o \in {"proxy", "noproxy"} ->
         {"save", "ensure", "wait", "clean", "restart"}
    [] o = "reconnect" -> {"ensure", "wait", "clean", "restart"}
    [] o = "advanced" -> {"column", "sync", "apply"}
    [] o = "delete" -> {"forget", "drop"}
    [] OTHER -> {}

InOrder == \A r \in Served : pc[r] \in StepsOf(op[r])

(* The first step of a request, that changes a setting.                    *)
Writes(r) ==
  pc[r] = "column" \/ (pc[r] = "save" /\ op[r] \in {"connect", "proxy", "noproxy"})

(* The settings the row has and the client may not have yet.               *)
Behind(r) ==
  CASE pc[r] \in {"sync", "apply"} ->
         IF op[r] = "connect" THEN {"events", "webhook"} ELSE {"advanced"}
    [] pc[r] \in {"ensure", "wait", "clean"} ->
         IF op[r] \in {"proxy", "noproxy"} THEN {"proxy"} ELSE {}
    [] pc[r] = "signal" -> {"proxy"}
    [] OTHER -> {}

Follows(behind) ==
  client = "up" /\ running # NoClient /\ row # NoRow =>
    /\ \A c \in Setting \ behind : running.instance[c] = row[c]
    /\ "webhook" \in behind \/ running.webhook = row["webhook"]
    /\ "events" \in behind \/ running.subscriptions = row["events"]

(* A Logout that started the client itself may put the old proxy back, but *)
(* not before that client is up.                                           *)
HasStarted(r) ==
  /\ op[r] = "logout" /\ pc[r] \in {"wait", "save", "signal"}
  /\ \A one, other \in pending : one = other
  /\ pending # {} => pc[r] = "wait" /\ client # "up"

(* The proxy may have been filled in since, for a client it has started.   *)
Copied(r) ==
  /\ \A c \in Setting \ {"proxy"} : copy[r][c] = row[c]
  /\ \/ copy[r]["proxy"] = row["proxy"]
     \/ op[r] \in {"disconnect", "proxy", "noproxy", "reconnect"}
     \/ HasStarted(r)

Quiet ==
  /\ \A r, s \in Served : r = s
  /\ \A r \in Served :
       /\ row # NoRow /\ Copied(r)
       /\ pc[r] = "apply" => Same(fresh[r])
       /\ Writes(r) => pending = {}
  /\ row # NoRow => \A cd \in pending : Same(cd)
  /\ Follows(UNION {Behind(r) : r \in Request})

OneAtATime == ~raced => Quiet

LEMMA NoRowIsNoRow == NoRow \notin Row
<1>1. "none" \notin Column /\ "jid" \in Column
  BY DEF Column, Setting
<1> QED BY <1>1 DEF NoRow, Row

LEMMA StampOf ==
  ASSUME NEW target, NEW cs, NEW c \in Column
  PROVE  Stamp(target, cs)[c] = IF c \in cs THEN clock + 1 ELSE target[c]
BY DEF Stamp

(* The column connected is no setting.                                     *)
LEMMA ConnectedIsNoSetting ==
  ASSUME TypeOK, UpdateColumns({}, {"connected"})
  PROVE  /\ row' = NoRow <=> row = NoRow
         /\ row # NoRow => \A c \in Setting : row'[c] = row[c]
<1>1. CASE row = NoRow
  BY <1>1 DEF UpdateColumns
<1>2. CASE row # NoRow
  <2>1. row' = Stamp(row, {"connected"}) /\ row \in Row
    BY <1>2 DEF UpdateColumns, TypeOK
  <2>2. row' # NoRow
    BY <2>1, StampIsRow, NoRowIsNoRow DEF TypeOK
  <2>3. \A c \in Setting : c \in Column /\ c \notin {"connected"}
    BY DEF Column, Setting
  <2> QED BY <1>2, <2>1, <2>2, <2>3, StampOf
<1> QED BY <1>1, <1>2

(* After a step of the request that is served, nobody else is.             *)
LEMMA QuietAfter ==
  ASSUME TypeOK, Quiet, NEW r \in Served, NEW step, step # "idle",
         Goto(r, step), UNCHANGED op,
         step # "done" =>
           /\ row' # NoRow /\ Copied(r)'
           /\ step = "apply" => \A c \in Setting : fresh'[r][c] = row'[c]
           /\ ~Writes(r)',
         row' # NoRow => \A cd \in pending' : \A c \in Setting : cd[c] = row'[c],
         Follows(Behind(r))'
  PROVE  Quiet'
<1>1. /\ pc' = [pc EXCEPT ![r] = step] /\ pc \in [Request -> Steps]
      /\ r \in Request /\ \A s \in Served : s = r
  BY DEF Goto, TypeOK, Quiet, Served
<1>2. \A s \in Request \ {r} : pc'[s] = pc[s] /\ pc[s] \in {"idle", "done"}
  BY <1>1 DEF Served
<1>3. pc'[r] = step /\ Served' \subseteq {r} /\ (r \in Served' => step # "done")
  BY <1>1, <1>2 DEF Served
<1>4. UNION {Behind(s)' : s \in Request} = Behind(r)'
  <2>1. \A s \in Request \ {r} : Behind(s)' = {}
    BY <1>2 DEF Behind
  <2> QED BY <1>1, <2>1
<1>5. \A s \in Served' : s = r /\ step # "done"
  BY <1>3
<1> QED BY <1>3, <1>4, <1>5 DEF Quiet, Same

------------------------------------------------------------------------------
LEMMA OrderNext == TypeOK /\ InOrder /\ [Next]_vars => InOrder'
<1> SUFFICES ASSUME TypeOK, InOrder, [Next]_vars PROVE InOrder'
  OBVIOUS
<1>1. ASSUME NEW r \in Request, NEW step, Goto(r, step), UNCHANGED op,
             step = "done" \/ step \in StepsOf(op[r])
      PROVE  InOrder'
  BY <1>1 DEF Goto, TypeOK, InOrder, Served
<1>2. ASSUME NEW r \in Request, NEW o \in Op, Load(r, o)
      PROVE  InOrder'
  <2>1. FirstStep(o) \in StepsOf(o)
    BY <1>2, OpAssumption DEF Load, FirstStep, StepsOf
  <2> QED BY <1>2, <2>1 DEF Load, TypeOK, InOrder, Served
<1>3. ASSUME NEW r \in Request, pc[r] \notin {"idle", "done"}
      PROVE  /\ pc[r] \in StepsOf(op[r])
             /\ op[r] \in {"connect", "disconnect", "logout", "pair", "proxy",
                           "noproxy", "reconnect", "advanced", "delete"}
  <2>1. pc[r] \in StepsOf(op[r])
    BY <1>3 DEF InOrder, Served
  <2> QED BY <2>1 DEF StepsOf
<1>4. ASSUME NEW r \in Request, SaveRow(r)
      PROVE  InOrder'
  <2>1. AfterSave(op[r]) = "done" \/ AfterSave(op[r]) \in StepsOf(op[r])
    BY <1>3, <1>4 DEF SaveRow, AfterSave, StepsOf
  <2> QED BY <1>1, <1>4, <2>1 DEF SaveRow
<1>5. ASSUME NEW r \in Request,
             UpdateAdvancedSettings(r) \/ ReadBack(r) \/ Apply(r)
      PROVE  InOrder'
  <2>1. pc[r] = "column" => "sync" \in StepsOf(op[r])
    BY <1>3 DEF StepsOf
  <2>2. pc[r] = "sync" => "apply" \in StepsOf(op[r])
    BY <1>3 DEF StepsOf
  <2> QED BY <1>1, <1>5, <2>1, <2>2 DEF UpdateAdvancedSettings, ReadBack, Apply
<1>6. ASSUME NEW r \in Request, Ensure(r)
      PROVE  InOrder'
  <2>1. /\ "wait" \in StepsOf(op[r])
        /\ \A step \in AfterEnsure(op[r]) :
             step = "done" \/ step \in StepsOf(op[r])
    BY <1>3, <1>6 DEF Ensure, AfterEnsure, StepsOf
  <2> QED BY <1>1, <1>6, <2>1 DEF Ensure, StartInstance
<1>7. ASSUME NEW r \in Request, Kill(r) \/ Signal(r) \/ Clean(r) \/ Forget(r)
      PROVE  InOrder'
  <2>1. /\ pc[r] = "kill" => "save" \in StepsOf(op[r])
        /\ pc[r] = "clean" => "restart" \in StepsOf(op[r])
        /\ pc[r] = "forget" => "drop" \in StepsOf(op[r])
    BY <1>3 DEF StepsOf
  <2> QED BY <1>1, <1>7, <2>1 DEF Kill, Signal, Clean, Forget
<1>8. ASSUME NEW r \in Request, Restart(r) \/ DeleteRow(r)
      PROVE  InOrder'
  BY <1>1, <1>8 DEF Restart, StartInstance, DeleteRow
<1>9. ASSUME NEW r \in Request, Event(r)
      PROVE  InOrder'
  BY <1>9 DEF Event, Goto, TypeOK, InOrder, Served
<1>10. CASE UNCHANGED vars \/ \E cd \in pending : StartClient(cd)
  BY <1>10 DEF vars, StartClient, InOrder, Served
<1> QED BY <1>2, <1>4, <1>5, <1>6, <1>7, <1>8, <1>9, <1>10
        DEF Next, RequestStep

------------------------------------------------------------------------------
(* Each step keeps the quiet, unless it sets raced.                        *)

LEMMA QuietNow ==
  ASSUME TypeOK, InOrder, Quiet, NEW r \in Served
  PROVE  /\ r \in Request /\ pc[r] \in StepsOf(op[r]) /\ op[r] \in Op \cup {"event"}
         /\ row \in Row /\ row # NoRow /\ copy[r] \in Row /\ fresh[r] \in Row
         /\ Copied(r)
         /\ \A cd \in pending : \A c \in Setting : cd[c] = row[c]
         /\ Follows(Behind(r))
<1>1. /\ r \in Request /\ row # NoRow /\ Copied(r)
      /\ \A cd \in pending : Same(cd)
  BY DEF Quiet, Served
<1>2. UNION {Behind(s) : s \in Request} = Behind(r)
  <2>1. \A s \in Request \ {r} : Behind(s) = {}
    BY DEF Quiet, Served, Behind
  <2> QED BY <1>1, <2>1
<1>3. pc[r] \in StepsOf(op[r])
  BY DEF InOrder
<1>4. op[r] \in Op \cup {"event"}
  <2>1. op[r] # "none"
    BY <1>3 DEF StepsOf
  <2> QED BY <1>1, <2>1 DEF TypeOK
<1> QED BY <1>1, <1>2, <1>3, <1>4 DEF Quiet, Same, TypeOK

LEMMA SettingsAreColumns == Setting \subseteq Column
BY DEF Column, Setting

LEMMA QuietSaveRow ==
  ASSUME TypeOK, InOrder, Quiet, NEW r \in Served, SaveRow(r), ~raced'
  PROVE  Quiet'
<1> DEFINE cs == Sets(op[r])
<1>0. /\ row # NoRow /\ copy[r] \in Row /\ r \in Request
      /\ pc[r] \in StepsOf(op[r]) /\ pc[r] = "save"
      /\ Copied(r)
      /\ \A cd \in pending : \A c \in Setting : cd[c] = row[c]
      /\ Follows(Behind(r))
  BY QuietNow DEF SaveRow
<1>1. op[r] \in {"connect", "pair", "logout", "proxy", "noproxy"}
  BY <1>0 DEF SaveRow, StepsOf, TypeOK
<1>2. /\ row' = Written(op[r], copy[r]) /\ copy' = [copy EXCEPT ![r] = row']
      /\ Goto(r, AfterSave(op[r])) /\ UNCHANGED <<op, fresh, memory>>
  BY DEF SaveRow, Update
<1>3. row' # NoRow /\ copy'[r] = row'
  BY <1>0, <1>2, WrittenIsRow, NoRowIsNoRow DEF TypeOK
<1>4. \A c \in Setting \ cs : row'[c] = copy[r][c]
  BY <1>0, <1>2, SettingsAreColumns, WrittenElsewhere
<1>10. /\ \A c \in Setting \ (cs \cup {"proxy"}) : row'[c] = row[c]
       /\ row'["proxy"] = row["proxy"] \/ "proxy" \in cs
          \/ (op[r] = "logout" /\ pending = {})
  BY <1>0, <1>1, <1>4 DEF Copied, HasStarted, Setting, Sets
<1>5. AfterSave(op[r]) \in {"sync", "signal", "ensure", "done"}
  BY DEF AfterSave
<1>6. pc'[r] = AfterSave(op[r])
  BY <1>0, <1>2 DEF Goto, TypeOK
<1>7. ~Writes(r)'
  BY <1>5, <1>6 DEF Writes
<1>8. \A cd \in pending' : \A c \in Setting : cd[c] = row'[c]
  <2>1. CASE op[r] \in {"connect", "proxy", "noproxy"} \/ pending = {}
    BY <1>0, <1>2, <2>1 DEF Quiet, Writes, memory
  <2>2. CASE op[r] \in {"pair", "logout"} /\ pending # {}
    BY <1>0, <1>2, <1>10, <2>2 DEF Sets, Setting, memory
  <2> QED BY <1>1, <2>1, <2>2
<1>9. Follows(Behind(r))'
  <2>1. /\ Behind(r) = {}
        /\ Behind(r)' = (cs \cap Setting) \cup (IF op[r] = "logout" THEN {"proxy"} ELSE {})
    BY <1>0, <1>1, <1>2, <1>6 DEF Behind, AfterSave, Sets, Setting
  <2>2. {"webhook", "events"} \subseteq Setting
    BY DEF Setting
  <2>3. \A c \in Setting \ Behind(r)' : row'[c] = row[c]
    BY <1>10, <2>1
  <2> HIDE DEF cs
  <2> QED BY <1>0, <1>2, <2>1, <2>2, <2>3 DEF Follows, memory
<1>11. Copied(r)'
  BY <1>3 DEF Copied, Setting
<1> HIDE DEF cs
<1> QED BY <1>2, <1>11, <1>3, <1>5, <1>7, <1>8, <1>9, QuietAfter

LEMMA QuietAdvanced ==
  ASSUME TypeOK, InOrder, Quiet, NEW r \in Served, UpdateAdvancedSettings(r)
  PROVE  Quiet'
<1>0. /\ row # NoRow /\ row \in Row /\ copy[r] \in Row /\ r \in Request
      /\ pc[r] \in StepsOf(op[r]) /\ pc[r] = "column"
      /\ Copied(r)
      /\ Follows(Behind(r))
  BY QuietNow DEF UpdateAdvancedSettings
<1>1. op[r] = "advanced" /\ pending = {}
  BY <1>0 DEF StepsOf, Quiet, Writes
<1>2. /\ row' = Stamp(row, {"advanced"})
      /\ copy'[r] = Stamp(copy[r], {"advanced"})
      /\ Goto(r, "sync") /\ UNCHANGED <<op, fresh, memory>>
  BY <1>0 DEF UpdateAdvancedSettings, UpdateColumns, TypeOK
<1>3. row' # NoRow
  BY <1>0, <1>2, StampIsRow, NoRowIsNoRow DEF TypeOK
<1>8. \A c \in Setting : copy[r][c] = row[c]
  BY <1>0, <1>1 DEF Copied, HasStarted
<1>4. /\ \A c \in Setting : copy'[r][c] = row'[c]
      /\ \A c \in Setting \ {"advanced"} : row'[c] = row[c]
  BY <1>2, <1>8, SettingsAreColumns, StampOf
<1>5. pc'[r] = "sync"
  BY <1>0, <1>2 DEF Goto, TypeOK
<1>6. Follows(Behind(r))'
  <2>1. Behind(r) = {} /\ Behind(r)' = {"advanced"}
    BY <1>0, <1>1, <1>2, <1>5 DEF Behind
  <2>2. {"webhook", "events"} \subseteq Setting \ {"advanced"}
    BY DEF Setting
  <2> QED BY <1>0, <1>2, <1>4, <2>1, <2>2 DEF Follows, memory
<1>7. ~Writes(r)' /\ pending' = {}
  BY <1>1, <1>2, <1>5 DEF Writes, memory
<1>9. Copied(r)'
  BY <1>4 DEF Copied, Setting
<1> QED BY <1>2, <1>3, <1>6, <1>7, <1>9, QuietAfter

LEMMA QuietReadBack ==
  ASSUME TypeOK, InOrder, Quiet, NEW r \in Served, ReadBack(r)
  PROVE  Quiet'
<1>0. /\ row # NoRow /\ r \in Request /\ pc[r] = "sync"
      /\ Copied(r) /\ pc[r] \in StepsOf(op[r])
      /\ \A cd \in pending : \A c \in Setting : cd[c] = row[c]
      /\ Follows(Behind(r))
  BY QuietNow DEF ReadBack
<1>1. /\ fresh'[r] = row /\ Goto(r, "apply")
      /\ UNCHANGED <<row, copy, pending, client, running, op>>
  BY <1>0 DEF ReadBack, TypeOK
<1>2. pc'[r] = "apply"
  BY <1>0, <1>1 DEF Goto, TypeOK
<1>3. ~Writes(r)' /\ Behind(r)' = Behind(r)
  BY <1>0, <1>1, <1>2 DEF Writes, Behind
<1>4. Follows(Behind(r))'
  BY <1>0, <1>1, <1>3 DEF Follows
<1>5. Copied(r)'
  <2>1. op[r] \in {"connect", "advanced"}
    BY <1>0 DEF StepsOf
  <2> QED BY <1>0, <1>1, <2>1 DEF Copied, HasStarted
<1> QED BY <1>0, <1>1, <1>3, <1>4, <1>5, QuietAfter

LEMMA QuietApply ==
  ASSUME TypeOK, InOrder, Quiet, NEW r \in Served, Apply(r)
  PROVE  Quiet'
<1>0. /\ row # NoRow /\ row \in Row /\ r \in Request /\ pc[r] = "apply"
      /\ pc[r] \in StepsOf(op[r]) /\ fresh[r] \in Row /\ copy[r] \in Row
      /\ Copied(r)
      /\ \A c \in Setting : fresh[r][c] = row[c]
      /\ \A cd \in pending : \A c \in Setting : cd[c] = row[c]
      /\ Follows(Behind(r))
  BY QuietNow DEF Apply, Quiet, Same
<1>1. op[r] \in {"connect", "advanced"}
  BY <1>0 DEF StepsOf
<1>2. Goto(r, "done") /\ UNCHANGED <<row, client, op>>
  BY DEF Apply
<1>3. \A cd \in pending' : \A c \in Setting : cd[c] = row'[c]
  BY <1>0, <1>1, <1>2 DEF Apply, Starts, Copied, HasStarted, Setting
<1>4. Behind(r)' = {}
  <2>1. pc'[r] = "done"
    BY <1>0, <1>2 DEF Goto, TypeOK
  <2> QED BY <2>1 DEF Behind
<1>5. Follows(Behind(r))'
  <2>1. CASE running = NoClient
    BY <2>1 DEF Apply, Follows
  <2>2. CASE running # NoClient /\ op[r] = "connect"
    <3>1. running' = MyClientOf(fresh[r])
      BY <2>2 DEF Apply, Applied
    <3> QED BY <1>0, <1>2, <3>1 DEF Follows, MyClientOf, Setting
  <2>3. CASE running # NoClient /\ op[r] = "advanced"
    <3>1. running' = [running EXCEPT !.instance = fresh[r]] /\ running \in MyClient
      BY <2>3 DEF Apply, Applied, TypeOK
    <3>2. /\ running'.instance = fresh[r] /\ running'.webhook = running.webhook
          /\ running'.subscriptions = running.subscriptions
      BY <3>1 DEF MyClient
    <3>3. Behind(r) = {"advanced"}
      BY <1>0, <2>3 DEF Behind
    <3> QED BY <1>0, <1>2, <2>3, <3>2, <3>3 DEF Follows
  <2> QED BY <1>1, <2>1, <2>2, <2>3
<1> QED BY <1>2, <1>3, <1>5, QuietAfter

(* The proxy is no setting a client that is not up could be behind with.   *)
LEMMA QuietFilledIn ==
  ASSUME TypeOK, Quiet, NEW r \in Served, NEW next \in {"wait", "done"},
         row # NoRow, row \in Row, Copied(r), pc[r] \in {"ensure", "restart"},
         next = "wait" =>
           op[r] \in {"disconnect", "logout", "proxy", "noproxy", "reconnect"},
         client # "up", pending = {},
         UpdateColumns({}, {"proxy"}), Starts({row'}), Goto(r, next),
         UNCHANGED <<client, running, op, copy, fresh>>
  PROVE  Quiet'
<1>1. row' = Stamp(row, {"proxy"}) /\ pending' = {row'}
  BY DEF UpdateColumns, Starts
<1>2. row' # NoRow
  BY <1>1, StampIsRow, NoRowIsNoRow DEF TypeOK
<1>3. \A c \in Setting \ {"proxy"} : row'[c] = row[c]
  BY <1>1, SettingsAreColumns, StampOf
<1>4. r \in Request /\ pc'[r] = next
  BY DEF Goto, TypeOK, Served
<1>5. next = "wait" => Copied(r)'
  BY <1>1, <1>3, <1>4 DEF Copied, HasStarted
<1>6. ~Writes(r)'
  BY <1>4 DEF Writes
<1>7. Follows(Behind(r))'
  BY DEF Follows
<1>8. next # "done" => next = "wait"
  OBVIOUS
<1> QED BY <1>1, <1>2, <1>4, <1>5, <1>6, <1>7, <1>8, QuietAfter

LEMMA QuietEnsure ==
  ASSUME TypeOK, InOrder, Quiet, NEW r \in Served, Ensure(r) \/ Restart(r), ~raced'
  PROVE  Quiet'
<1>0. /\ row # NoRow /\ row \in Row /\ r \in Request
      /\ pc[r] \in {"ensure", "wait", "restart"}
      /\ pc[r] \in StepsOf(op[r])
      /\ Copied(r)
      /\ \A cd \in pending : \A c \in Setting : cd[c] = row[c]
      /\ Follows(Behind(r))
  BY QuietNow DEF Ensure, Restart
<1>1. op[r] \in {"disconnect", "logout", "proxy", "noproxy", "reconnect"}
  BY <1>0 DEF StepsOf
<1>2. UNCHANGED <<client, running, op, copy, fresh>>
  BY DEF Ensure, Restart, StartInstance, memory
<1>3. CASE UpdateColumns({}, {"proxy"}) /\ Starts({row'})
           /\ raced' = (raced \/ client = "up" \/ pending # {})
           /\ \E next \in {"wait", "done"} : Goto(r, next)
           /\ pc[r] \in {"ensure", "restart"}
  BY <1>0, <1>1, <1>2, <1>3, QuietFilledIn
<1>4. CASE row' = row
  <2>1. /\ pending' = pending \/ pending' = pending \cup {row}
        /\ pc[r] = "wait" => pending' = pending
    BY <1>4 DEF Ensure, Restart, StartInstance, Starts, memory
  <2>2. \A cd \in pending' : \A c \in Setting : cd[c] = row'[c]
    BY <1>0, <1>4, <2>1
  <2>3. PICK step \in {"clean", "kill", "save", "signal", "wait", "done"} :
          /\ Goto(r, step)
          /\ step \in {"save", "signal"} => op[r] = "logout"
          /\ step = "wait" => pc[r] = "ensure"
          /\ \/ pc[r] # "restart" /\ step \in AfterEnsure(op[r])
                /\ client = "up" /\ pending' = pending
             \/ client # "up" /\ step \in {"wait", "done"}
             \/ pc[r] = "restart" /\ step = "done"
    BY <1>0, <1>1 DEF Ensure, Restart, StartInstance, AfterEnsure, memory
  <2>4. pc'[r] = step
    BY <1>0, <2>3 DEF Goto, TypeOK
  <2>5. ~Writes(r)'
    BY <1>2, <2>3, <2>4 DEF Writes
  <2>6. Follows(Behind(r))'
    <3>1. CASE client # "up"
      BY <1>2, <3>1 DEF Follows
    <3>2. CASE client = "up"
      <4>1. Behind(r) \subseteq Behind(r)' /\ "webhook" \notin Behind(r)
            /\ "events" \notin Behind(r)
        BY <1>0, <1>1, <1>2, <2>3, <2>4, <3>2 DEF Behind, AfterEnsure
      <4> QED BY <1>0, <1>2, <1>4, <4>1 DEF Follows
    <3> QED BY <3>1, <3>2
  <2>7. step # "done" => Copied(r)'
    <3>1. CASE HasStarted(r) /\ step # "done"
      <4>1. op[r] = "logout" /\ pc[r] = "wait" /\ pending' = pending
        BY <1>0, <2>1, <3>1 DEF HasStarted
      <4>2. step \in {"save", "signal"} /\ client = "up"
        BY <2>3, <3>1, <4>1 DEF AfterEnsure
      <4>3. HasStarted(r)'
        BY <1>2, <2>4, <3>1, <4>1, <4>2 DEF HasStarted
      <4> QED BY <1>0, <1>2, <1>4, <4>3 DEF Copied
    <3>2. CASE ~HasStarted(r)
      BY <1>0, <1>2, <1>4, <3>2 DEF Copied
    <3> QED BY <3>1, <3>2
  <2>8. step # "idle" /\ step # "apply"
    OBVIOUS
  <2> QED BY <1>0, <1>2, <1>4, <2>2, <2>3, <2>5, <2>6, <2>7, <2>8, QuietAfter
<1> QED BY <1>3, <1>4 DEF Ensure, Restart, StartInstance

LEMMA QuietTeardown ==
  ASSUME TypeOK, InOrder, Quiet, NEW r \in Served, ~raced',
         Kill(r) \/ Signal(r) \/ Clean(r) \/ Forget(r)
  PROVE  Quiet'
<1>0. /\ row # NoRow /\ r \in Request
      /\ pc[r] \in StepsOf(op[r])
      /\ Copied(r)
      /\ \A cd \in pending : \A c \in Setting : cd[c] = row[c]
  BY QuietNow
<1>1. client' = "none" /\ UNCHANGED <<op, copy, fresh>>
  BY DEF Kill, Signal, Clean, Forget
<1>2. row' # NoRow /\ \A c \in Setting : row'[c] = row[c]
  BY <1>0, ConnectedIsNoSetting DEF Kill, Signal, Clean, Forget
<1>3. \A cd \in pending' : \A c \in Setting : cd[c] = row[c]
  <2>1. \/ NobodyKilled
        \/ \E cd \in watching : Killed(cd)
    BY DEF Kill, Signal, Clean, Forget
  <2> QED BY <1>0, <2>1 DEF NobodyKilled, Killed, Starts
<1>4. PICK step \in {"save", "done", "restart", "drop"} :
        /\ Goto(r, step) /\ (step = "save" => pc[r] = "kill")
        /\ step = "restart" => pc[r] = "clean"
        /\ step = "drop" => pc[r] = "forget"
  BY DEF Kill, Signal, Clean, Forget
<1>5. pc'[r] = step
  BY <1>0, <1>4 DEF Goto, TypeOK
<1>6. ~Writes(r)'
  <2>1. pc[r] = "kill" => op[r] = "disconnect"
    BY <1>0 DEF StepsOf
  <2> QED BY <1>1, <1>4, <1>5, <2>1 DEF Writes
<1>7. Follows(Behind(r))'
  BY <1>1 DEF Follows
<1>8. step # "done" => Copied(r)'
  <2>1. step # "done" => op[r] # "logout"
    BY <1>0, <1>4 DEF StepsOf
  <2>2. {"proxy"} \subseteq Setting
    BY DEF Setting
  <2> QED BY <1>0, <1>1, <1>2, <2>1, <2>2 DEF Copied, HasStarted
<1> QED BY <1>0, <1>1, <1>2, <1>3, <1>4, <1>6, <1>7, <1>8, QuietAfter

LEMMA QuietDeleteRow ==
  ASSUME TypeOK, InOrder, Quiet, NEW r \in Served, DeleteRow(r)
  PROVE  Quiet'
<1>1. row' = NoRow /\ Goto(r, "done") /\ UNCHANGED op
  BY DEF DeleteRow
<1>2. Follows(Behind(r))'
  BY <1>1 DEF Follows
<1> QED BY <1>1, <1>2, QuietAfter

(* A request or an event that finds nobody else.                           *)
LEMMA NobodyBehind ==
  ASSUME Quiet, ~Busy
  PROVE  /\ Served = {} /\ pending = {} /\ Follows({})
         /\ \A s \in Request : pc[s] \in {"idle", "done"}
<1>1. Served = {} /\ pending = {}
  BY DEF Busy
<1>2. \A s \in Request : pc[s] \in {"idle", "done"}
  BY <1>1 DEF Served
<1>3. UNION {Behind(s) : s \in Request} = {}
  BY <1>2 DEF Behind
<1> QED BY <1>1, <1>2, <1>3 DEF Quiet

LEMMA QuietLoad ==
  ASSUME TypeOK, Quiet, NEW r \in Request, NEW o \in Op, Load(r, o), ~raced'
  PROVE  Quiet'
<1>1. ~Busy
  BY DEF Load
<1>2. /\ op'[r] = o /\ pc'[r] = FirstStep(o) /\ copy'[r] = row /\ row # NoRow
      /\ \A s \in Request \ {r} : pc'[s] = pc[s]
      /\ UNCHANGED <<row, client, running, pending>>
  BY DEF Load, Fetched, TypeOK, memory
<1>3. Served' \subseteq {r} /\ pending' = {}
  BY <1>1, <1>2, NobodyBehind DEF Served
<1>4. \A s \in Request : Behind(s)' = {}
  BY <1>1, <1>2, NobodyBehind DEF Behind, FirstStep
<1>5. UNION {Behind(s)' : s \in Request} = {}
  BY <1>4
<1>6. Follows({})'
  BY <1>1, <1>2, NobodyBehind DEF Follows
<1>7. pc'[r] # "apply"
  BY <1>2 DEF FirstStep
<1>8. Copied(r)'
  BY <1>2 DEF Copied, Setting
<1> QED BY <1>2, <1>3, <1>5, <1>6, <1>7, <1>8 DEF Quiet, Same

LEMMA QuietEvent ==
  ASSUME TypeOK, Quiet, NEW r \in Request, Event(r), ~raced'
  PROVE  Quiet'
<1>1. ~Busy
  BY DEF Event
<1>2. /\ \A s \in Request : pc'[s] \in {"idle", "done"}
      /\ UNCHANGED <<running, pending>> /\ client = "up"
  BY <1>1, NobodyBehind DEF Event, Goto, TypeOK
<1>3. Served' = {} /\ pending' = {}
  BY <1>1, <1>2, NobodyBehind DEF Served
<1>4. UNION {Behind(s)' : s \in Request} = {}
  BY <1>2 DEF Behind
<1>5. Follows({})'
  <2>1. /\ row' = NoRow <=> row = NoRow
        /\ row # NoRow => \A c \in Setting : row'[c] = row[c]
    BY ConnectedIsNoSetting DEF Event
  <2> QED BY <1>1, <1>2, <2>1, NobodyBehind DEF Follows, Setting
<1> QED BY <1>3, <1>4, <1>5 DEF Quiet

LEMMA QuietStartClient ==
  ASSUME TypeOK, Quiet, NEW cd \in pending, StartClient(cd)
  PROVE  Quiet'
<1>1. UNCHANGED <<row, op, pc, copy, fresh>> /\ pending' \subseteq pending
  BY DEF StartClient
<1>2. /\ Served' = Served
      /\ UNION {Behind(s)' : s \in Request} = UNION {Behind(s) : s \in Request}
  BY <1>1 DEF Served, Behind
<1>3. Follows(UNION {Behind(s) : s \in Request})'
  <2>1. CASE UNCHANGED <<client, running>>
    BY <1>1, <1>2, <2>1 DEF Quiet, Follows
  <2>2. CASE running' = MyClientOf(cd)
    BY <1>1, <2>2 DEF Quiet, Same, Follows, MyClientOf, Setting
  <2> QED BY <2>1, <2>2 DEF StartClient
<1>4. \A s \in Request : Writes(s)' = Writes(s)
  BY <1>1 DEF Writes
<1>5. \A s \in Served : Copied(s) => Copied(s)'
  <2>1. \A s \in Served : HasStarted(s) => HasStarted(s)'
    BY <1>1 DEF HasStarted, StartClient
  <2> QED BY <1>1, <2>1 DEF Copied
<1>6. \A s \in Served' :
        /\ row' # NoRow /\ Copied(s)'
        /\ pc'[s] = "apply" => Same(fresh[s])
        /\ Writes(s)' => pending' = {}
  BY <1>1, <1>2, <1>4, <1>5 DEF Quiet, Served
<1> QED BY <1>1, <1>2, <1>3, <1>6 DEF Quiet, Same

LEMMA OneAtATimeNext ==
  ASSUME TypeOK, InOrder, OneAtATime, [Next]_vars
  PROVE  OneAtATime'
<1> SUFFICES ASSUME ~raced' PROVE Quiet'
  BY DEF OneAtATime
<1>1. ASSUME NEW r \in Request, RequestStep(r)
      PROVE  ~raced /\ (r \in Served \/ Event(r) \/ \E o \in Op : Load(r, o))
  <2>1. r \in Served \/ Event(r) \/ \E o \in Op : Load(r, o)
    BY <1>1 DEF RequestStep, SaveRow, UpdateAdvancedSettings, ReadBack, Apply,
       Ensure, Kill, Signal, Clean, Restart, Forget, DeleteRow, Served
  <2>2. ~raced
    <3>1. CASE Ensure(r) \/ Restart(r)
      BY <3>1 DEF Ensure, Restart, StartInstance
    <3>2. CASE ~(Ensure(r) \/ Restart(r))
      BY <1>1, <3>2 DEF RequestStep, Load, Event, SaveRow, UpdateAdvancedSettings,
         ReadBack, Apply, Kill, Signal, Clean, Forget, DeleteRow,
         Killed, NobodyKilled
    <3> QED BY <3>1, <3>2
  <2> QED BY <2>1, <2>2
<1>2. CASE \E r \in Request : RequestStep(r)
  <2>1. PICK r \in Request : RequestStep(r)
    BY <1>2
  <2>2. Quiet
    BY <1>1, <2>1 DEF OneAtATime
  <2>3. CASE r \in Served
    <3>1. ~Event(r) /\ \A o \in Op : ~Load(r, o)
      BY <2>3 DEF Event, Load, Served
    <3> QED BY <2>1, <2>2, <2>3, <3>1, QuietSaveRow, QuietAdvanced, QuietReadBack,
               QuietApply, QuietEnsure, QuietTeardown, QuietDeleteRow
            DEF RequestStep
  <2> QED BY <1>1, <2>1, <2>2, <2>3, QuietEvent, QuietLoad
<1>3. CASE \E cd \in pending : StartClient(cd)
  BY <1>3, QuietStartClient DEF StartClient, OneAtATime
<1>4. CASE UNCHANGED vars
  <2>1. Quiet
    BY <1>4 DEF vars, OneAtATime
  <2> QED BY <1>4, <2>1 DEF vars, memory, Quiet, Same, Copied, HasStarted, Served,
                                Writes, Behind, Follows
<1> QED BY <1>2, <1>3, <1>4 DEF Next

LEMMA OneAtATimeInit == Init => InOrder /\ OneAtATime
<1> SUFFICES ASSUME Init PROVE InOrder /\ Quiet
  BY DEF OneAtATime
<1>1. Served = {} /\ pending = {}
  BY DEF Init, Served
<1>2. UNION {Behind(s) : s \in Request} = {}
  BY DEF Init, Behind
<1>3. Follows({})
  BY DEF Init, Follows, MyClientOf, Setting
<1> QED BY <1>1, <1>2, <1>3 DEF InOrder, Quiet

(* For any number of requests: as long as they come one at a time, and no  *)
(* supervisor restarts its client with an old row, the client that is      *)
(* connected works with the settings of the row (whatsmeow.go:2580, 2625). *)
THEOREM RunningFollowsRowHolds == Spec => []RunningFollowsRow
<1>1. TypeOK /\ InOrder /\ OneAtATime /\ [Next]_vars => InOrder' /\ OneAtATime'
  BY OrderNext, OneAtATimeNext
<1>2. OneAtATime => RunningFollowsRow
  <2> SUFFICES ASSUME Quiet, ~Busy, client = "up", running # NoClient, row # NoRow
               PROVE  /\ \A c \in Setting : running.instance[c] = row[c]
                      /\ running.webhook = row["webhook"]
                      /\ running.subscriptions = row["events"]
    BY DEF OneAtATime, RunningFollowsRow
  <2> QED BY NobodyBehind DEF Follows
<1> QED BY <1>1, <1>2, OneAtATimeInit, TypeCorrect, PTL DEF Spec

=============================================================================
