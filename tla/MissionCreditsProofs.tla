------------------------ MODULE MissionCreditsProofs ------------------------
(***************************************************************************)
(* Proofs about MissionCredits, for any missions, callers, keys, prices    *)
(* and opening balance.                                                    *)
(***************************************************************************)
EXTENDS MissionCredits, FiniteSetTheorems, TLAPS

(***************************************************************************)
(* The account                                                             *)
(***************************************************************************)

\* A thread between BEGIN EXCLUSIVE and COMMIT is the writer, and has read the
\* balance that is stored.
WriterOK == \A t \in Thread : pc[t] = "commit" => writer = t /\ seen[t] = balance

\* What the label of a caller says about the subject of its request.
CallersOK ==
    \A c \in Caller :
        /\ pc[c] \in {"idle", "begin", "commit", "mark", "credit"}
        /\ pc[c] \in {"begin", "commit"} => about[c] \in Key
        /\ pc[c] = "commit" => about[c] \notin keys
        /\ pc[c] \in {"mark", "credit"} => about[c] \in Mission

LedgerInv == TypeOK /\ BooksBalance /\ WriterOK /\ CallersOK

USE DEF Mission, Key, Thread

LEMMA LedgerInvInit == Init => LedgerInv
<1> SUFFICES ASSUME Init PROVE LedgerInv
    OBVIOUS
<1>1. /\ balance \in Nat /\ earned \in Nat /\ spent \in Nat
      /\ BooksBalance
    BY PriceAssumption DEF Init, BooksBalance
<1>2. missions \in [Mission -> Status]
    BY DEF Init, Status
<1>3. pc \in [Thread -> PC]
    BY DEF Init, PC
<1>4. /\ seen \in [Thread -> Nat]
      /\ debits \in [Mission -> Nat]
      /\ refunds \in [Mission -> Nat]
      /\ recalls \in [Mission -> Nat]
    BY DEF Init
<1>5. about \in [Caller -> Mission \cup Key \cup {Nobody}]
    BY DEF Init
<1>6. TypeOK
    BY <1>1, <1>2, <1>3, <1>4, <1>5 DEF Init, TypeOK
<1>7. \A c \in Caller : pc[c] = "idle"
    BY ThreadAssumption DEF Init
<1>8. \A t \in Thread : pc[t] # "commit"
    BY DEF Init
<1> QED
    BY <1>1, <1>6, <1>7, <1>8 DEF LedgerInv, WriterOK, CallersOK

\* A step that leaves the account, the writer and the requests alone and does
\* not go to a label of callers, nor to "commit", keeps the invariant.
LEMMA MissionFrame ==
    ASSUME LedgerInv, TypeOK',
           NEW m \in Mission, NEW label \in PC \ {"commit"},
           pc' = [pc EXCEPT ![m] = label],
           UNCHANGED <<account, writer, seen, requests>>
    PROVE  LedgerInv'
<1>1. BooksBalance'
    BY DEF LedgerInv, BooksBalance, account
<1>2. \A t \in Thread : pc'[t] = "commit" => pc[t] = "commit"
    BY DEF LedgerInv, TypeOK
<1>3. WriterOK'
    BY <1>2 DEF LedgerInv, WriterOK, account
<1>4. \A c \in Caller : pc'[c] = pc[c]
    BY ThreadAssumption DEF LedgerInv, TypeOK
<1>5. CallersOK'
    BY <1>4 DEF LedgerInv, CallersOK, account, requests
<1> QED
    BY <1>1, <1>3, <1>5 DEF LedgerInv

\* A step that adds credits outside a transaction of another thread.
LEMMA AddFrame ==
    ASSUME LedgerInv, TypeOK',
           NEW t \in Thread, NEW label \in PC \ {"commit"},
           pc' = [pc EXCEPT ![t] = label],
           NEW n \in Nat, Add(n),
           CallersOK'
    PROVE  LedgerInv'
<1>1. BooksBalance'
    BY DEF LedgerInv, TypeOK, BooksBalance, Add
<1>2. \A u \in Thread : pc'[u] # "commit"
    BY ThreadAssumption DEF LedgerInv, TypeOK, WriterOK, Add, Unlocked
<1> QED
    BY <1>1, <1>2 DEF LedgerInv, WriterOK

LEMMA MissionStepsKeepLedger ==
    ASSUME LedgerInv, NEW m \in Mission, MissionStep(m)
    PROVE  LedgerInv'
<1>1. CASE CheckBalance(m)
    <2>1. TypeOK'
        BY <1>1 DEF LedgerInv, TypeOK, CheckBalance, Goto, account, errors, requests, paid, Status, PC
    <2>2. PICK label \in PC \ {"commit"} : pc' = [pc EXCEPT ![m] = label]
        BY <1>1 DEF CheckBalance, Goto, PC
    <2>3. UNCHANGED <<account, writer, seen, requests>>
        BY <1>1 DEF CheckBalance, errors
    <2> QED
        BY <2>1, <2>2, <2>3, MissionFrame
<1>2. CASE Create(m)
    <2>1. TypeOK'
        BY <1>2 DEF LedgerInv, TypeOK, Create, Goto, account, errors, requests, paid, Status, PC
    <2>2. PICK label \in PC \ {"commit"} : pc' = [pc EXCEPT ![m] = label]
        BY <1>2 DEF Create, Goto, PC
    <2>3. UNCHANGED <<account, writer, seen, requests>>
        BY <1>2 DEF Create, errors
    <2> QED
        BY <2>1, <2>2, <2>3, MissionFrame
<1>3. CASE Emit(m)
    <2>1. TypeOK'
        BY <1>3 DEF LedgerInv, TypeOK, Emit, Goto, account, errors, requests, paid, Status, PC
    <2>2. PICK label \in PC \ {"commit"} : pc' = [pc EXCEPT ![m] = label]
        BY <1>3 DEF Emit, Goto, PC
    <2>3. UNCHANGED <<account, writer, seen, requests>>
        BY <1>3 DEF Emit, errors
    <2> QED
        BY <2>1, <2>2, <2>3, MissionFrame
<1>4. CASE Dispatch(m)
    <2>1. TypeOK'
        BY <1>4 DEF LedgerInv, TypeOK, Dispatch, Goto, account, errors, requests, paid, Status, PC
    <2>2. PICK label \in PC \ {"commit"} : pc' = [pc EXCEPT ![m] = label]
        BY <1>4 DEF Dispatch, Goto, PC
    <2>3. UNCHANGED <<account, writer, seen, requests>>
        BY <1>4 DEF Dispatch, errors
    <2> QED
        BY <2>1, <2>2, <2>3, MissionFrame
<1>5. CASE DispatchFails(m)
    <2>1. TypeOK'
        BY <1>5 DEF LedgerInv, TypeOK, DispatchFails, Goto, account, errors, requests, paid, Status, PC
    <2>2. PICK label \in PC \ {"commit"} : pc' = [pc EXCEPT ![m] = label]
        BY <1>5 DEF DispatchFails, Goto, PC
    <2>3. UNCHANGED <<account, writer, seen, requests>>
        BY <1>5 DEF DispatchFails, errors
    <2> QED
        BY <2>1, <2>2, <2>3, MissionFrame
<1>6. CASE StartRead(m)
    <2>1. TypeOK'
        BY <1>6 DEF LedgerInv, TypeOK, StartRead, Goto, account, errors, requests, paid, Status, PC
    <2>2. PICK label \in PC \ {"commit"} : pc' = [pc EXCEPT ![m] = label]
        BY <1>6 DEF StartRead, Goto, PC
    <2>3. UNCHANGED <<account, writer, seen, requests>>
        BY <1>6 DEF StartRead, errors
    <2> QED
        BY <2>1, <2>2, <2>3, MissionFrame
<1>16. CASE StartSave(m)
    <2>1. TypeOK'
        BY <1>16 DEF LedgerInv, TypeOK, StartSave, Goto, account, errors, requests, paid, Status, PC
    <2>2. PICK label \in PC \ {"commit"} : pc' = [pc EXCEPT ![m] = label]
        BY <1>16 DEF StartSave, Goto, PC
    <2>3. UNCHANGED <<account, writer, seen, requests>>
        BY <1>16 DEF StartSave, errors
    <2> QED
        BY <2>1, <2>2, <2>3, MissionFrame
<1>7. CASE Execute(m)
    <2>1. TypeOK'
        BY <1>7 DEF LedgerInv, TypeOK, Execute, Goto, account, errors, requests, paid, Status, PC
    <2>2. PICK label \in PC \ {"commit"} : pc' = [pc EXCEPT ![m] = label]
        BY <1>7 DEF Execute, Goto, PC
    <2>3. UNCHANGED <<account, writer, seen, requests>>
        BY <1>7 DEF Execute, errors
    <2> QED
        BY <2>1, <2>2, <2>3, MissionFrame
<1>8. CASE Complete(m)
    <2>1. TypeOK'
        BY <1>8 DEF LedgerInv, TypeOK, Complete, Goto, account, errors, requests, paid, Status, PC
    <2>2. PICK label \in PC \ {"commit"} : pc' = [pc EXCEPT ![m] = label]
        BY <1>8 DEF Complete, Goto, PC
    <2>3. UNCHANGED <<account, writer, seen, requests>>
        BY <1>8 DEF Complete, errors
    <2> QED
        BY <2>1, <2>2, <2>3, MissionFrame
<1>9. CASE Fail(m)
    <2>1. TypeOK'
        BY <1>9 DEF LedgerInv, TypeOK, Fail, Goto, account, errors, requests, paid, Status, PC
    <2>2. PICK label \in PC \ {"commit"} : pc' = [pc EXCEPT ![m] = label]
        BY <1>9 DEF Fail, Goto, PC
    <2>3. UNCHANGED <<account, writer, seen, requests>>
        BY <1>9 DEF Fail, errors
    <2> QED
        BY <2>1, <2>2, <2>3, MissionFrame
<1>10. CASE Reload(m)
    <2>1. TypeOK'
        BY <1>10 DEF LedgerInv, TypeOK, Reload, Goto, account, errors, requests, paid, Status, PC
    <2>2. PICK label \in PC \ {"commit"} : pc' = [pc EXCEPT ![m] = label]
        BY <1>10 DEF Reload, Goto, PC
    <2>3. UNCHANGED <<account, writer, seen, requests>>
        BY <1>10 DEF Reload, errors
    <2> QED
        BY <2>1, <2>2, <2>3, MissionFrame
<1>11. CASE Raises(m)
    <2>1. AfterRaise(m) \in PC \ {"commit"}
        BY <1>11 DEF Raises, AfterRaise, PC
    <2>2. TypeOK'
        BY <1>11, <2>1 DEF LedgerInv, TypeOK, Raises, Goto, account, errors, requests, paid
    <2>3. pc' = [pc EXCEPT ![m] = AfterRaise(m)]
        BY <1>11 DEF Raises, Goto
    <2>4. UNCHANGED <<account, writer, seen, requests>>
        BY <1>11 DEF Raises
    <2> QED
        BY <2>1, <2>2, <2>3, <2>4, MissionFrame
<1>12. CASE Refund(m)
    <2>1. Price[m] \in Nat
        BY PriceAssumption
    <2>2. TypeOK'
        BY <1>12, <2>1 DEF LedgerInv, TypeOK, Refund, Add, Goto, errors, requests, PC
    <2>3. pc' = [pc EXCEPT ![m] = "reload"] /\ Add(Price[m])
        BY <1>12 DEF Refund, Goto
    <2>4. \A c \in Caller : pc'[c] = pc[c]
        BY <2>3, ThreadAssumption DEF LedgerInv, TypeOK
    <2>5. CallersOK'
        BY <1>12, <2>3, <2>4 DEF LedgerInv, CallersOK, Refund, Add, requests
    <2>6. "reload" \in PC \ {"commit"}
        BY DEF PC
    <2> QED
        BY <2>1, <2>2, <2>3, <2>5, <2>6, AddFrame
<1>13. CASE RefundUnmade(m)
    <2>1. Price[m] \in Nat
        BY PriceAssumption
    <2>2. TypeOK'
        BY <1>13, <2>1 DEF LedgerInv, TypeOK, RefundUnmade, Add, Goto, errors, requests, PC
    <2>3. pc' = [pc EXCEPT ![m] = "ended"] /\ Add(Price[m])
        BY <1>13 DEF RefundUnmade, Goto
    <2>4. \A c \in Caller : pc'[c] = pc[c]
        BY <2>3, ThreadAssumption DEF LedgerInv, TypeOK
    <2>5. CallersOK'
        BY <1>13, <2>3, <2>4 DEF LedgerInv, CallersOK, RefundUnmade, Add, requests
    <2>6. "ended" \in PC \ {"commit"}
        BY DEF PC
    <2> QED
        BY <2>1, <2>2, <2>3, <2>5, <2>6, AddFrame
<1>14. CASE DeductBegin(m)
    <2>1. TypeOK'
        BY <1>14 DEF LedgerInv, TypeOK, DeductBegin, BeginExclusive, Goto, account, errors, requests, paid, PC
    <2>2. \A t \in Thread : pc'[t] = "commit" => t = m
        BY <1>14, ThreadAssumption
           DEF LedgerInv, TypeOK, WriterOK, DeductBegin, BeginExclusive, Unlocked, Goto
    <2>3. WriterOK'
        BY <1>14, <2>2 DEF LedgerInv, TypeOK, WriterOK, DeductBegin, BeginExclusive, account
    <2>4. \A c \in Caller : pc'[c] = pc[c]
        BY <1>14, ThreadAssumption DEF LedgerInv, TypeOK, DeductBegin, Goto
    <2>5. CallersOK'
        BY <1>14, <2>4 DEF LedgerInv, CallersOK, DeductBegin, account, requests
    <2>6. BooksBalance'
        BY <1>14 DEF LedgerInv, BooksBalance, DeductBegin, account
    <2> QED
        BY <2>1, <2>3, <2>5, <2>6 DEF LedgerInv
<1>15. CASE DeductCommit(m)
    <2>1. Price[m] \in Nat
        BY PriceAssumption
    <2>2. writer = m /\ seen[m] = balance
        BY <1>15 DEF LedgerInv, WriterOK, DeductCommit
    <2>3. \/ UNCHANGED account
          \/ /\ balance >= Price[m]
             /\ balance' = balance - Price[m]
             /\ spent' = spent + Price[m]
             /\ UNCHANGED <<earned, keys>>
        BY <1>15, <2>2 DEF DeductCommit, Covered, Deduct
    <2>4. BooksBalance' /\ balance' \in Nat /\ spent' \in Nat /\ earned' \in Nat
        BY <2>1, <2>3 DEF LedgerInv, TypeOK, BooksBalance, account
    <2>5. pc' \in [Thread -> PC] /\ debits' \in [Mission -> Nat]
        BY <1>15 DEF LedgerInv, TypeOK, DeductCommit, Goto, PC
    <2>6. seen' \in [Thread -> Nat] /\ writer' = Nobody
        BY <1>15 DEF LedgerInv, TypeOK, DeductCommit, EndTransaction
    <2>7. keys' = keys /\ UNCHANGED <<missions, errors, requests, refunds, recalls>>
        BY <1>15, <2>3 DEF DeductCommit, account
    <2>8. TypeOK'
        BY <2>4, <2>5, <2>6, <2>7 DEF LedgerInv, TypeOK, errors, requests
    <2>9. \A t \in Thread : pc'[t] # "commit"
        BY <1>15, <2>2 DEF LedgerInv, TypeOK, WriterOK, DeductCommit, Goto
    <2>10. \A c \in Caller : pc'[c] = pc[c]
        BY <1>15, ThreadAssumption DEF LedgerInv, TypeOK, DeductCommit, Goto
    <2>11. CallersOK'
        BY <2>7, <2>10 DEF LedgerInv, CallersOK, requests
    <2> QED
        BY <2>4, <2>8, <2>9, <2>11 DEF LedgerInv, WriterOK
<1> QED
    BY <1>1, <1>2, <1>3, <1>4, <1>5, <1>6, <1>7, <1>8, <1>9, <1>10, <1>11, <1>12, <1>13, <1>14, <1>15, <1>16 DEF MissionStep

LEMMA CallerStepsKeepLedger ==
    ASSUME LedgerInv, NEW c \in Caller, CallerStep(c)
    PROVE  LedgerInv'
<1>0. c \in Thread /\ c \notin Mission /\ about[c] \in Mission \cup Key \cup {Nobody}
    BY ThreadAssumption DEF LedgerInv, TypeOK
<1>1. CASE KeyedBegin(c)
    <2>1. CASE about[c] \in keys
        <3>1. TypeOK'
            BY <1>1, <2>1, <1>0 DEF LedgerInv, TypeOK, KeyedBegin, Return, Goto, account, errors, paid, PC
        <3>2. WriterOK'
            BY <1>1, <2>1, <1>0 DEF LedgerInv, TypeOK, WriterOK, KeyedBegin, Return, Goto, account
        <3>3. CallersOK'
            BY <1>1, <2>1, <1>0 DEF LedgerInv, TypeOK, CallersOK, KeyedBegin, Return, Goto, account
        <3>4. BooksBalance'
            BY <1>1 DEF LedgerInv, BooksBalance, KeyedBegin, account
        <3> QED
            BY <3>1, <3>2, <3>3, <3>4 DEF LedgerInv
    <2>2. CASE about[c] \notin keys
        <3>1. TypeOK'
            BY <1>1, <2>2, <1>0
               DEF LedgerInv, TypeOK, KeyedBegin, BeginExclusive, Goto, account, errors, requests, paid, PC
        <3>2. \A t \in Thread : pc'[t] = "commit" => t = c
            BY <1>1, <2>2, <1>0, ThreadAssumption
               DEF LedgerInv, TypeOK, WriterOK, KeyedBegin, BeginExclusive, Unlocked, Goto
        <3>3. WriterOK'
            BY <1>1, <2>2, <3>2, <1>0 DEF LedgerInv, TypeOK, WriterOK, KeyedBegin, BeginExclusive, account
        <3>4. CallersOK'
            BY <1>1, <2>2, <1>0 DEF LedgerInv, TypeOK, CallersOK, KeyedBegin, Goto, account, requests
        <3>5. BooksBalance'
            BY <1>1 DEF LedgerInv, BooksBalance, KeyedBegin, account
        <3> QED
            BY <3>1, <3>3, <3>4, <3>5 DEF LedgerInv
    <2> QED
        BY <2>1, <2>2
<1>2. CASE KeyedCommit(c)
    <2> DEFINE k == about[c]
    <2>1. k \in Key /\ Price[k] \in Nat
        BY <1>2, PriceAssumption DEF LedgerInv, CallersOK, KeyedCommit
    <2>2. writer = c /\ seen[c] = balance
        BY <1>2, <1>0 DEF LedgerInv, WriterOK, KeyedCommit
    <2>3. /\ balance' \in Nat /\ earned' \in Nat /\ spent' \in Nat
          /\ BooksBalance'
        BY <1>2, <2>1, <2>2
           DEF LedgerInv, TypeOK, BooksBalance, KeyedCommit, AddCredits, Covered, Deduct, account
    <2>4. keys' \subseteq Key
        BY <1>2, <2>1 DEF LedgerInv, TypeOK, KeyedCommit, RecordKey, account
    <2>5. pc' = [pc EXCEPT ![c] = "idle"] /\ about' = [about EXCEPT ![c] = Nobody] /\ calls' = calls
        BY <1>2 DEF KeyedCommit, Return, Goto
    <2>6. writer' = Nobody /\ seen' = [seen EXCEPT ![c] = 0]
        BY <1>2 DEF KeyedCommit, EndTransaction
    <2>7. UNCHANGED <<missions, errors, paid>>
        BY <1>2 DEF KeyedCommit
    <2>8. TypeOK'
        BY <2>3, <2>4, <2>5, <2>6, <2>7, <1>0 DEF LedgerInv, TypeOK, errors, paid, PC
    <2>9. \A t \in Thread : pc'[t] # "commit"
        BY <2>2, <2>5, <1>0, <1>2 DEF LedgerInv, TypeOK, WriterOK, KeyedCommit
    <2>10. CallersOK'
        BY <2>5, <2>9, <1>0 DEF LedgerInv, TypeOK, CallersOK
    <2> QED
        BY <2>3, <2>8, <2>9, <2>10 DEF LedgerInv, WriterOK
<1>3. CASE Mark(c)
    <2>0. recalls' \in [Mission -> Nat] /\ missions' \in [Mission -> Status]
        BY <1>3 DEF LedgerInv, TypeOK, CallersOK, Mark, Status
    <2>1. TypeOK'
        BY <1>3, <1>0, <2>0 DEF LedgerInv, TypeOK, Mark, Goto, account, errors, requests, PC
    <2>2. pc' = [pc EXCEPT ![c] = "credit"] /\ UNCHANGED <<account, writer, seen, requests>>
        BY <1>3 DEF Mark, Goto
    <2>3. WriterOK'
        BY <2>2, <1>0 DEF LedgerInv, TypeOK, WriterOK, account
    <2>4. CallersOK'
        BY <1>3, <2>2, <1>0 DEF LedgerInv, TypeOK, CallersOK, Mark, account, requests
    <2>5. BooksBalance'
        BY <2>2 DEF LedgerInv, BooksBalance, account
    <2> QED
        BY <2>1, <2>3, <2>4, <2>5 DEF LedgerInv
<1>4. CASE CreditBack(c)
    <2>1. about[c] \in Mission /\ Price[about[c]] \in Nat
        BY <1>4, PriceAssumption DEF LedgerInv, CallersOK, CreditBack
    <2>2. pc' = [pc EXCEPT ![c] = "idle"] /\ about' = [about EXCEPT ![c] = Nobody] /\ calls' = calls
        BY <1>4 DEF CreditBack, Return, Goto
    <2>3. Add(Price[about[c]])
        BY <1>4 DEF CreditBack
    <2>4. TypeOK'
        BY <1>4, <2>1, <2>2, <2>3, <1>0 DEF LedgerInv, TypeOK, CreditBack, Add, errors, PC
    <2>5. CallersOK'
        BY <2>2, <2>3, <1>0 DEF LedgerInv, TypeOK, CallersOK, Add
    <2>6. "idle" \in PC \ {"commit"}
        BY DEF PC
    <2> QED
        BY <2>1, <2>2, <2>3, <2>4, <2>5, <2>6, <1>0, AddFrame
<1>5. CASE CallerRaises(c)
    <2>1. TypeOK'
        BY <1>5, <1>0 DEF LedgerInv, TypeOK, CallerRaises, Return, Goto, account, paid, PC
    <2>2. WriterOK'
        BY <1>5, <1>0 DEF LedgerInv, TypeOK, WriterOK, CallerRaises, Return, Goto, account
    <2>3. CallersOK'
        BY <1>5, <1>0 DEF LedgerInv, TypeOK, CallersOK, CallerRaises, Return, Goto, account
    <2>4. BooksBalance'
        BY <1>5 DEF LedgerInv, BooksBalance, CallerRaises, account
    <2> QED
        BY <2>1, <2>2, <2>3, <2>4 DEF LedgerInv
<1> QED
    BY <1>1, <1>2, <1>3, <1>4, <1>5 DEF CallerStep

LEMMA RequestsKeepLedger ==
    ASSUME LedgerInv, NEW c \in Caller, Activate(c) \/ McuDeduct(c) \/ Cancel(c)
    PROVE  LedgerInv'
<1>1. PICK subject, label :
          /\ Request(c, subject, label)
          /\ \/ subject \in Key /\ label = "begin"
             \/ subject \in Mission /\ label = "mark"
    BY DEF Activate, McuDeduct, Cancel
<1>2. c \in Thread
    OBVIOUS
<1>3. TypeOK'
    BY <1>1, <1>2 DEF LedgerInv, TypeOK, Request, Goto, account, errors, paid, PC
<1>4. WriterOK'
    BY <1>1, <1>2 DEF LedgerInv, TypeOK, WriterOK, Request, Goto, account
<1>5. CallersOK'
    BY <1>1, <1>2 DEF LedgerInv, TypeOK, CallersOK, Request, Goto, account
<1>6. BooksBalance'
    BY <1>1 DEF LedgerInv, BooksBalance, Request, account
<1> QED
    BY <1>3, <1>4, <1>5, <1>6 DEF LedgerInv

LEMMA DeathsKeepLedger ==
    ASSUME LedgerInv, NEW t \in Thread, Dies(t)
    PROVE  LedgerInv'
<1>1. TypeOK'
    BY ThreadAssumption DEF LedgerInv, TypeOK, Dies, Goto, account, paid, PC
<1>2. WriterOK'
    BY ThreadAssumption DEF LedgerInv, TypeOK, WriterOK, Dies, Goto, account
<1>3. CallersOK'
    BY ThreadAssumption DEF LedgerInv, TypeOK, CallersOK, Dies, Goto, account
<1>4. BooksBalance'
    BY DEF LedgerInv, BooksBalance, Dies, account
<1> QED
    BY <1>1, <1>2, <1>3, <1>4 DEF LedgerInv

LEMMA LedgerInvNext == LedgerInv /\ [Next]_vars => LedgerInv'
<1> SUFFICES ASSUME LedgerInv, [Next]_vars PROVE LedgerInv'
    OBVIOUS
<1>1. CASE \E m \in Mission : MissionStep(m)
    BY <1>1, MissionStepsKeepLedger
<1>2. CASE \E c \in Caller : CallerStep(c)
    BY <1>2, CallerStepsKeepLedger
<1>3. CASE \E c \in Caller : Activate(c) \/ McuDeduct(c) \/ Cancel(c)
    BY <1>3, RequestsKeepLedger
<1>4. CASE \E t \in Thread : Dies(t)
    BY <1>4, DeathsKeepLedger
<1>5. CASE UNCHANGED vars
    BY <1>5 DEF vars, account, errors, requests, paid, LedgerInv, TypeOK, BooksBalance, WriterOK, CallersOK
<1> QED
    BY <1>1, <1>2, <1>3, <1>4, <1>5 DEF Next

LEMMA LedgerInvHolds == Spec => []LedgerInv
BY LedgerInvInit, LedgerInvNext, PTL DEF Spec

\* The variables keep their types, for any number of missions and callers.
THEOREM TypeCorrect == Spec => []TypeOK
<1>1. LedgerInv => TypeOK
    BY DEF LedgerInv
<1> QED
    BY <1>1, LedgerInvHolds, PTL

\* Every credit of the account was credited and not spent: the balance a
\* transaction read is the one it replaces.
THEOREM BooksBalanceHolds == Spec => []BooksBalance
<1>1. LedgerInv => BooksBalance
    BY DEF LedgerInv
<1> QED
    BY <1>1, LedgerInvHolds, PTL

(***************************************************************************)
(* The refinement                                                          *)
(***************************************************************************)

LEMMA LedgerInitMapped == Init => Ledger!LedgerInit
BY PriceAssumption DEF Init, Ledger!LedgerInit

LEMMA AddIsCredit ==
    ASSUME LedgerInv, NEW m \in Mission, Add(Price[m])
    PROVE  Ledger!LedgerNext
<1>1. Price[m] \in {Price[q] : q \in Mission}
    OBVIOUS
<1>2. Ledger!Credit(Price[m], {})
    BY DEF Add, Ledger!Credit
<1> QED
    BY <1>1, <1>2 DEF Ledger!LedgerNext

LEMMA StepsMapped ==
    ASSUME LedgerInv, [Next]_vars
    PROVE  [Ledger!LedgerNext]_(Ledger!ledger)
<1>1. CASE UNCHANGED account
    BY <1>1 DEF account, Ledger!ledger
<1>2. CASE \E m \in Mission : DeductCommit(m)
    <2>1. PICK m \in Mission : DeductCommit(m)
        BY <1>2
    <2>2. seen[m] = balance
        BY <2>1 DEF LedgerInv, WriterOK, DeductCommit
    <2>3. CASE Covered(m, Price[m])
        <3>1. /\ balance >= Price[m]
              /\ balance' = balance - Price[m]
              /\ spent' = spent + Price[m]
              /\ UNCHANGED <<earned, keys>>
            BY <2>1, <2>2, <2>3 DEF DeductCommit, Covered, Deduct
        <3>2. Price[m] \in Nat /\ balance \in Nat
            BY PriceAssumption DEF LedgerInv, TypeOK
        <3>3. Ledger!Debit(Price[m], {})
            BY <3>1, <3>2 DEF Ledger!Debit
        <3>4. Price[m] \in {Price[q] : q \in Mission}
            OBVIOUS
        <3> QED
            BY <3>3, <3>4 DEF Ledger!LedgerNext
    <2>4. CASE ~Covered(m, Price[m])
        BY <2>1, <2>4, <1>1 DEF DeductCommit
    <2> QED
        BY <2>3, <2>4
<1>3. CASE \E m \in Mission : Refund(m) \/ RefundUnmade(m)
    BY <1>3, AddIsCredit DEF Refund, RefundUnmade
<1>4. CASE \E c \in Caller : CreditBack(c)
    <2>1. PICK c \in Caller : CreditBack(c)
        BY <1>4
    <2>2. about[c] \in Mission /\ Add(Price[about[c]])
        BY <2>1 DEF LedgerInv, CallersOK, CreditBack
    <2> QED
        BY <2>2, AddIsCredit
<1>5. CASE \E c \in Caller : KeyedCommit(c)
    <2>1. PICK c \in Caller : KeyedCommit(c)
        BY <1>5
    <2> DEFINE k == about[c]
    <2>2. seen[c] = balance /\ k \in Key /\ {k} \cap keys = {}
        BY <2>1 DEF LedgerInv, WriterOK, CallersOK, KeyedCommit
    <2>3. Price[k] \in Nat /\ balance \in Nat
        BY <2>2, PriceAssumption DEF LedgerInv, TypeOK
    <2>4. CASE AddCredits(c, Price[k]) /\ RecordKey(k)
        <3>1. Ledger!Credit(Price[k], {k})
            BY <2>2, <2>4 DEF AddCredits, RecordKey, Ledger!Credit
        <3> QED
            BY <2>2, <3>1 DEF Ledger!LedgerNext
    <2>5. CASE Covered(c, Price[k]) /\ Deduct(c, Price[k]) /\ RecordKey(k)
        <3>1. Ledger!Debit(Price[k], {k})
            BY <2>2, <2>3, <2>5 DEF Covered, Deduct, RecordKey, Ledger!Debit
        <3> QED
            BY <2>2, <3>1 DEF Ledger!LedgerNext
    <2> QED
        BY <2>1, <2>4, <2>5, <1>1 DEF KeyedCommit
<1>6. CASE \E m \in Mission : MissionStep(m)
    <2>1. PICK m \in Mission : MissionStep(m)
        BY <1>6
    <2>2. \/ DeductCommit(m) \/ Refund(m) \/ RefundUnmade(m) \/ UNCHANGED account
        BY <2>1 DEF MissionStep, CheckBalance, DeductBegin, Create, Emit, Dispatch, DispatchFails,
                    StartRead, StartSave, Execute, Complete, Fail, Reload, Raises
    <2> QED
        BY <2>2, <1>1, <1>2, <1>3
<1>7. CASE \E c \in Caller : CallerStep(c) \/ Activate(c) \/ McuDeduct(c) \/ Cancel(c)
    <2>1. PICK c \in Caller : CallerStep(c) \/ Activate(c) \/ McuDeduct(c) \/ Cancel(c)
        BY <1>7
    <2>2. \/ CreditBack(c) \/ KeyedCommit(c) \/ UNCHANGED account
        BY <2>1 DEF CallerStep, KeyedBegin, Mark, CallerRaises, Activate, McuDeduct, Cancel, Request
    <2> QED
        BY <2>2, <1>1, <1>4, <1>5
<1>8. CASE \E t \in Thread : Dies(t)
    BY <1>8, <1>1 DEF Dies
<1>9. CASE UNCHANGED vars
    BY <1>9, <1>1 DEF vars
<1> QED
    BY <1>6, <1>7, <1>8, <1>9 DEF Next

\* The credit store under any interleaving of missions and callers, with calls
\* that raise and threads that die, is a ledger of whole transactions, each key
\* used once and no debit beyond the balance.
THEOREM LedgerImplemented == Spec => ImplementsLedger
<1>1. LedgerInv /\ [Next]_vars => [Ledger!LedgerNext]_(Ledger!ledger)
    BY StepsMapped
<1> QED
    BY <1>1, LedgerInvHolds, LedgerInitMapped, PTL DEF Spec, ImplementsLedger, Ledger!LedgerSpec

(***************************************************************************)
(* What is open is paid for                                                *)
(***************************************************************************)

\* Before its task fails or is over, a mission is not paid back by its thread.
Underway == {"new", "begin", "commit", "create", "dispatch", "emit", "start", "save", "started",
             "execute", "complete"}

Open(m) == missions[m] \in {"queued", "running", "completed"}

\* The callers that have marked m as cancelled and not yet paid it back.
Recalling(m) == {c \in Caller : pc[c] = "credit" /\ about[c] = m}

\* Every cancellation that marked m pays back once, and its own thread n times.
RecallsCover(m, n) == refunds[m] + Cardinality(Recalling(m)) <= recalls[m] + n

\* What the label of a mission's thread says about its status and the payments.
PaidAt(m) ==
    /\ pc[m] \in {"new", "begin", "commit", "refused"} =>
           missions[m] = "absent" /\ debits[m] = 0 /\ refunds[m] = 0
    /\ pc[m] = "create" => missions[m] = "absent" /\ debits[m] = 1 /\ refunds[m] = 0
    /\ pc[m] = "unmade" => missions[m] = "absent"
    /\ pc[m] \in {"emit", "start", "save", "started", "execute", "complete"} => debits[m] = 1
    /\ pc[m] \in {"emit", "start", "save", "started", "execute", "complete", "fail", "refund", "reload"} =>
           m \in Api
    /\ pc[m] = "refund" => missions[m] \in {"failed", "cancelled"}
    /\ Open(m) => debits[m] = 1 /\ (m \in Served => refunds[m] = 0)
    /\ pc[m] \in Underway \/ Open(m) => RecallsCover(m, 0)

\* A mission that is being cancelled exists.  One of MissionService, which no
\* thread reopens, is closed before the credits are added.
CancelOK ==
    \A c \in Caller :
        /\ pc[c] \in {"mark", "credit"} => missions[about[c]] # "absent"
        /\ pc[c] = "credit" /\ about[c] \in Served => missions[about[c]] \in {"cancelled", "failed"}

PaidInv == (\A m \in Mission : PaidAt(m)) /\ CancelOK

LEMMA RecallingCount ==
    ASSUME NEW m
    PROVE  IsFiniteSet(Recalling(m)) /\ Cardinality(Recalling(m)) \in Nat
<1>1. Recalling(m) \subseteq Caller
    BY DEF Recalling
<1> QED
    BY <1>1, ThreadAssumption, FS_Subset, FS_CardinalityType

\* What callers do, or their death, never pays back more than was recalled.
LEMMA CallersPayBackOnce ==
    ASSUME LedgerInv, NEW m \in Mission, NEW n \in Nat, RecallsCover(m, n),
           \/ \E c \in Caller : CallerStep(c) \/ Activate(c) \/ McuDeduct(c) \/ Cancel(c)
           \/ \E t \in Thread : Dies(t)
    PROVE  RecallsCover(m, n)'
<1>0. /\ refunds[m] \in Nat /\ recalls[m] \in Nat
      /\ IsFiniteSet(Recalling(m)) /\ Cardinality(Recalling(m)) \in Nat
      /\ refunds[m] + Cardinality(Recalling(m)) <= recalls[m] + n
    BY RecallingCount DEF LedgerInv, TypeOK, RecallsCover
<1>1. CASE \E c \in Caller : Mark(c)
    <2>1. PICK c \in Caller : Mark(c)
        BY <1>1
    <2>2. /\ pc[c] = "mark" /\ pc' = [pc EXCEPT ![c] = "credit"]
          /\ about' = about /\ refunds' = refunds
          /\ recalls' = [recalls EXCEPT ![about[c]] = @ + 1]
        BY <2>1 DEF Mark, Goto, requests
    <2>3. CASE about[c] = m
        <3>1. Recalling(m)' = Recalling(m) \cup {c} /\ c \notin Recalling(m)
            BY <2>2, <2>3 DEF LedgerInv, TypeOK, Recalling
        <3>2. Cardinality(Recalling(m)') = Cardinality(Recalling(m)) + 1
            BY <3>1, <1>0, FS_AddElement
        <3>3. refunds'[m] = refunds[m] /\ recalls'[m] = recalls[m] + 1
            BY <2>2, <2>3 DEF LedgerInv, TypeOK
        <3> QED
            BY <1>0, <3>2, <3>3 DEF RecallsCover
    <2>4. CASE about[c] # m
        <3>1. Recalling(m)' = Recalling(m)
            BY <2>2, <2>4 DEF LedgerInv, TypeOK, Recalling
        <3>2. refunds'[m] = refunds[m] /\ recalls'[m] = recalls[m]
            BY <2>2, <2>4 DEF LedgerInv, TypeOK
        <3> QED
            BY <1>0, <3>1, <3>2 DEF RecallsCover
    <2> QED
        BY <2>3, <2>4
<1>2. CASE \E c \in Caller : CreditBack(c)
    <2>1. PICK c \in Caller : CreditBack(c)
        BY <1>2
    <2>2. /\ pc[c] = "credit" /\ pc' = [pc EXCEPT ![c] = "idle"]
          /\ about' = [about EXCEPT ![c] = Nobody] /\ recalls' = recalls
          /\ refunds' = [refunds EXCEPT ![about[c]] = @ + 1]
        BY <2>1 DEF CreditBack, Return, Goto
    <2>3. CASE about[c] = m
        <3>1. Recalling(m)' = Recalling(m) \ {c} /\ c \in Recalling(m)
            BY <2>2, <2>3 DEF LedgerInv, TypeOK, Recalling
        <3>2. Cardinality(Recalling(m)') = Cardinality(Recalling(m)) - 1
            BY <3>1, <1>0, FS_RemoveElement
        <3>3. refunds'[m] = refunds[m] + 1 /\ recalls'[m] = recalls[m]
            BY <2>2, <2>3 DEF LedgerInv, TypeOK
        <3> QED
            BY <1>0, <3>2, <3>3 DEF RecallsCover
    <2>4. CASE about[c] # m
        <3>1. Recalling(m)' = Recalling(m)
            BY <2>2, <2>4 DEF LedgerInv, TypeOK, Recalling
        <3>2. refunds'[m] = refunds[m] /\ recalls'[m] = recalls[m]
            BY <2>2, <2>4 DEF LedgerInv, TypeOK
        <3> QED
            BY <1>0, <3>1, <3>2 DEF RecallsCover
    <2> QED
        BY <2>3, <2>4
<1>3. ASSUME refunds' = refunds, recalls' = recalls, Recalling(m)' \subseteq Recalling(m)
      PROVE  RecallsCover(m, n)'
    <2>1. Cardinality(Recalling(m)') \in Nat /\ Cardinality(Recalling(m)') <= Cardinality(Recalling(m))
        BY <1>0, <1>3, FS_Subset, FS_CardinalityType
    <2> QED
        BY <1>0, <1>3, <2>1 DEF RecallsCover
<1>4. CASE \E c \in Caller : KeyedBegin(c) \/ KeyedCommit(c) \/ CallerRaises(c)
    <2>1. PICK c \in Caller : KeyedBegin(c) \/ KeyedCommit(c) \/ CallerRaises(c)
        BY <1>4
    <2>2. /\ \A d \in Caller \ {c} : pc'[d] = pc[d] /\ about'[d] = about[d]
          /\ pc'[c] \in {"idle", "commit"} /\ refunds' = refunds /\ recalls' = recalls
        BY <2>1 DEF LedgerInv, TypeOK, KeyedBegin, KeyedCommit, CallerRaises, Return, Goto, requests, paid
    <2> QED
        BY <1>3, <2>2 DEF Recalling
<1>5. CASE \E c \in Caller : Activate(c) \/ McuDeduct(c) \/ Cancel(c)
    <2>1. PICK c \in Caller, subject \in Mission \cup Key, label \in {"begin", "mark"} :
              Request(c, subject, label)
        BY <1>5 DEF Activate, McuDeduct, Cancel
    <2>2. /\ \A d \in Caller \ {c} : pc'[d] = pc[d] /\ about'[d] = about[d]
          /\ pc'[c] = label /\ refunds' = refunds /\ recalls' = recalls
        BY <2>1 DEF LedgerInv, TypeOK, Request, Goto, paid
    <2> QED
        BY <1>3, <2>2 DEF Recalling
<1>6. CASE \E t \in Thread : Dies(t)
    <2>1. PICK t \in Thread : Dies(t)
        BY <1>6
    <2>2. /\ \A d \in Caller \ {t} : pc'[d] = pc[d] /\ about'[d] = about[d]
          /\ pc'[t] \in {"dead", "idle"} /\ refunds' = refunds /\ recalls' = recalls
        BY <2>1 DEF LedgerInv, TypeOK, Dies, Goto, paid
    <2> QED
        BY <1>3, <2>2 DEF Recalling
<1> QED
    BY <1>1, <1>2, <1>4, <1>5, <1>6 DEF CallerStep

LEMMA PaidInvInit == Init => PaidInv
<1> SUFFICES ASSUME Init PROVE PaidInv
    OBVIOUS
<1>1. \A m \in Mission : pc[m] = "new" /\ missions[m] = "absent" /\ debits[m] = 0 /\ refunds[m] = 0
    BY DEF Init
<1>2. \A c \in Caller : pc[c] = "idle"
    BY ThreadAssumption DEF Init
<1>3. ASSUME NEW m \in Mission PROVE RecallsCover(m, 0)
    <2>1. Recalling(m) = {}
        BY <1>2 DEF Recalling
    <2>2. Cardinality(Recalling(m)) = 0
        BY <2>1, FS_EmptySet
    <2>3. refunds[m] = 0 /\ recalls[m] = 0
        BY DEF Init
    <2> QED
        BY <2>2, <2>3 DEF RecallsCover
<1> QED
    BY <1>1, <1>2, <1>3 DEF PaidInv, PaidAt, CancelOK, Open

\* A step of a mission's thread leaves what callers owe alone, and pays back
\* only in Refund and RefundUnmade.
LEMMA MissionStepCover ==
    ASSUME LedgerInv, NEW m \in Mission, MissionStep(m)
    PROVE  /\ \A q \in Mission, n \in Nat :
                  RecallsCover(q, n) /\ refunds'[q] = refunds[q] => RecallsCover(q, n)'
           /\ \A q \in Mission : RecallsCover(q, 0) /\ refunds'[q] = refunds[q] + 1 => RecallsCover(q, 1)'
           /\ \A q \in Mission \ {m} : refunds'[q] = refunds[q]
           /\ ~ (Refund(m) \/ RefundUnmade(m)) => refunds'[m] = refunds[m]
           /\ Refund(m) \/ RefundUnmade(m) => refunds'[m] = refunds[m] + 1
<1>1. \A c \in Caller : pc'[c] = pc[c] /\ about'[c] = about[c]
    BY ThreadAssumption
       DEF LedgerInv, TypeOK, MissionStep, CheckBalance, DeductBegin, DeductCommit, Create, Emit, Dispatch,
           DispatchFails, StartRead, StartSave, Execute, Complete, Fail, Refund, Reload, RefundUnmade, Raises, Goto, requests
<1>2. recalls' = recalls
    BY DEF MissionStep, CheckBalance, DeductBegin, DeductCommit, Create, Emit, Dispatch,
           DispatchFails, StartRead, StartSave, Execute, Complete, Fail, Refund, Reload, RefundUnmade, Raises, paid
<1>3. ASSUME NEW q \in Mission PROVE Recalling(q)' = Recalling(q)
    BY <1>1 DEF Recalling
<1>4. ASSUME NEW q \in Mission
      PROVE  refunds[q] \in Nat /\ recalls[q] \in Nat /\ Cardinality(Recalling(q)) \in Nat
    BY RecallingCount DEF LedgerInv, TypeOK
<1>5. \A q \in Mission \ {m} : refunds'[q] = refunds[q]
    BY DEF LedgerInv, TypeOK, MissionStep, CheckBalance, DeductBegin, DeductCommit, Create, Emit, Dispatch,
           DispatchFails, StartRead, StartSave, Execute, Complete, Fail, Refund, Reload, RefundUnmade, Raises, paid
<1>6. ~ (Refund(m) \/ RefundUnmade(m)) => refunds'[m] = refunds[m]
    BY DEF MissionStep, CheckBalance, DeductBegin, DeductCommit, Create, Emit, Dispatch,
           DispatchFails, StartRead, StartSave, Execute, Complete, Fail, Reload, Raises, paid
<1>7. Refund(m) \/ RefundUnmade(m) => refunds'[m] = refunds[m] + 1
    BY DEF LedgerInv, TypeOK, Refund, RefundUnmade
<1>8. \A q \in Mission, n \in Nat :
          RecallsCover(q, n) /\ refunds'[q] = refunds[q] => RecallsCover(q, n)'
    BY <1>2, <1>3, <1>4 DEF RecallsCover
<1>9. \A q \in Mission : RecallsCover(q, 0) /\ refunds'[q] = refunds[q] + 1 => RecallsCover(q, 1)'
    BY <1>2, <1>3, <1>4 DEF RecallsCover
<1> QED
    BY <1>5, <1>6, <1>7, <1>8, <1>9

LEMMA MissionStepsKeepPaid ==
    ASSUME LedgerInv, PaidInv, NEW m \in Mission, MissionStep(m)
    PROVE  PaidInv'
<1>1. /\ \A c \in Caller : pc'[c] = pc[c] /\ about'[c] = about[c]
      /\ \A q \in Mission \ {m} : pc'[q] = pc[q]
    BY ThreadAssumption
       DEF LedgerInv, TypeOK, MissionStep, CheckBalance, DeductBegin, DeductCommit, Create, Emit, Dispatch,
           DispatchFails, StartRead, StartSave, Execute, Complete, Fail, Refund, Reload, RefundUnmade, Raises, Goto, requests
<1>2. \A q \in Mission \ {m} : missions'[q] = missions[q] /\ debits'[q] = debits[q] /\ refunds'[q] = refunds[q]
    BY DEF LedgerInv, TypeOK, MissionStep, CheckBalance, DeductBegin, DeductCommit, Create, Emit, Dispatch,
           DispatchFails, StartRead, StartSave, Execute, Complete, Fail, Refund, Reload, RefundUnmade, Raises, paid
<1>3. ASSUME NEW q \in Mission \ {m} PROVE PaidAt(q)'
    <2>1. RecallsCover(q, 0) => RecallsCover(q, 0)'
        BY <1>2, MissionStepCover
    <2> QED
        BY <1>1, <1>2, <2>1 DEF PaidInv, PaidAt, Open
<1>4. PaidAt(m)'
    <2>0. /\ PaidAt(m)
          /\ RecallsCover(m, 0) /\ refunds'[m] = refunds[m] => RecallsCover(m, 0)'
        BY MissionStepCover DEF PaidInv
    <2>1. CASE CheckBalance(m)
        BY <2>1, <2>0, ThreadAssumption DEF LedgerInv, TypeOK, PaidAt, Underway, Open, CheckBalance, Goto, paid
    <2>2. CASE DeductBegin(m)
        BY <2>2, <2>0, ThreadAssumption DEF LedgerInv, TypeOK, PaidAt, Underway, Open, DeductBegin, Goto, paid
    <2>3. CASE DeductCommit(m)
        BY <2>3, <2>0, ThreadAssumption DEF LedgerInv, TypeOK, PaidAt, Underway, Open, DeductCommit, Goto
    <2>4. CASE Create(m)
        BY <2>4, <2>0, ThreadAssumption DEF LedgerInv, TypeOK, PaidAt, Underway, Open, Create, Goto, paid
    <2>5. CASE Emit(m)
        BY <2>5, <2>0, ThreadAssumption DEF LedgerInv, TypeOK, PaidAt, Underway, Open, Emit, Goto, paid
    <2>6. CASE Dispatch(m)
        BY <2>6, <2>0, ThreadAssumption DEF LedgerInv, TypeOK, PaidAt, Underway, Open, Dispatch, Goto, paid
    <2>7. CASE DispatchFails(m)
        BY <2>7, <2>0, ThreadAssumption DEF LedgerInv, TypeOK, PaidAt, Underway, Open, DispatchFails, Goto, paid
    <2>8. CASE StartRead(m)
        BY <2>8, <2>0, ThreadAssumption DEF LedgerInv, TypeOK, PaidAt, Underway, Open, StartRead, Goto, paid
    <2>9. CASE StartSave(m)
        BY <2>9, <2>0, ThreadAssumption DEF LedgerInv, TypeOK, PaidAt, Underway, Open, StartSave, Goto, paid
    <2>10. CASE Execute(m)
        BY <2>10, <2>0, ThreadAssumption DEF LedgerInv, TypeOK, PaidAt, Underway, Open, Execute, Goto, paid
    <2>11. CASE Complete(m)
        BY <2>11, <2>0, ThreadAssumption DEF LedgerInv, TypeOK, PaidAt, Underway, Open, Complete, Goto, paid
    <2>12. CASE Fail(m)
        BY <2>12, <2>0, ThreadAssumption DEF LedgerInv, TypeOK, PaidAt, Underway, Open, Fail, Goto, paid
    <2>13. CASE Refund(m)
        BY <2>13, <2>0, ThreadAssumption DEF LedgerInv, TypeOK, PaidAt, Underway, Open, Refund, Goto
    <2>14. CASE Reload(m)
        BY <2>14, <2>0, ThreadAssumption DEF LedgerInv, TypeOK, PaidAt, Underway, Open, Reload, Goto, paid
    <2>15. CASE RefundUnmade(m)
        BY <2>15, <2>0, ThreadAssumption DEF LedgerInv, TypeOK, PaidAt, Underway, Open, RefundUnmade, Goto
    <2>16. CASE Raises(m)
        <3>1. /\ pc[m] = "begin" => AfterRaise(m) = "refused"
              /\ pc[m] = "create" /\ m \in Served => AfterRaise(m) = "unmade"
              /\ ~(pc[m] = "begin") /\ ~(pc[m] = "create" /\ m \in Served) =>
                     \/ AfterRaise(m) = "ended"
                     \/ /\ AfterRaise(m) = "fail"
                        /\ pc[m] \in {"start", "save", "started", "complete", "fail", "refund", "reload"}
            BY DEF AfterRaise
        <3>2. pc'[m] = AfterRaise(m)
            BY <2>16 DEF LedgerInv, TypeOK, Raises, Goto
        <3>3. refunds'[m] = refunds[m] /\ (RecallsCover(m, 0) => RecallsCover(m, 0)')
            BY <2>16, MissionStepCover DEF Raises, paid
        <3> QED
            BY <2>16, <2>0, <3>1, <3>2, <3>3 DEF PaidAt, Underway, Open, Raises, paid
    <2> QED
        BY <2>1, <2>2, <2>3, <2>4, <2>5, <2>6, <2>7, <2>8, <2>9, <2>10, <2>11, <2>12, <2>13, <2>14, <2>15, <2>16
           DEF MissionStep
\* A thread of MissionService only closes its mission once it has created it.
<1>5. /\ missions[m] # "absent" => missions'[m] # "absent"
      /\ m \in Served /\ missions[m] \in {"cancelled", "failed"} => missions'[m] \in {"cancelled", "failed"}
    BY ThreadAssumption
       DEF LedgerInv, TypeOK, PaidInv, PaidAt, MissionStep, CheckBalance, DeductBegin, DeductCommit, Create, Emit, Dispatch,
           DispatchFails, StartRead, StartSave, Execute, Complete, Fail, Refund, Reload, RefundUnmade, Raises
<1>6. \A c \in Caller : pc[c] \in {"mark", "credit"} => about[c] \in Mission
    BY DEF LedgerInv, CallersOK
<1>7. CancelOK'
    BY <1>1, <1>2, <1>5, <1>6 DEF PaidInv, CancelOK
<1> QED
    BY <1>3, <1>4, <1>7 DEF PaidInv

LEMMA CallerStepsKeepPaid ==
    ASSUME LedgerInv, PaidInv, NEW c \in Caller,
           CallerStep(c) \/ Activate(c) \/ McuDeduct(c) \/ Cancel(c)
    PROVE  PaidInv'
<1>0. c \in Thread /\ c \notin Mission
    BY ThreadAssumption
<1>c. \A m \in Mission : RecallsCover(m, 0) => RecallsCover(m, 0)'
    BY CallersPayBackOnce
<1>1. CASE KeyedBegin(c) \/ KeyedCommit(c) \/ CallerRaises(c)
    <2>1. /\ \A t \in Thread \ {c} : pc'[t] = pc[t]
          /\ \A d \in Caller \ {c} : about'[d] = about[d]
          /\ pc'[c] \in {"idle", "commit"}
        BY <1>1, <1>0
           DEF LedgerInv, TypeOK, KeyedBegin, KeyedCommit, CallerRaises, Return, Goto, requests
    <2>2. UNCHANGED <<missions, debits, refunds>>
        BY <1>1 DEF KeyedBegin, KeyedCommit, CallerRaises, paid
    <2>3. \A m \in Mission : PaidAt(m)'
        BY <2>1, <2>2, <1>0, <1>c DEF PaidInv, PaidAt, Open
    <2>4. CancelOK'
        BY <2>1, <2>2 DEF PaidInv, CancelOK
    <2> QED
        BY <2>3, <2>4 DEF PaidInv
<1>2. CASE Mark(c)
    <2>1. /\ \A t \in Thread \ {c} : pc'[t] = pc[t]
          /\ pc'[c] = "credit"
          /\ about' = about
          /\ UNCHANGED <<debits, refunds>>
        BY <1>2, <1>0 DEF LedgerInv, TypeOK, Mark, Goto, requests
    <2>2. about[c] \in Mission /\ missions[about[c]] # "absent"
        BY <1>2 DEF LedgerInv, CallersOK, PaidInv, CancelOK, Mark
    <2>3. missions' = [missions EXCEPT ![about[c]] = "cancelled"]
        BY <1>2 DEF Mark
    <2>4. pc[about[c]] \notin {"new", "begin", "commit", "refused", "create", "unmade"}
        BY <2>2 DEF PaidInv, PaidAt
    <2>6. \A m \in Mission : PaidAt(m)'
        BY <2>1, <2>2, <2>3, <2>4, <1>0, <1>c DEF LedgerInv, TypeOK, PaidInv, PaidAt, Open
    <2>7. \A d \in Caller : pc[d] \in {"mark", "credit"} => about[d] \in Mission
        BY DEF LedgerInv, CallersOK
    <2>8. CancelOK'
        BY <2>1, <2>2, <2>3, <2>7 DEF LedgerInv, TypeOK, PaidInv, CancelOK
    <2> QED
        BY <2>6, <2>8 DEF PaidInv
<1>3. CASE CreditBack(c)
    <2>1. /\ \A t \in Thread \ {c} : pc'[t] = pc[t]
          /\ \A d \in Caller \ {c} : about'[d] = about[d]
          /\ pc'[c] = "idle"
          /\ UNCHANGED <<missions, debits>>
          /\ refunds' = [refunds EXCEPT ![about[c]] = @ + 1]
        BY <1>3, <1>0 DEF LedgerInv, TypeOK, CreditBack, Return, Goto
    <2>2. /\ about[c] \in Mission /\ missions[about[c]] # "absent"
          /\ about[c] \in Served => ~ Open(about[c])
        BY <1>3 DEF LedgerInv, CallersOK, PaidInv, CancelOK, CreditBack, Open
    <2>3. pc[about[c]] \notin {"new", "begin", "commit", "refused", "create"}
        BY <2>2 DEF PaidInv, PaidAt
    <2>4. \A m \in Mission : PaidAt(m)'
        BY <2>1, <2>2, <2>3, <1>0, <1>c DEF LedgerInv, TypeOK, PaidInv, PaidAt, Open
    <2>5. CancelOK'
        BY <2>1 DEF PaidInv, CancelOK
    <2> QED
        BY <2>4, <2>5 DEF PaidInv
<1>4. CASE Activate(c) \/ McuDeduct(c) \/ Cancel(c)
    <2>1. PICK subject, label :
              /\ Request(c, subject, label)
              /\ label = "begin" \/ (label = "mark" /\ missions[subject] = "queued")
        BY <1>4 DEF Activate, McuDeduct, Cancel
    <2>2. /\ \A t \in Thread \ {c} : pc'[t] = pc[t]
          /\ \A d \in Caller \ {c} : about'[d] = about[d]
          /\ pc'[c] = label /\ about'[c] = subject
          /\ UNCHANGED <<missions, debits, refunds>>
        BY <2>1, <1>0 DEF LedgerInv, TypeOK, Request, Goto, paid
    <2>3. \A m \in Mission : PaidAt(m)'
        BY <2>2, <1>0, <1>c DEF PaidInv, PaidAt, Open
    <2>4. CancelOK'
        BY <2>1, <2>2 DEF PaidInv, CancelOK
    <2> QED
        BY <2>3, <2>4 DEF PaidInv
<1> QED
    BY <1>1, <1>2, <1>3, <1>4 DEF CallerStep

LEMMA DeathsKeepPaid ==
    ASSUME LedgerInv, PaidInv, NEW t \in Thread, Dies(t)
    PROVE  PaidInv'
<1>1. /\ \A u \in Thread \ {t} : pc'[u] = pc[u]
      /\ \A d \in Caller \ {t} : about'[d] = about[d]
      /\ pc'[t] \in {"dead", "idle"}
      /\ UNCHANGED <<missions, debits, refunds>>
    BY DEF LedgerInv, TypeOK, Dies, Goto, paid
<1>c. \A m \in Mission : RecallsCover(m, 0) => RecallsCover(m, 0)'
    BY CallersPayBackOnce
<1>2. \A m \in Mission : PaidAt(m)'
    BY <1>1, <1>c DEF PaidInv, PaidAt, Underway, Open
<1>3. CancelOK'
    BY <1>1 DEF PaidInv, CancelOK
<1> QED
    BY <1>2, <1>3 DEF PaidInv

LEMMA PaidInvNext == LedgerInv /\ PaidInv /\ [Next]_vars => PaidInv'
<1> SUFFICES ASSUME LedgerInv, PaidInv, [Next]_vars PROVE PaidInv'
    OBVIOUS
<1>1. CASE \E m \in Mission : MissionStep(m)
    BY <1>1, MissionStepsKeepPaid
<1>2. CASE \E c \in Caller : CallerStep(c) \/ Activate(c) \/ McuDeduct(c) \/ Cancel(c)
    BY <1>2, CallerStepsKeepPaid
<1>3. CASE \E t \in Thread : Dies(t)
    BY <1>3, DeathsKeepPaid
<1>4. CASE UNCHANGED vars
    BY <1>4 DEF vars, requests, paid, PaidInv, PaidAt, CancelOK, Open, RecallsCover, Recalling
<1> QED
    BY <1>1, <1>2, <1>3, <1>4 DEF Next

\* A mission that is open or delivered was paid for exactly once, and paid back
\* at most once per cancellation that marked it, whatever store calls raised and
\* whichever threads died.
THEOREM OpenIsPaidHolds == Spec => []OpenIsPaid
<1>1. ASSUME LedgerInv, PaidInv PROVE OpenIsPaid
    <2>1. \A m \in Mission : /\ refunds[m] \in Nat /\ recalls[m] \in Nat
                             /\ Cardinality(Recalling(m)) \in Nat
        BY <1>1, RecallingCount DEF LedgerInv, TypeOK
    <2> QED
        BY <1>1, <2>1 DEF PaidInv, PaidAt, Open, RecallsCover, OpenIsPaid
<1> QED
    BY <1>1, LedgerInvHolds, PaidInvInit, PaidInvNext, PTL DEF Spec

(***************************************************************************)
(* What failed is paid back                                                *)
(***************************************************************************)

\* As long as no call of its stores has raised, the label of a submitted
\* mission's thread tells whether it failed and was paid back.
BackAt(m) ==
    /\ pc[m] \notin {"unmade", "dispatch", "dead"}
    /\ pc[m] \in {"emit", "start", "save", "started", "execute", "complete"} => missions[m] # "failed"
    /\ pc[m] \in {"fail", "refund"} => RecallsCover(m, 0)
    /\ pc[m] \in {"reload", "ended"} =>
           RecallsCover(m, 1) /\ (missions[m] = "failed" => refunds[m] >= 1)

BackInv == \A m \in Api \ hurt : BackAt(m)

LEMMA BackInvInit == Init => BackInv
<1> SUFFICES ASSUME Init PROVE BackInv
    OBVIOUS
<1>1. \A m \in Mission : pc[m] = "new"
    BY DEF Init
<1> QED
    BY <1>1 DEF BackInv, BackAt

LEMMA MissionStepsKeepBack ==
    ASSUME LedgerInv, PaidInv, BackInv, NEW m \in Mission, MissionStep(m)
    PROVE  BackInv'
<1>1. hurt \subseteq hurt' /\ \A q \in Mission \ {m} : pc'[q] = pc[q]
    BY DEF LedgerInv, TypeOK, MissionStep, CheckBalance, DeductBegin, DeductCommit, Create, Emit, Dispatch,
           DispatchFails, StartRead, StartSave, Execute, Complete, Fail, Refund, Reload, RefundUnmade, Raises, Goto, errors
<1>2. \A q \in Mission \ {m} : missions'[q] = missions[q] /\ refunds'[q] = refunds[q]
    BY DEF LedgerInv, TypeOK, MissionStep, CheckBalance, DeductBegin, DeductCommit, Create, Emit, Dispatch,
           DispatchFails, StartRead, StartSave, Execute, Complete, Fail, Refund, Reload, RefundUnmade, Raises, paid
<1>3. ASSUME NEW q \in (Api \ hurt') \ {m} PROVE BackAt(q)'
    <2>1. /\ RecallsCover(q, 0) => RecallsCover(q, 0)'
          /\ RecallsCover(q, 1) => RecallsCover(q, 1)'
        BY <1>2, MissionStepCover
    <2>2. BackAt(q)
        BY <1>1 DEF BackInv
    <2> QED
        BY <1>1, <1>2, <2>1, <2>2 DEF BackAt
<1>4. ASSUME m \in Api \ hurt' PROVE BackAt(m)'
    <2>0. m \notin Served /\ m \notin hurt
        BY <1>1, <1>4, ThreadAssumption
    <2>b. PaidAt(m) /\ BackAt(m)
        BY <2>0, <1>4 DEF PaidInv, BackInv
    <2>c. /\ refunds[m] \in Nat
          /\ refunds'[m] = refunds[m] =>
                 /\ RecallsCover(m, 0) => RecallsCover(m, 0)' /\ RecallsCover(m, 1)'
                 /\ RecallsCover(m, 1) => RecallsCover(m, 1)'
          /\ Refund(m) => (RecallsCover(m, 0) => RecallsCover(m, 1)')
        <3>1. RecallsCover(m, 0) => RecallsCover(m, 1)
            BY RecallingCount DEF LedgerInv, TypeOK, RecallsCover
        <3>2. refunds[m] \in Nat
            BY DEF LedgerInv, TypeOK
        <3> QED
            BY <3>1, <3>2, MissionStepCover
    <2>1. CASE CheckBalance(m)
        BY <2>1, <2>0, <2>b, <2>c, <1>4 DEF LedgerInv, TypeOK, PaidAt, Underway, BackAt, CheckBalance, Goto, paid
    <2>2. CASE DeductBegin(m)
        BY <2>2, <2>0, <2>b, <2>c, <1>4 DEF LedgerInv, TypeOK, PaidAt, Underway, BackAt, DeductBegin, Goto, paid
    <2>3. CASE DeductCommit(m)
        BY <2>3, <2>0, <2>b, <2>c, <1>4 DEF LedgerInv, TypeOK, PaidAt, Underway, BackAt, DeductCommit, Goto
    <2>4. CASE Create(m)
        BY <2>4, <2>0, <2>b, <2>c, <1>4 DEF LedgerInv, TypeOK, PaidAt, Underway, BackAt, Create, Goto, paid
    <2>5. CASE Emit(m)
        BY <2>5, <2>0, <2>b, <2>c, <1>4 DEF LedgerInv, TypeOK, PaidAt, Underway, BackAt, Emit, Goto, paid
    <2>6. CASE Dispatch(m)
        BY <2>6, <2>0, <2>b, <2>c, <1>4 DEF LedgerInv, TypeOK, PaidAt, Underway, BackAt, Dispatch, Goto, paid
    <2>7. CASE StartRead(m)
        BY <2>7, <2>0, <2>b, <2>c, <1>4 DEF LedgerInv, TypeOK, PaidAt, Underway, BackAt, StartRead, Goto, paid
    <2>8. CASE StartSave(m)
        BY <2>8, <2>0, <2>b, <2>c, <1>4 DEF LedgerInv, TypeOK, PaidAt, Underway, BackAt, StartSave, Goto, paid
    <2>9. CASE Execute(m)
        BY <2>9, <2>0, <2>b, <2>c, <1>4 DEF LedgerInv, TypeOK, PaidAt, Underway, BackAt, Execute, Goto, paid
    <2>10. CASE Complete(m)
        BY <2>10, <2>0, <2>b, <2>c, <1>4 DEF LedgerInv, TypeOK, PaidAt, Underway, BackAt, Complete, Goto, paid
    <2>11. CASE Fail(m)
        BY <2>11, <2>0, <2>b, <2>c, <1>4 DEF LedgerInv, TypeOK, PaidAt, Underway, BackAt, Fail, Goto, paid
    <2>12. CASE Refund(m)
        BY <2>12, <2>0, <2>b, <2>c, <1>4 DEF LedgerInv, TypeOK, PaidAt, Underway, BackAt, Refund, Goto
    <2>13. CASE Reload(m)
        BY <2>13, <2>0, <2>b, <2>c, <1>4 DEF LedgerInv, TypeOK, PaidAt, Underway, BackAt, Reload, Goto, paid
    <2>14. CASE RefundUnmade(m)
        BY <2>14, <2>0, <2>b, <2>c, <1>4 DEF LedgerInv, TypeOK, PaidAt, Underway, BackAt, RefundUnmade, Goto
    <2>15. CASE DispatchFails(m) \/ Raises(m)
        BY <2>15, <1>4 DEF DispatchFails, Raises
    <2> QED
        BY <2>1, <2>2, <2>3, <2>4, <2>5, <2>6, <2>7, <2>8, <2>9, <2>10, <2>11, <2>12, <2>13, <2>14, <2>15
           DEF MissionStep
<1> QED
    BY <1>3, <1>4 DEF BackInv

LEMMA CallerStepsKeepBack ==
    ASSUME LedgerInv, BackInv, NEW c \in Caller,
           CallerStep(c) \/ Activate(c) \/ McuDeduct(c) \/ Cancel(c)
    PROVE  BackInv'
<1>1. hurt' = hurt /\ \A m \in Mission : pc'[m] = pc[m]
    BY ThreadAssumption
       DEF LedgerInv, TypeOK, CallerStep, KeyedBegin, KeyedCommit, Mark, CreditBack, CallerRaises, Activate,
           McuDeduct, Cancel, Request, Return, Goto, errors
\* A cancellation marks the mission as cancelled, not as failed.
<1>2. \A m \in Mission : /\ missions'[m] = "failed" => missions[m] = "failed"
                         /\ refunds'[m] >= refunds[m]
    BY ThreadAssumption
       DEF LedgerInv, TypeOK, CallersOK, CallerStep, KeyedBegin, KeyedCommit, Mark, CreditBack, CallerRaises,
           Activate, McuDeduct, Cancel, Request, paid
<1>3. \A m \in Mission : refunds[m] \in Nat /\ refunds'[m] \in Nat
    BY LedgerInvNext DEF LedgerInv, TypeOK, Next
<1>4. \A m \in Mission : /\ RecallsCover(m, 0) => RecallsCover(m, 0)'
                         /\ RecallsCover(m, 1) => RecallsCover(m, 1)'
    BY CallersPayBackOnce
<1> QED
    BY <1>1, <1>2, <1>3, <1>4 DEF BackInv, BackAt

LEMMA DeathsKeepBack ==
    ASSUME LedgerInv, BackInv, NEW t \in Thread, Dies(t)
    PROVE  BackInv'
<1>1. /\ hurt \subseteq hurt'
      /\ \A m \in Mission \ hurt' : pc'[m] = pc[m]
      /\ UNCHANGED <<missions, refunds>>
    BY DEF LedgerInv, TypeOK, Dies, Goto, paid
<1>2. \A m \in Mission : /\ RecallsCover(m, 0) => RecallsCover(m, 0)'
                         /\ RecallsCover(m, 1) => RecallsCover(m, 1)'
    BY CallersPayBackOnce
<1> QED
    BY <1>1, <1>2 DEF BackInv, BackAt

LEMMA BackInvNext == LedgerInv /\ PaidInv /\ BackInv /\ [Next]_vars => BackInv'
<1> SUFFICES ASSUME LedgerInv, PaidInv, BackInv, [Next]_vars PROVE BackInv'
    OBVIOUS
<1>1. CASE \E m \in Mission : MissionStep(m)
    BY <1>1, MissionStepsKeepBack
<1>2. CASE \E c \in Caller : CallerStep(c) \/ Activate(c) \/ McuDeduct(c) \/ Cancel(c)
    BY <1>2, CallerStepsKeepBack
<1>3. CASE \E t \in Thread : Dies(t)
    BY <1>3, DeathsKeepBack
<1>4. CASE UNCHANGED vars
    BY <1>4 DEF vars, errors, requests, paid, BackInv, BackAt, RecallsCover, Recalling
<1> QED
    BY <1>1, <1>2, <1>3, <1>4 DEF Next

\* A submitted mission that failed, while its stores worked, is paid back by
\* the time its background task ends: once, and at most once more per
\* cancellation that marked it.
THEOREM FailureIsPaidBackHolds == Spec => []FailureIsPaidBack
<1>1. ASSUME LedgerInv, BackInv PROVE FailureIsPaidBack
    <2>1. \A m \in Mission : /\ refunds[m] \in Nat /\ recalls[m] \in Nat
                             /\ Cardinality(Recalling(m)) \in Nat
        BY <1>1, RecallingCount DEF LedgerInv, TypeOK
    <2> QED
        BY <1>1, <2>1 DEF BackInv, BackAt, RecallsCover, FailureIsPaidBack
<1> QED
    BY <1>1, LedgerInvHolds, PaidInvInit, PaidInvNext, BackInvInit, BackInvNext, PTL DEF Spec

=============================================================================
