--------------------------- MODULE Accounts_proofs ---------------------------
(***************************************************************************)
(* What holds of the account file for any number of customers and clerks,  *)
(* any answers of their clients, and any interleaving, kill or failure.    *)
(***************************************************************************)
EXTENDS Accounts, SumTheorems

\* A struct that may be written: a closed account is empty.
Safe(account) == ~account.active => account.balance = 0

(***************************************************************************)
(* The local variables of a process fit the place it is at.  Whatever it   *)
(* will write back is safe: a customer's structs because the accounts were *)
(* active when they were read, a clerk's because the account was empty.    *)
(***************************************************************************)
Fits(place, c) ==
    /\ place = "menu" => c = NoCall
    /\ place = "to" => c.service = "send"
    /\ place \in {"amount", "log", "find"} => c.service \in Services
    /\ c.side = "receiver" => c.service = "send"
    /\ c.service \in Services => c.own.active
    /\ c.service \notin Services => Safe(c.own)
    /\ c.service = "send" /\ place # "to" => c.receiver.active

CallsFit == \A p \in Processes : Fits(pc[p], call[p])

\* The inductive invariant.
IInv == TypeOK /\ CallsFit /\ InactiveAccountsEmpty

\* A step moves p to a place that its local variables fit.
Moves(p) ==
    \E place \in PC, c \in Call, m \in Messages :
        /\ Fits(place, c)
        /\ pc' = [pc EXCEPT ![p] = place]
        /\ call' = [call EXCEPT ![p] = c]
        /\ told' = [told EXCEPT ![p] = m]

-----------------------------------------------------------------------------
\* What may be added to a balance: an amount, or an amount subtracted.
Span == (-MaxInt - 1)..(MaxInt + 1)

LEMMA IntFacts == MaxInt \in Nat /\ CInt \subseteq Int /\ 0 \in CInt
BY ConstantsAssumption DEF CInt

LEMMA AmountSpan ==
    ASSUME NEW amount \in Amounts
    PROVE  amount \in Int /\ -amount \in Int /\ amount \in Span /\ -amount \in Span
<1>1. amount \in CInt
  BY ConstantsAssumption
<1> QED BY <1>1, IntFacts DEF CInt, Span

\* The sum of an int and a payment wraps into an int.
LEMMA WrapType ==
    ASSUME NEW b \in CInt, NEW n \in Span
    PROVE  b + n \in Int /\ Wrap(b + n) \in CInt
BY IntFacts DEF Wrap, CInt, Span

LEMMA HoleType == Hole \in Account
BY IntFacts DEF Hole, Account

LEMMA NoCallType == NoCall \in Call
BY HoleType DEF NoCall, Call

\* A write keeps the file a file, whether inside it or beyond its end, and every
\* record of it afterwards is the one written, a hole, or one that was there.
LEMMA PutType ==
    ASSUME NEW file, IsFile(file), NEW record \in Nat, NEW account \in Account
    PROVE  LET new == Put(file, record, account)
           IN  /\ IsFile(new)
               /\ DOMAIN file \subseteq DOMAIN new
               /\ \A i \in DOMAIN new :
                    \/ i = record /\ new[i] = account
                    \/ new[i] = Hole
                    \/ i \in DOMAIN file /\ new[i] = file[i]
<1> DEFINE new == Put(file, record, account)
<1>1. PICK n \in DOMAIN file : DOMAIN file = 0..n
  BY DEF IsFile
<1>2. n \in Nat
  BY <1>1
<1>3. DOMAIN new = DOMAIN file \cup 0..record
  BY DEF Put
<1>4. \E m \in DOMAIN new : DOMAIN new = 0..m
  <2> HIDE DEF new
  <2>1. CASE record > n
    <3>1. DOMAIN new = 0..record
      BY <1>1, <1>2, <1>3, <2>1
    <3> QED BY <3>1
  <2>2. CASE ~(record > n)
    <3>1. DOMAIN new = 0..n
      BY <1>1, <1>2, <1>3, <2>2
    <3> QED BY <1>2, <3>1
  <2> QED BY <2>1, <2>2
<1>5. \A i \in DOMAIN new :
        \/ i = record /\ new[i] = account
        \/ new[i] = Hole
        \/ i \in DOMAIN file /\ new[i] = file[i]
  BY DEF Put
<1>6. \A i \in DOMAIN new : new[i] \in Account
  BY <1>5, HoleType DEF IsFile
<1>7. new = [i \in DOMAIN new |-> new[i]]
  BY DEF Put
<1> HIDE DEF new
<1>8. IsFile(new)
  BY <1>4, <1>6, <1>7 DEF IsFile
<1> QED BY <1>3, <1>5, <1>8 DEF new

\* find_account returns a record of that number, or none.
LEMMA FoundType ==
    ASSUME TypeOK, NEW p \in Processes, NEW number \in Int,
           NEW record \in Found(p, number)
    PROVE  \/ record = NoRecord
           \/ /\ record \in DOMAIN accounts /\ record \in Nat
              /\ accounts[record] \in Account
              /\ accounts[record].accountNumber = number
<1> DEFINE hits == {i \in DOMAIN accounts :
                        /\ accounts[i].accountNumber = number
                        /\ Free(held, p, OneRecord(i))}
<1>1. DOMAIN accounts \subseteq Nat
  BY DEF TypeOK, IsFile
<1>2. CASE record = NoRecord
  BY <1>2
<1>3. CASE record # NoRecord
  <2>1. hits # {} /\ record = Min(hits)
    BY <1>3 DEF Found, FindAccount
  <2>2. record \in hits
    BY <1>1, <2>1, LeastNat
  <2> QED BY <1>1, <2>2 DEF TypeOK, IsFile
<1> QED BY <1>2, <1>3

\* The same of the search without failures.
LEMMA FindType ==
    ASSUME TypeOK, NEW p \in Processes, NEW number \in Int
    PROVE  LET record == FindAccount(p, number)
           IN  \/ record = NoRecord
               \/ /\ record \in DOMAIN accounts /\ record \in Nat
                  /\ accounts[record] \in Account
                  /\ accounts[record].accountNumber = number
BY FoundType DEF Found

\* The file has a last record.
LEMMA LastRecord ==
    ASSUME TypeOK
    PROVE  Max(DOMAIN accounts) \in DOMAIN accounts /\ Max(DOMAIN accounts) \in Nat
<1>1. PICK n \in DOMAIN accounts : DOMAIN accounts = 0..n
  BY DEF TypeOK, IsFile
<1>2. n \in Nat /\ \A y \in DOMAIN accounts : n >= y
  BY <1>1
<1> QED BY <1>1, <1>2 DEF Max

\* The initial states satisfy the invariant.
LEMMA InitIInv == Init => IInv
<1> SUFFICES ASSUME Init PROVE IInv
  OBVIOUS
<1> USE ConstantsAssumption DEF Init
<1>1. TypeOK
  BY NoCallType DEF TypeOK, PC, Messages, Processes
<1>2. CallsFit
  BY DEF CallsFit, Fits, NoCall, Services, Safe, Hole
<1>3. InactiveAccountsEmpty
  BY DEF InactiveAccountsEmpty
<1> QED BY <1>1, <1>2, <1>3 DEF IInv

-----------------------------------------------------------------------------
\* The three ways a step moves a process.
LEMMA Returning ==
    ASSUME NEW p \in Processes, NEW m \in Messages, Return(p, m)
    PROVE  Moves(p)
<1>1. Fits("menu", NoCall)
  BY DEF Fits, NoCall, Services, Safe, Hole
<1> QED BY <1>1, NoCallType DEF Return, Moves, PC

LEMMA Going ==
    ASSUME TypeOK, NEW p \in Processes, NEW place \in PC, NEW c \in Call,
           Fits(place, c), Goto(p, place), call' = [call EXCEPT ![p] = c]
    PROVE  Moves(p)
<1>1. told[p] \in Messages /\ told' = [told EXCEPT ![p] = told[p]]
  BY DEF Goto, TypeOK
<1> QED BY <1>1 DEF Goto, Moves

LEMMA Staying ==
    ASSUME TypeOK, NEW p \in Processes, NEW place \in PC,
           Fits(place, call[p]), Goto(p, place), call' = call
    PROVE  Moves(p)
<1>1. call[p] \in Call /\ call' = [call EXCEPT ![p] = call[p]]
  BY DEF TypeOK
<1> QED BY <1>1, Going

\* After such a step every process's local variables fit its place.
LEMMA MovesKeeps ==
    ASSUME TypeOK, CallsFit, NEW p \in Processes, Moves(p)
    PROVE  /\ pc' \in [Processes -> PC]
           /\ call' \in [Processes -> Call]
           /\ told' \in [Processes -> Messages]
           /\ CallsFit'
<1>1. PICK place \in PC, c \in Call, m \in Messages :
        /\ Fits(place, c)
        /\ pc' = [pc EXCEPT ![p] = place]
        /\ call' = [call EXCEPT ![p] = c]
        /\ told' = [told EXCEPT ![p] = m]
  BY DEF Moves
<1>2. /\ pc' \in [Processes -> PC]
      /\ call' \in [Processes -> Call]
      /\ told' \in [Processes -> Messages]
  BY <1>1 DEF TypeOK
<1>3. ASSUME NEW q \in Processes PROVE Fits(pc'[q], call'[q])
  <2>1. CASE q = p
    <3>1. pc'[q] = place /\ call'[q] = c
      BY <1>1, <2>1 DEF TypeOK
    <3> QED BY <1>1, <3>1
  <2>2. CASE q # p
    <3>1. pc'[q] = pc[q] /\ call'[q] = call[q]
      BY <1>1, <2>2 DEF TypeOK
    <3> QED BY <3>1 DEF CallsFit
  <2> QED BY <2>1, <2>2
<1> QED BY <1>2, <1>3 DEF CallsFit

\* A write of a safe struct keeps the closed accounts empty.
LEMMA PutKeeps ==
    ASSUME IInv, NEW record \in Nat, NEW account \in Account, Safe(account),
           accounts' = Put(accounts, record, account)
    PROVE  IsFile(accounts') /\ InactiveAccountsEmpty'
<1> DEFINE new == Put(accounts, record, account)
<1>1. /\ IsFile(new)
      /\ \A i \in DOMAIN new :
            \/ i = record /\ new[i] = account
            \/ new[i] = Hole
            \/ i \in DOMAIN accounts /\ new[i] = accounts[i]
  BY PutType DEF IInv, TypeOK
<1> HIDE DEF new
<1>2. \A i \in DOMAIN new : ~new[i].active => new[i].balance = 0
  BY <1>1 DEF IInv, InactiveAccountsEmpty, Safe, Hole
<1>3. accounts' = new
  BY DEF new
<1> QED BY <1>1, <1>2, <1>3 DEF InactiveAccountsEmpty

\* A struct with another balance is a struct, and as active.
LEMMA PayType ==
    ASSUME NEW account \in Account, NEW n \in Span
    PROVE  /\ Pay(account, n) \in Account
           /\ Pay(account, n).active = account.active
<1>1. Wrap(account.balance + n) \in CInt
  BY WrapType DEF Account
<1> QED BY <1>1 DEF Pay, Account

\* find_account gives its locks up and takes none.
LEMMA ScanType ==
    ASSUME TypeOK, NEW p \in Processes, NEW record, held' = AfterScan(p, record)
    PROVE  held' \in [Processes -> SUBSET LockRange]
BY DEF TypeOK, AfterScan

-----------------------------------------------------------------------------
\* What a step other than those that write the file has to show.
LEMMA LocalStep ==
    ASSUME IInv, NEW p \in Processes, Moves(p),
           held' \in [Processes -> SUBSET LockRange],
           einval' \subseteq Clerks, dead' = dead,
           transactions' \in Seq(Transaction),
           \/ calls' = calls
           \/ calls[p] < MaxCalls[p] /\ calls' = [calls EXCEPT ![p] = @ + 1],
           IsFile(accounts'), InactiveAccountsEmpty'
    PROVE  IInv'
<1>1. /\ pc' \in [Processes -> PC]
      /\ call' \in [Processes -> Call]
      /\ told' \in [Processes -> Messages]
      /\ CallsFit'
  BY MovesKeeps DEF IInv
<1>2. calls' \in [Processes -> Nat]
  BY DEF IInv, TypeOK
<1>3. \A q \in Processes : calls'[q] <= MaxCalls[q]
  <2>1. MaxCalls \in [Processes -> Nat]
    BY ConstantsAssumption
  <2> QED BY <2>1 DEF IInv, TypeOK
<1>4. dead' \subseteq Processes
  BY DEF IInv, TypeOK
<1> QED BY <1>1, <1>2, <1>3, <1>4 DEF IInv, TypeOK

-----------------------------------------------------------------------------
(* One lemma per action.                                                   *)

LEMMA OpenStep ==
    ASSUME IInv, NEW p \in Customers, NEW service \in Services, Open(p, service)
    PROVE  IInv'
<1> DEFINE record == FindAccount(p, AccountOf[p])
           c1 == [call[p] EXCEPT !.service = service]
           c2 == [c1 EXCEPT !.own = accounts[record]]
<1>1. TypeOK /\ p \in Processes /\ AccountOf[p] \in Int
  BY ConstantsAssumption DEF IInv, Processes
<1>2. At(p, "menu") /\ calls[p] < MaxCalls[p] /\ calls' = [calls EXCEPT ![p] = @ + 1]
  BY DEF Open, Enter
<1>3. held' \in [Processes -> SUBSET LockRange]
  <2>1. held \in [Processes -> SUBSET LockRange]
    BY <1>1 DEF TypeOK
  <2> QED BY <1>1, <2>1, ScanType DEF Open
<1>4. Moves(p)
  <2>1. CASE \E m \in Messages : Return(p, m)
    BY <1>1, <2>1, Returning
  <2>2. CASE /\ record # NoRecord /\ accounts[record].active
             /\ Goto(p, IF service = "send" THEN "to" ELSE "amount")
             /\ call' = [call EXCEPT ![p] = c2]
    <3>1. call[p] \in Call /\ call[p] = NoCall
      BY <1>1, <1>2 DEF TypeOK, At, IInv, CallsFit, Fits
    <3>2. accounts[record] \in Account
      BY <1>1, <2>2, FindType
    <3>3. c1 \in Call /\ c1.side = "own" /\ c1.service = service
      BY <3>1 DEF Call, NoCall
    <3>4. c2 \in Call /\ c2.side = "own" /\ c2.service = service
          /\ c2.own = accounts[record]
      <4> HIDE DEF c1, record
      <4> QED BY <3>2, <3>3 DEF Call
    <3> DEFINE place == IF service = "send" THEN "to" ELSE "amount"
    <3>5. Fits(place, c2) /\ place \in PC
      <4> HIDE DEF c2, record
      <4> QED BY <2>2, <3>4 DEF Fits, PC, Services
    <3> HIDE DEF c2, place
    <3> QED BY <1>1, <2>2, <3>4, <3>5, Going DEF place
  <2> QED BY <2>1, <2>2 DEF Open, Messages
<1>5. UNCHANGED <<accounts, transactions, einval, dead>>
  BY DEF Open
<1> QED BY <1>1, <1>2, <1>3, <1>4, <1>5, LocalStep
        DEF IInv, TypeOK, InactiveAccountsEmpty

LEMMA ToStep ==
    ASSUME IInv, NEW p \in Customers, To(p)
    PROVE  IInv'
<1>1. TypeOK /\ p \in Processes /\ Receivers[p] \subseteq Int
  BY ConstantsAssumption DEF IInv, Processes
<1>2. call[p] \in Call /\ call[p].service = "send" /\ Fits("to", call[p])
  BY <1>1 DEF To, At, TypeOK, IInv, CallsFit, Fits
<1>3. held' \in [Processes -> SUBSET LockRange]
  <2>1. held \in [Processes -> SUBSET LockRange]
    BY <1>1 DEF TypeOK
  <2> QED BY <1>1, <2>1, ScanType DEF To
<1>4. Moves(p)
  <2>1. CASE Return(p, "refused")
    BY <1>1, <2>1, Returning DEF Messages
  <2>2. ASSUME NEW number \in Receivers[p], NEW record \in Found(p, number),
               record # NoRecord, accounts[record].active, Goto(p, "amount"),
               call' = [call EXCEPT ![p] = [@ EXCEPT !.receiver = accounts[record]]]
        PROVE  Moves(p)
    <3> DEFINE c1 == [call[p] EXCEPT !.receiver = accounts[record]]
    <3>1. accounts[record] \in Account
      BY <1>1, <2>2, FoundType
    <3>2. c1 \in Call /\ c1.service = "send" /\ c1.own = call[p].own
          /\ c1.receiver = accounts[record]
      BY <1>2, <3>1 DEF Call
    <3>3. Fits("amount", c1)
      <4> HIDE DEF c1
      <4> QED BY <1>2, <2>2, <3>2 DEF Fits, Services
    <3>4. call' = [call EXCEPT ![p] = c1]
      BY <2>2
    <3> HIDE DEF c1
    <3> QED BY <1>1, <2>2, <3>2, <3>3, <3>4, Going DEF PC
  <2> QED BY <2>1, <2>2 DEF To
<1>5. UNCHANGED <<accounts, transactions, einval, dead, calls>>
  BY DEF To
<1> QED BY <1>1, <1>3, <1>4, <1>5, LocalStep DEF IInv, TypeOK, InactiveAccountsEmpty

\* An answer to a prompt for an amount goes on with a changed struct, goes on
\* with none, or ends the call.
LEMMA AmountStep ==
    ASSUME IInv, NEW p \in Processes, NEW c \in Call, NEW place \in {"log", "find"},
           At(p, "amount"),
           c.service = call[p].service, c.side = call[p].side,
           c.own.active = call[p].own.active,
           c.receiver.active = call[p].receiver.active,
           Goto(p, place), call' = [call EXCEPT ![p] = c]
    PROVE  Moves(p)
<1>1. TypeOK /\ Fits("amount", call[p])
  BY DEF At, IInv, CallsFit
<1>2. Fits(place, c) /\ place \in PC
  BY <1>1 DEF Fits, PC
<1> QED BY <1>1, <1>2, Going

LEMMA DepositStep ==
    ASSUME IInv, NEW p \in Customers, DepositAmount(p)
    PROVE  IInv'
<1>1. TypeOK /\ p \in Processes /\ call[p] \in Call
  BY DEF IInv, Processes, TypeOK
<1>2. Moves(p)
  <2>1. CASE Return(p, "refused")
    BY <1>1, <2>1, Returning DEF Messages
  <2>2. ASSUME NEW amount \in Amounts, Goto(p, "log"),
               call' = [call EXCEPT ![p] =
                          [@ EXCEPT !.amount = amount, !.own = Pay(call[p].own, amount)]]
        PROVE  Moves(p)
    <3> DEFINE c1 == [call[p] EXCEPT !.amount = amount]
               c2 == [c1 EXCEPT !.own = Pay(call[p].own, amount)]
    <3>1. amount \in Int /\ amount \in Span
      BY AmountSpan
    <3>2. c1 \in Call /\ c1.service = call[p].service /\ c1.side = call[p].side
          /\ c1.own = call[p].own /\ c1.receiver = call[p].receiver
      BY <1>1, <3>1 DEF Call
    <3>3. /\ Pay(call[p].own, amount) \in Account
          /\ Pay(call[p].own, amount).active = call[p].own.active
      BY <1>1, <3>1, PayType DEF Call
    <3>4. c2 \in Call /\ c2.service = c1.service /\ c2.side = c1.side
          /\ c2.own.active = c1.own.active /\ c2.receiver = c1.receiver
      <4> HIDE DEF c1
      <4> QED BY <3>2, <3>3 DEF Call
    <3>5. call' = [call EXCEPT ![p] = c2]
      BY <2>2
    <3>6. At(p, "amount")
      BY DEF DepositAmount
    <3> HIDE DEF c1, c2
    <3> QED BY <1>1, <2>2, <3>2, <3>4, <3>5, <3>6, AmountStep
  <2> QED BY <2>1, <2>2 DEF DepositAmount
<1>3. UNCHANGED <<accounts, transactions, held, einval, dead, calls>>
  BY DEF DepositAmount
<1> QED BY <1>1, <1>2, <1>3, LocalStep DEF IInv, TypeOK, InactiveAccountsEmpty

LEMMA WithdrawStep ==
    ASSUME IInv, NEW p \in Customers, WithdrawAmount(p)
    PROVE  IInv'
<1>1. TypeOK /\ p \in Processes /\ call[p] \in Call /\ At(p, "amount")
  BY DEF IInv, Processes, TypeOK, WithdrawAmount
<1>2. Moves(p)
  <2>1. CASE Goto(p, "hung") /\ UNCHANGED call
    <3>1. Fits("hung", call[p])
      BY <1>1 DEF At, IInv, CallsFit, Fits
    <3> QED BY <1>1, <2>1, <3>1, Staying DEF PC
  <2>2. ASSUME NEW amount \in Amounts, Goto(p, "log"),
               call' = [call EXCEPT ![p] =
                          [@ EXCEPT !.amount = amount, !.own = Pay(call[p].own, -amount)]]
        PROVE  Moves(p)
    <3> DEFINE c1 == [call[p] EXCEPT !.amount = amount]
               c2 == [c1 EXCEPT !.own = Pay(call[p].own, -amount)]
    <3>1. amount \in Int /\ amount \in Span /\ -amount \in Span
      BY AmountSpan
    <3>2. c1 \in Call /\ c1.service = call[p].service /\ c1.side = call[p].side
          /\ c1.own = call[p].own /\ c1.receiver = call[p].receiver
      BY <1>1, <3>1 DEF Call
    <3>3. /\ Pay(call[p].own, -amount) \in Account
          /\ Pay(call[p].own, -amount).active = call[p].own.active
      BY <1>1, <3>1, PayType DEF Call
    <3>4. c2 \in Call /\ c2.service = c1.service /\ c2.side = c1.side
          /\ c2.own.active = c1.own.active /\ c2.receiver = c1.receiver
      <4> HIDE DEF c1
      <4> QED BY <3>2, <3>3 DEF Call
    <3>5. call' = [call EXCEPT ![p] = c2]
      BY <2>2
    <3> HIDE DEF c1, c2
    <3> QED BY <1>1, <2>2, <3>2, <3>4, <3>5, AmountStep
  <2> QED BY <2>1, <2>2 DEF WithdrawAmount
<1>3. UNCHANGED <<accounts, transactions, held, einval, dead, calls>>
  BY DEF WithdrawAmount
<1> QED BY <1>1, <1>2, <1>3, LocalStep DEF IInv, TypeOK, InactiveAccountsEmpty

LEMMA SendStep ==
    ASSUME IInv, NEW p \in Customers, SendAmount(p)
    PROVE  IInv'
<1>1. TypeOK /\ p \in Processes /\ call[p] \in Call /\ At(p, "amount")
  BY DEF IInv, Processes, TypeOK, SendAmount
<1>2. Moves(p)
  <2>1. CASE Return(p, "refused")
    BY <1>1, <2>1, Returning DEF Messages
  <2>2. ASSUME NEW amount \in Amounts, Goto(p, "find"),
               call' = [call EXCEPT ![p] =
                          [@ EXCEPT !.amount = amount, !.own = Pay(call[p].own, -amount),
                                    !.receiver = Pay(call[p].receiver, amount)]]
        PROVE  Moves(p)
    <3> DEFINE c1 == [call[p] EXCEPT !.amount = amount]
               c2 == [c1 EXCEPT !.own = Pay(call[p].own, -amount)]
               c3 == [c2 EXCEPT !.receiver = Pay(call[p].receiver, amount)]
    <3>1. amount \in Int /\ amount \in Span /\ -amount \in Span
      BY AmountSpan
    <3>2. c1 \in Call /\ c1.service = call[p].service /\ c1.side = call[p].side
          /\ c1.own = call[p].own /\ c1.receiver = call[p].receiver
      BY <1>1, <3>1 DEF Call
    <3>3. /\ Pay(call[p].own, -amount) \in Account
          /\ Pay(call[p].own, -amount).active = call[p].own.active
      BY <1>1, <3>1, PayType DEF Call
    <3>4. c2 \in Call /\ c2.service = c1.service /\ c2.side = c1.side
          /\ c2.own.active = c1.own.active /\ c2.receiver = c1.receiver
      <4> HIDE DEF c1
      <4> QED BY <3>2, <3>3 DEF Call
    <3>5. /\ Pay(call[p].receiver, amount) \in Account
          /\ Pay(call[p].receiver, amount).active = call[p].receiver.active
      BY <1>1, <3>1, PayType DEF Call
    <3>6. c3 \in Call /\ c3.service = c2.service /\ c3.side = c2.side
          /\ c3.own = c2.own /\ c3.receiver.active = c2.receiver.active
      <4> HIDE DEF c1, c2
      <4> QED BY <3>2, <3>4, <3>5 DEF Call
    <3>7. call' = [call EXCEPT ![p] = c3]
      BY <2>2
    <3> HIDE DEF c1, c2, c3
    <3> QED BY <1>1, <2>2, <3>2, <3>4, <3>6, <3>7, AmountStep
  <2> QED BY <2>1, <2>2 DEF SendAmount
<1>3. UNCHANGED <<accounts, transactions, held, einval, dead, calls>>
  BY DEF SendAmount
<1> QED BY <1>1, <1>2, <1>3, LocalStep DEF IInv, TypeOK, InactiveAccountsEmpty

LEMMA LogStep ==
    ASSUME IInv, NEW p \in Processes, Log(p)
    PROVE  IInv'
<1>1. TypeOK /\ call[p] \in Call /\ At(p, "log") /\ Fits("log", call[p])
  BY DEF IInv, TypeOK, Log, At, CallsFit
<1>2. Moves(p)
  <2>1. CASE Return(p, "success")
    BY <1>1, <2>1, Returning DEF Messages
  <2>2. CASE call[p].service # "send" /\ Goto(p, "find") /\ UNCHANGED call
    <3>1. Fits("find", call[p])
      BY <1>1 DEF Fits
    <3> QED BY <1>1, <2>2, <3>1, Staying DEF PC
  <2> QED BY <2>1, <2>2 DEF Log
<1>3. transactions' \in Seq(Transaction)
  <2>1. /\ call[p].own.accountNumber \in Int
        /\ call[p].receiver.accountNumber \in Int
        /\ call[p].amount \in Int
    BY <1>1 DEF Call, Account
  <2>2. call[p].service \in Services
    BY <1>1 DEF Fits
  <2> DEFINE to == CASE call[p].service = "deposit" -> Deposited
                     [] call[p].service = "withdraw" -> Withdrawn
                     [] call[p].service = "send" -> call[p].receiver.accountNumber
             entry == [from |-> call[p].own.accountNumber, to |-> to,
                       amount |-> call[p].amount]
  <2>3. to \in Int
    BY <2>1, <2>2 DEF Services, Deposited, Withdrawn
  <2>4. entry \in Transaction
    <3> HIDE DEF to
    <3> QED BY <2>1, <2>3 DEF Transaction
  <2>5. transactions' = Append(transactions, entry) \/ transactions' = transactions
    BY DEF Log
  <2>6. transactions \in Seq(Transaction)
    BY <1>1 DEF TypeOK
  <2> HIDE DEF entry
  <2>7. Append(transactions, entry) \in Seq(Transaction)
    BY <2>4, <2>6
  <2> QED BY <2>5, <2>6, <2>7
<1>4. UNCHANGED <<accounts, held, einval, dead, calls>>
  BY DEF Log
<1> QED BY <1>1, <1>2, <1>3, <1>4, LocalStep DEF IInv, TypeOK, InactiveAccountsEmpty

LEMMA FindStep ==
    ASSUME IInv, NEW p \in Processes, Find(p)
    PROVE  IInv'
<1> DEFINE number == IF call[p].side = "own" THEN call[p].own.accountNumber
                     ELSE call[p].receiver.accountNumber
<1>1. TypeOK /\ call[p] \in Call /\ Fits("find", call[p])
  BY DEF IInv, TypeOK, Find, At, CallsFit
<1>2. number \in Int
  BY <1>1 DEF Call, Account
<1>3. PICK record \in Found(p, number) :
        /\ held' = AfterScan(p, record)
        /\ \/ record = NoRecord /\ Return(p, "aborted")
           \/ /\ record # NoRecord
              /\ Goto(p, "lock")
              /\ call' = [call EXCEPT ![p] = [@ EXCEPT !.offset = record]]
  BY DEF Find
<1>4. held' \in [Processes -> SUBSET LockRange]
  BY <1>1, <1>3, ScanType
<1>5. Moves(p)
  <2>1. CASE Return(p, "aborted")
    BY <1>1, <2>1, Returning DEF Messages
  <2>2. CASE /\ record # NoRecord
             /\ Goto(p, "lock")
             /\ call' = [call EXCEPT ![p] = [@ EXCEPT !.offset = record]]
    <3> DEFINE c1 == [call[p] EXCEPT !.offset = record]
    <3>1. record \in Nat
      BY <1>1, <1>2, <2>2, FoundType
    <3>2. c1 \in Call /\ c1.service = call[p].service /\ c1.side = call[p].side
          /\ c1.own = call[p].own /\ c1.receiver = call[p].receiver
      BY <1>1, <3>1 DEF Call
    <3>3. Fits("lock", c1)
      <4> HIDE DEF c1
      <4> QED BY <1>1, <3>2 DEF Fits
    <3>4. call' = [call EXCEPT ![p] = c1]
      BY <2>2
    <3> HIDE DEF c1
    <3> QED BY <1>1, <2>2, <3>2, <3>3, <3>4, Going DEF PC
  <2> QED BY <1>3, <2>1, <2>2
<1>6. UNCHANGED <<accounts, transactions, einval, dead, calls>>
  BY DEF Find
<1> QED BY <1>1, <1>4, <1>5, <1>6, LocalStep DEF IInv, TypeOK, InactiveAccountsEmpty

LEMMA LockStep ==
    ASSUME IInv, NEW p \in Processes, Lock(p)
    PROVE  IInv'
<1>1. TypeOK /\ call[p] \in Call /\ Fits("lock", call[p])
  BY DEF IInv, TypeOK, Lock, At, CallsFit
<1>2. Moves(p)
  <2>1. Fits("write", call[p])
    BY <1>1 DEF Fits
  <2> QED BY <1>1, <2>1, Staying DEF Lock, PC
<1>3. held' \in [Processes -> SUBSET LockRange]
  <2>1. OneRecord(call[p].offset) \in LockRange
    BY <1>1 DEF Call, OneRecord, LockRange
  <2> QED BY <1>1, <2>1 DEF Lock, TypeOK
<1>4. UNCHANGED <<accounts, transactions, einval, dead, calls>>
  BY DEF Lock
<1> QED BY <1>1, <1>2, <1>3, <1>4, LocalStep DEF IInv, TypeOK, InactiveAccountsEmpty

LEMMA WriteStep ==
    ASSUME IInv, NEW p \in Processes, Write(p)
    PROVE  IInv'
<1>1. TypeOK /\ call[p] \in Call /\ Fits("write", call[p])
  BY DEF IInv, TypeOK, Write, At, CallsFit
<1>2. Moves(p)
  <2>1. CASE /\ call[p].service = "send" /\ call[p].side = "own"
             /\ Goto(p, "find")
             /\ call' = [call EXCEPT ![p] = [@ EXCEPT !.side = "receiver"]]
    <3> DEFINE c1 == [call[p] EXCEPT !.side = "receiver"]
    <3>1. c1 \in Call /\ c1.service = "send"
          /\ c1.own = call[p].own /\ c1.receiver = call[p].receiver
      BY <1>1, <2>1 DEF Call
    <3>2. Fits("find", c1)
      <4> HIDE DEF c1
      <4> QED BY <1>1, <2>1, <3>1 DEF Fits, Services
    <3>3. call' = [call EXCEPT ![p] = c1]
      BY <2>1
    <3> HIDE DEF c1
    <3> QED BY <1>1, <2>1, <3>1, <3>2, <3>3, Going DEF PC
  <2>2. CASE call[p].service = "send" /\ Goto(p, "log") /\ UNCHANGED call
    <3>1. Fits("log", call[p])
      BY <1>1, <2>2 DEF Fits, Services
    <3> QED BY <1>1, <2>2, <3>1, Staying DEF PC
  <2>3. CASE Return(p, "success")
    BY <1>1, <2>3, Returning DEF Messages
  <2> QED BY <2>1, <2>2, <2>3 DEF Write
<1>3. IsFile(accounts') /\ InactiveAccountsEmpty'
  <2>1. Struct(p) \in Account /\ call[p].offset \in Nat
    BY <1>1 DEF Struct, Call
  <2>2. Safe(Struct(p))
    <3>1. CASE call[p].side = "own"
      BY <1>1, <3>1 DEF Struct, Safe, Fits
    <3>2. CASE call[p].side = "receiver"
      <4>1. call[p].receiver.active
        BY <1>1, <3>2 DEF Fits
      <4> QED BY <3>2, <4>1 DEF Struct, Safe
    <3> QED BY <1>1, <3>1, <3>2 DEF Call
  <2> QED BY <2>1, <2>2, PutKeeps DEF Write
<1>4. held' \in [Processes -> SUBSET LockRange]
  BY <1>1 DEF Write, TypeOK
<1>5. UNCHANGED <<transactions, einval, dead, calls>>
  BY DEF Write
<1> QED BY <1>1, <1>2, <1>3, <1>4, <1>5, LocalStep DEF TypeOK

LEMMA LockOrWriteFailsStep ==
    ASSUME IInv, NEW p \in Processes, LockOrWriteFails(p)
    PROVE  IInv'
<1>1. Moves(p) /\ TypeOK
  BY Returning DEF LockOrWriteFails, Messages, IInv
<1>2. UNCHANGED <<accounts, transactions, held, einval, dead, calls>>
  BY DEF LockOrWriteFails
<1> QED BY <1>1, <1>2, LocalStep DEF IInv, TypeOK, InactiveAccountsEmpty

LEMMA DeleteStep ==
    ASSUME IInv, NEW p \in Clerks, DeleteRead(p)
    PROVE  IInv'
<1>1. TypeOK /\ p \in Processes /\ At(p, "menu")
  BY DEF IInv, Processes, DeleteRead, Enter
<1>2. Moves(p)
  <2>1. CASE \E m \in Messages : Return(p, m)
    BY <1>1, <2>1, Returning
  <2>2. ASSUME NEW number \in DeleteTargets, number >= 0,
               NEW account \in IF number \in DOMAIN accounts
                               THEN {accounts[number]} ELSE Garbage,
               account.balance = 0, Goto(p, "lock"),
               call' = [call EXCEPT ![p] =
                          [@ EXCEPT !.service = "delete", !.offset = number,
                                    !.own = [account EXCEPT !.active = FALSE]]]
        PROVE  Moves(p)
    <3> DEFINE closed == [account EXCEPT !.active = FALSE]
               c1 == [call[p] EXCEPT !.service = "delete"]
               c2 == [c1 EXCEPT !.offset = number]
               c3 == [c2 EXCEPT !.own = closed]
    <3>1. call[p] \in Call /\ call[p] = NoCall
      BY <1>1 DEF TypeOK, At, IInv, CallsFit, Fits
    <3>2. account \in Account /\ number \in Nat
      <4>1. number \in Int /\ Garbage \subseteq Account
        BY ConstantsAssumption
      <4> QED BY <1>1, <2>2, <4>1 DEF TypeOK, IsFile
    <3>3. closed \in Account /\ closed.balance = 0
      BY <2>2, <3>2 DEF Account
    <3>4. c1 \in Call /\ c1.service = "delete" /\ c1.side = "own"
      BY <3>1 DEF Call, NoCall
    <3>5. c2 \in Call /\ c2.service = "delete" /\ c2.side = "own"
      <4> HIDE DEF c1
      <4> QED BY <3>2, <3>4 DEF Call
    <3>6. c3 \in Call /\ c3.service = "delete" /\ c3.side = "own" /\ c3.own = closed
      <4> HIDE DEF c2, closed
      <4> QED BY <3>3, <3>5 DEF Call
    <3>7. call' = [call EXCEPT ![p] = c3]
      BY <2>2
    <3>8. Fits("lock", c3)
      <4> HIDE DEF c3, closed
      <4> QED BY <3>3, <3>6 DEF Fits, Services, Safe
    <3> HIDE DEF c3
    <3> QED BY <1>1, <2>2, <3>6, <3>7, <3>8, Going DEF PC
  <2> QED BY <2>1, <2>2 DEF DeleteRead, Messages
<1>3. einval' \subseteq Clerks
  BY <1>1 DEF DeleteRead, TypeOK
<1>4. calls[p] < MaxCalls[p] /\ calls' = [calls EXCEPT ![p] = @ + 1]
  BY DEF DeleteRead, Enter
<1>5. UNCHANGED <<accounts, transactions, dead>>
  BY DEF DeleteRead
<1>6. held' \in [Processes -> SUBSET LockRange]
  BY <1>1 DEF DeleteRead, TypeOK
<1> QED BY <1>1, <1>2, <1>3, <1>4, <1>5, <1>6, LocalStep
        DEF IInv, TypeOK, InactiveAccountsEmpty

LEMMA AddReadStep ==
    ASSUME IInv, NEW p \in Clerks, AddRead(p)
    PROVE  IInv'
<1> DEFINE last == Max(DOMAIN accounts)
           new == [accountNumber |-> accounts[last].accountNumber + 1,
                   active |-> TRUE, balance |-> 0]
           c1 == [call[p] EXCEPT !.service = "add"]
           c2 == [c1 EXCEPT !.offset = last + 1]
           c3 == [c2 EXCEPT !.own = new]
<1>1. TypeOK /\ p \in Processes /\ At(p, "menu")
  BY DEF IInv, Processes, AddRead, Enter
<1>2. ASSUME Goto(p, "append"), call' = [call EXCEPT ![p] = c3] PROVE Moves(p)
  <2>1. call[p] \in Call /\ call[p] = NoCall
    BY <1>1 DEF TypeOK, At, IInv, CallsFit, Fits
  <2>2. last \in Nat /\ accounts[last] \in Account
    BY <1>1, LastRecord DEF TypeOK, IsFile
  <2>3. new \in Account /\ new.active
    <3> HIDE DEF last
    <3> QED BY <2>2, IntFacts DEF Account
  <2>4. c1 \in Call /\ c1.service = "add" /\ c1.side = "own"
    BY <2>1 DEF Call, NoCall
  <2>5. c2 \in Call /\ c2.service = "add" /\ c2.side = "own"
    <3> HIDE DEF c1, last
    <3> QED BY <2>2, <2>4 DEF Call
  <2>6. c3 \in Call /\ c3.service = "add" /\ c3.side = "own" /\ c3.own = new
    <3> HIDE DEF c2, new
    <3> QED BY <2>3, <2>5 DEF Call
  <2>7. Fits("append", c3)
    <3> HIDE DEF c3, new
    <3> QED BY <2>3, <2>6 DEF Fits, Services, Safe
  <2> HIDE DEF c3
  <2> QED BY <1>1, <1>2, <2>6, <2>7, Going DEF PC
<1>3. Moves(p)
  BY <1>1, <1>2, Returning DEF AddRead, Messages
<1>4. calls[p] < MaxCalls[p] /\ calls' = [calls EXCEPT ![p] = @ + 1]
  BY DEF AddRead, Enter
<1>5. held' \in [Processes -> SUBSET LockRange]
  BY <1>1 DEF AddRead, TypeOK
<1>6. UNCHANGED <<accounts, transactions, dead>> /\ einval' \subseteq Clerks
  BY <1>1 DEF AddRead, TypeOK
<1> QED BY <1>1, <1>3, <1>4, <1>5, <1>6, LocalStep
        DEF IInv, TypeOK, InactiveAccountsEmpty

LEMMA AddWriteStep ==
    ASSUME IInv, NEW p \in Processes, AddWrite(p)
    PROVE  IInv'
<1>1. TypeOK /\ call[p] \in Call /\ Fits("append", call[p])
  BY DEF IInv, TypeOK, AddWrite, At, CallsFit
<1>2. Moves(p)
  BY Returning DEF AddWrite, Messages
<1>3. IsFile(accounts') /\ InactiveAccountsEmpty'
  <2>1. call[p].own \in Account /\ call[p].offset \in Nat
    BY <1>1 DEF Call
  <2>2. Safe(call[p].own)
    BY <1>1 DEF Safe, Fits
  <2>3. CASE accounts' = Put(accounts, call[p].offset, call[p].own)
    BY <2>1, <2>2, <2>3, PutKeeps
  <2>4. CASE UNCHANGED accounts
    BY <1>1, <2>4 DEF IInv, TypeOK, InactiveAccountsEmpty
  <2> QED BY <2>3, <2>4 DEF AddWrite
<1>4. held' \in [Processes -> SUBSET LockRange]
  BY <1>1 DEF AddWrite, TypeOK
<1>5. UNCHANGED <<transactions, dead, calls>> /\ einval' \subseteq Clerks
  BY <1>1 DEF AddWrite, TypeOK
<1> QED BY <1>1, <1>2, <1>3, <1>4, <1>5, LocalStep DEF TypeOK

LEMMA DieStep ==
    ASSUME IInv, NEW p \in Processes, Die(p)
    PROVE  IInv'
<1>1. TypeOK'
  BY DEF Die, IInv, TypeOK
<1>2. CallsFit' /\ InactiveAccountsEmpty'
  BY DEF Die, IInv, CallsFit, InactiveAccountsEmpty
<1> QED BY <1>1, <1>2 DEF IInv

-----------------------------------------------------------------------------
\* Every step keeps the invariant.
LEMMA NextIInv == IInv /\ [Next]_vars => IInv'
<1> SUFFICES ASSUME IInv, [Next]_vars PROVE IInv'
  OBVIOUS
<1>1. CASE UNCHANGED vars
  BY <1>1 DEF vars, IInv, TypeOK, CallsFit, InactiveAccountsEmpty
<1>2. ASSUME NEW p \in Processes, ClientStep(p) PROVE IInv'
  BY <1>2, OpenStep, ToStep, DepositStep, WithdrawStep, SendStep, DeleteStep,
     AddReadStep DEF ClientStep
<1>3. ASSUME NEW p \in Processes, ServerStep(p) PROVE IInv'
  BY <1>3, LogStep, FindStep, LockStep, WriteStep, AddWriteStep DEF ServerStep
<1>4. ASSUME NEW p \in Processes, Failure(p) PROVE IInv'
  BY <1>4, LockOrWriteFailsStep, DieStep DEF Failure
<1> QED BY <1>1, <1>2, <1>3, <1>4 DEF Next

\* The inductive invariant holds of every reachable state.
THEOREM Invariance == Spec => []IInv
BY InitIInv, NextIInv, PTL DEF Spec

\* Whatever the clients answer and whichever calls are killed or fail, every
\* variable keeps its type: in particular the account file stays a file of
\* whole records without gaps.
THEOREM TypeCorrect == Spec => []TypeOK
<1>1. IInv => TypeOK
  BY DEF IInv
<1> QED BY <1>1, Invariance, PTL

\* No interleaving of customers and clerks leaves money on a closed account.
THEOREM ClosedAccountsAreEmpty == Spec => []InactiveAccountsEmpty
<1>1. IInv => InactiveAccountsEmpty
  BY DEF IInv
<1> QED BY <1>1, Invariance, PTL

-----------------------------------------------------------------------------
(***************************************************************************)
(* Records stay put.  A struct in hand goes to the record it was read from *)
(* or found at: if that is one of the opening file, it has its number.     *)
(***************************************************************************)
Places == {"lock", "write", "append"}

InPlace(place, c) ==
    place \in Places /\ c.offset \in DOMAIN Opening =>
        (IF place = "append" \/ c.side = "own" THEN c.own ELSE c.receiver).accountNumber
            = Opening[c.offset].accountNumber

NumbersKept ==
    \A i \in DOMAIN Opening :
        i \in DOMAIN accounts /\ accounts[i].accountNumber = Opening[i].accountNumber

StructsInPlace == \A p \in Processes : InPlace(pc[p], call[p])

\* A step of p that takes it to the given place with the given local variables.
Takes(p, place, c) ==
    pc' = [pc EXCEPT ![p] = place] /\ call' = [call EXCEPT ![p] = c]

\* A step that takes p where it has nothing to write.
Away(p) == \E place \in PC \ Places, c \in Call : Takes(p, place, c)

LEMMA TakesKeeps ==
    ASSUME IInv, StructsInPlace, NEW p \in Processes, NEW place \in PC,
           NEW c \in Call, InPlace(place, c), Takes(p, place, c)
    PROVE  StructsInPlace'
<1>1. pc \in [Processes -> PC] /\ call \in [Processes -> Call]
  BY DEF IInv, TypeOK
<1>2. ASSUME NEW q \in Processes PROVE InPlace(pc'[q], call'[q])
  <2>1. CASE q = p
    <3>1. pc'[q] = place /\ call'[q] = c
      BY <1>1, <2>1 DEF Takes
    <3> QED BY <3>1
  <2>2. CASE q # p
    <3>1. pc'[q] = pc[q] /\ call'[q] = call[q]
      BY <1>1, <2>2 DEF Takes
    <3> QED BY <3>1 DEF StructsInPlace
  <2> QED BY <2>1, <2>2
<1> QED BY <1>2 DEF StructsInPlace

LEMMA AwayKeeps ==
    ASSUME IInv, StructsInPlace, NEW p \in Processes, Away(p)
    PROVE  StructsInPlace'
<1>1. PICK place \in PC \ Places, c \in Call : Takes(p, place, c)
  BY DEF Away
<1>2. InPlace(place, c)
  BY DEF InPlace
<1> QED BY <1>1, <1>2, TakesKeeps

\* Every step of a client but the two reads of a clerk is of that kind, ...
LEMMA CustomerStepsAway ==
    ASSUME IInv, NEW p \in Customers, call' \in [Processes -> Call],
           \/ \E service \in Services : Open(p, service)
           \/ To(p) \/ DepositAmount(p) \/ WithdrawAmount(p) \/ SendAmount(p)
    PROVE  Away(p) /\ accounts' = accounts
<1>1. p \in Processes /\ call \in [Processes -> Call]
  BY DEF IInv, TypeOK, Processes
<1>2. \E place \in PC \ Places : pc' = [pc EXCEPT ![p] = place]
  BY DEF Open, To, DepositAmount, WithdrawAmount, SendAmount, Return, Goto, PC, Places
<1>3. call' = [call EXCEPT ![p] = call'[p]]
  <2>1. \A q \in Processes \ {p} : call'[q] = call[q]
    BY <1>1 DEF Open, To, DepositAmount, WithdrawAmount, SendAmount, Return
  <2> QED BY <1>1, <2>1
<1>4. accounts' = accounts
  BY DEF Open, To, DepositAmount, WithdrawAmount, SendAmount
<1> QED BY <1>1, <1>2, <1>3, <1>4 DEF Away, Takes

\* ... and so are a return to the menu and the entry in the log.
LEMMA ReturnAway ==
    ASSUME NEW p \in Processes, NEW m, Return(p, m)
    PROVE  Away(p)
BY NoCallType DEF Return, Away, Takes, PC, Places

LEMMA LogAway ==
    ASSUME IInv, NEW p \in Processes, Log(p)
    PROVE  Away(p) /\ accounts' = accounts
<1>1. CASE Return(p, "success")
  BY <1>1, ReturnAway DEF Log
<1>2. CASE Goto(p, "find") /\ UNCHANGED call
  <2>1. call[p] \in Call /\ call' = [call EXCEPT ![p] = call[p]]
    BY <1>2 DEF IInv, TypeOK
  <2> QED BY <1>2, <2>1 DEF Log, Goto, Away, Takes, PC, Places
<1> QED BY <1>1, <1>2 DEF Log

\* A record that has been found has the number that was looked for.
LEMMA FindInPlace ==
    ASSUME IInv, NumbersKept, StructsInPlace, NEW p \in Processes, Find(p)
    PROVE  StructsInPlace' /\ accounts' = accounts
<1> DEFINE number == IF call[p].side = "own" THEN call[p].own.accountNumber
                     ELSE call[p].receiver.accountNumber
<1> SUFFICES StructsInPlace'
  BY DEF Find
<1>1. TypeOK /\ call[p] \in Call /\ number \in Int
  <2>1. TypeOK /\ call[p] \in Call
    BY DEF IInv, TypeOK
  <2> QED BY <2>1 DEF Call, Account
<1>2. PICK record \in Found(p, number) :
        \/ record = NoRecord /\ Return(p, "aborted")
        \/ /\ record # NoRecord
           /\ Goto(p, "lock")
           /\ call' = [call EXCEPT ![p] = [@ EXCEPT !.offset = record]]
  BY DEF Find
<1>3. CASE Return(p, "aborted")
  BY <1>3, ReturnAway, AwayKeeps
<1>4. CASE /\ record # NoRecord
           /\ Goto(p, "lock")
           /\ call' = [call EXCEPT ![p] = [@ EXCEPT !.offset = record]]
  <2> DEFINE c == [call[p] EXCEPT !.offset = record]
  <2>1. record \in Nat /\ accounts[record].accountNumber = number
    <3> HIDE DEF number
    <3> QED BY <1>1, <1>4, FoundType
  <2>2. c \in Call /\ c.offset = record /\ c.side = call[p].side
        /\ c.own = call[p].own /\ c.receiver = call[p].receiver
    BY <1>1, <2>1 DEF Call
  <2>3. Takes(p, "lock", c)
    BY <1>4 DEF Goto, Takes
  <2>4. InPlace("lock", c)
    <3> HIDE DEF c
    <3> QED BY <2>1, <2>2 DEF InPlace, NumbersKept
  <2> HIDE DEF c
  <2> QED BY <2>2, <2>3, <2>4, TakesKeeps DEF PC
<1> QED BY <1>2, <1>3, <1>4

LEMMA LockInPlace ==
    ASSUME IInv, StructsInPlace, NEW p \in Processes, Lock(p)
    PROVE  StructsInPlace' /\ accounts' = accounts
<1>1. pc[p] = "lock" /\ call[p] \in Call /\ call' = [call EXCEPT ![p] = call[p]]
  <2>1. call \in [Processes -> Call] /\ call' = call /\ pc[p] = "lock"
    BY DEF IInv, TypeOK, Lock, At
  <2> QED BY <2>1
<1>2. InPlace("write", call[p])
  BY <1>1 DEF StructsInPlace, InPlace, Places
<1>3. Takes(p, "write", call[p])
  BY <1>1 DEF Lock, Goto, Takes
<1>4. accounts' = accounts
  BY DEF Lock
<1> QED BY <1>1, <1>2, <1>3, <1>4, TakesKeeps DEF PC

\* A write puts the struct down where its number is.
LEMMA PutInPlace ==
    ASSUME IInv, NumbersKept, NEW record \in Nat, NEW account \in Account,
           record \in DOMAIN Opening =>
                account.accountNumber = Opening[record].accountNumber,
           accounts' = Put(accounts, record, account)
    PROVE  NumbersKept'
<1>1. ASSUME NEW i \in DOMAIN Opening
      PROVE  i \in DOMAIN accounts' /\ accounts'[i].accountNumber = Opening[i].accountNumber
  <2>1. i \in DOMAIN accounts /\ accounts[i].accountNumber = Opening[i].accountNumber
    BY <1>1 DEF NumbersKept
  <2>2. i \in DOMAIN accounts'
        /\ accounts'[i] = IF i = record THEN account ELSE accounts[i]
    BY <2>1 DEF Put
  <2> QED BY <1>1, <2>1, <2>2
<1> QED BY <1>1 DEF NumbersKept

LEMMA WriteInPlace ==
    ASSUME IInv, NumbersKept, StructsInPlace, NEW p \in Processes, Write(p)
    PROVE  NumbersKept' /\ StructsInPlace'
<1>1. call[p] \in Call /\ InPlace("write", call[p])
  BY DEF IInv, TypeOK, Write, At, StructsInPlace
<1>2. NumbersKept'
  <2>1. Struct(p) \in Account /\ call[p].offset \in Nat
    BY <1>1 DEF Struct, Call
  <2>2. call[p].offset \in DOMAIN Opening =>
            Struct(p).accountNumber = Opening[call[p].offset].accountNumber
    BY <1>1 DEF InPlace, Struct, Places
  <2> QED BY <2>1, <2>2, PutInPlace DEF Write
<1>3. Away(p)
  <2>1. CASE Return(p, "success")
    BY <2>1, ReturnAway
  <2>2. CASE Goto(p, "log") /\ UNCHANGED call
    <3>1. call' = [call EXCEPT ![p] = call[p]]
      BY <2>2 DEF IInv, TypeOK
    <3> QED BY <1>1, <2>2, <3>1 DEF Goto, Away, Takes, PC, Places
  <2>3. CASE /\ Goto(p, "find")
             /\ call' = [call EXCEPT ![p] = [@ EXCEPT !.side = "receiver"]]
    <3>1. [call[p] EXCEPT !.side = "receiver"] \in Call
      BY <1>1 DEF Call
    <3> QED BY <2>3, <3>1 DEF Goto, Away, Takes, PC, Places
  <2> QED BY <2>1, <2>2, <2>3 DEF Write
<1> QED BY <1>2, <1>3, AwayKeeps

\* A clerk closes the record that was read at the number typed, ...
LEMMA DeleteInPlace ==
    ASSUME IInv, NumbersKept, StructsInPlace, NEW p \in Clerks, DeleteRead(p)
    PROVE  StructsInPlace' /\ accounts' = accounts
<1>1. p \in Processes /\ TypeOK /\ call[p] \in Call /\ call[p] = NoCall
  BY DEF IInv, Processes, TypeOK, DeleteRead, Enter, At, CallsFit, Fits
<1>2. ASSUME NEW m, Return(p, m) PROVE StructsInPlace'
  BY <1>1, <1>2, ReturnAway, AwayKeeps
<1>3. ASSUME NEW number \in DeleteTargets, number >= 0,
             NEW account \in IF number \in DOMAIN accounts
                             THEN {accounts[number]} ELSE Garbage,
             Goto(p, "lock"),
             call' = [call EXCEPT ![p] =
                        [@ EXCEPT !.service = "delete", !.offset = number,
                                  !.own = [account EXCEPT !.active = FALSE]]]
      PROVE  StructsInPlace'
  <2> DEFINE closed == [account EXCEPT !.active = FALSE]
             c1 == [call[p] EXCEPT !.service = "delete"]
             c2 == [c1 EXCEPT !.offset = number]
             c == [c2 EXCEPT !.own = closed]
  <2>1. account \in Account /\ number \in Nat
    <3>1. number \in Int /\ Garbage \subseteq Account
      BY ConstantsAssumption
    <3> QED BY <1>1, <1>3, <3>1 DEF TypeOK, IsFile
  <2>2. closed \in Account /\ closed.accountNumber = account.accountNumber
    BY <2>1 DEF Account
  <2>3. c \in Call /\ c.side = "own" /\ c.own = closed /\ c.offset = number
    <3> HIDE DEF closed
    <3>1. c1 \in Call /\ c1.side = "own"
      BY <1>1 DEF Call, NoCall
    <3>2. c2 \in Call /\ c2.side = "own" /\ c2.offset = number
      <4> HIDE DEF c1
      <4> QED BY <2>1, <3>1 DEF Call
    <3> HIDE DEF c2
    <3> QED BY <2>2, <3>2 DEF Call
  <2>4. number \in DOMAIN Opening => account = accounts[number]
    BY <1>3 DEF NumbersKept
  <2>5. Takes(p, "lock", c)
    BY <1>3 DEF Goto, Takes
  <2> HIDE DEF c, c1, c2, closed
  <2>6. InPlace("lock", c)
    BY <2>2, <2>3, <2>4 DEF InPlace, NumbersKept
  <2> QED BY <1>1, <2>3, <2>5, <2>6, TakesKeeps DEF PC
<1>4. accounts' = accounts
  BY DEF DeleteRead
<1> QED BY <1>2, <1>3, <1>4 DEF DeleteRead

\* ... and appends behind the last record, which is not in the opening file.
LEMMA AddReadInPlace ==
    ASSUME IInv, NumbersKept, StructsInPlace, NEW p \in Clerks, AddRead(p)
    PROVE  StructsInPlace' /\ accounts' = accounts
<1> DEFINE last == Max(DOMAIN accounts)
           new == [accountNumber |-> accounts[last].accountNumber + 1,
                   active |-> TRUE, balance |-> 0]
           c1 == [call[p] EXCEPT !.service = "add"]
           c2 == [c1 EXCEPT !.offset = last + 1]
           c == [c2 EXCEPT !.own = new]
<1> SUFFICES StructsInPlace'
  BY DEF AddRead
<1>1. p \in Processes /\ TypeOK /\ call[p] \in Call
  BY DEF IInv, Processes, TypeOK
<1>2. last \in Nat /\ accounts[last] \in Account /\ last + 1 \notin DOMAIN accounts
  <2>1. PICK n \in DOMAIN accounts : DOMAIN accounts = 0..n
    BY <1>1 DEF TypeOK, IsFile
  <2>2. n \in Nat /\ \A i \in DOMAIN accounts : n >= i
    BY <2>1
  <2>3. last \in DOMAIN accounts /\ \A i \in DOMAIN accounts : last >= i
    BY <2>1, <2>2 DEF Max
  <2> HIDE DEF last
  <2>4. last \in Nat /\ last + 1 \notin DOMAIN accounts
    BY <2>1, <2>2, <2>3
  <2> QED BY <1>1, <2>3, <2>4 DEF TypeOK, IsFile
<1>3. CASE Goto(p, "append") /\ call' = [call EXCEPT ![p] = c]
  <2>1. new \in Account
    <3> HIDE DEF last
    <3> QED BY <1>2, IntFacts DEF Account
  <2>2. c \in Call /\ c.offset = last + 1
    <3> HIDE DEF new, last
    <3>1. c1 \in Call
      BY <1>1 DEF Call
    <3>2. c2 \in Call /\ c2.offset = last + 1
      <4> HIDE DEF c1
      <4> QED BY <1>2, <3>1 DEF Call
    <3> HIDE DEF c2
    <3> QED BY <2>1, <3>2 DEF Call
  <2>3. Takes(p, "append", c)
    BY <1>3 DEF Goto, Takes
  <2> HIDE DEF c, c1, c2, last, new
  <2>4. InPlace("append", c)
    BY <1>2, <2>2 DEF InPlace, NumbersKept
  <2> QED BY <1>1, <2>2, <2>3, <2>4, TakesKeeps DEF PC
<1>4. CASE Return(p, "aborted")
  BY <1>1, <1>4, ReturnAway, AwayKeeps
<1> QED BY <1>3, <1>4 DEF AddRead

LEMMA AddWriteInPlace ==
    ASSUME IInv, NumbersKept, StructsInPlace, NEW p \in Processes, AddWrite(p)
    PROVE  NumbersKept' /\ StructsInPlace'
<1>1. call[p] \in Call /\ InPlace("append", call[p])
  BY DEF IInv, TypeOK, AddWrite, At, StructsInPlace
<1>2. StructsInPlace'
  BY ReturnAway, AwayKeeps DEF AddWrite
<1>3. CASE accounts' = Put(accounts, call[p].offset, call[p].own)
  <2>1. call[p].own \in Account /\ call[p].offset \in Nat
    BY <1>1 DEF Call
  <2>2. call[p].offset \in DOMAIN Opening =>
            call[p].own.accountNumber = Opening[call[p].offset].accountNumber
    BY <1>1 DEF InPlace, Places
  <2> QED BY <1>2, <1>3, <2>1, <2>2, PutInPlace
<1>4. CASE UNCHANGED accounts
  BY <1>2, <1>4 DEF NumbersKept
<1> QED BY <1>3, <1>4 DEF AddWrite

LEMMA NextInPlace ==
    IInv /\ IInv' /\ NumbersKept /\ StructsInPlace /\ [Next]_vars
        => NumbersKept' /\ StructsInPlace'
<1> SUFFICES ASSUME IInv, IInv', NumbersKept, StructsInPlace, [Next]_vars
             PROVE  NumbersKept' /\ StructsInPlace'
  OBVIOUS
<1>1. accounts' = accounts => NumbersKept'
  BY DEF NumbersKept
<1>2. CASE UNCHANGED vars
  BY <1>1, <1>2 DEF vars, StructsInPlace
<1>3. ASSUME NEW p \in Processes, ClientStep(p) PROVE NumbersKept' /\ StructsInPlace'
  <2>1. call' \in [Processes -> Call]
    BY DEF IInv, TypeOK
  <2> QED BY <1>1, <1>3, <2>1, CustomerStepsAway, AwayKeeps, DeleteInPlace,
             AddReadInPlace DEF ClientStep
<1>4. ASSUME NEW p \in Processes, ServerStep(p) PROVE NumbersKept' /\ StructsInPlace'
  BY <1>1, <1>4, LogAway, AwayKeeps, FindInPlace, LockInPlace, WriteInPlace,
     AddWriteInPlace DEF ServerStep
<1>5. ASSUME NEW p \in Processes, Failure(p) PROVE NumbersKept' /\ StructsInPlace'
  <2>1. CASE LockOrWriteFails(p)
    BY <1>1, <2>1, ReturnAway, AwayKeeps DEF LockOrWriteFails
  <2>2. CASE Die(p)
    BY <1>1, <2>2 DEF Die, StructsInPlace
  <2> QED BY <1>5, <2>1, <2>2 DEF Failure
<1> QED BY <1>2, <1>3, <1>4, <1>5 DEF Next

\* However the finds, locks and writes of customers and clerks interleave, fail or
\* are killed, no record of the opening file moves, disappears or becomes that of
\* another account: the numbers need not be in order, nor even be different.
THEOREM RecordsKeepTheirNumbers == Spec => RecordsStayPut
<1>1. Init => NumbersKept /\ StructsInPlace
  BY DEF Init, NumbersKept, StructsInPlace, InPlace, Places
<1>2. NumbersKept /\ NumbersKept' =>
        [\A i \in DOMAIN Opening :
            /\ i \in DOMAIN accounts'
            /\ accounts'[i].accountNumber = accounts[i].accountNumber]_vars
  BY DEF NumbersKept
<1> QED BY <1>1, <1>2, Invariance, NextInPlace, PTL DEF Spec, RecordsStayPut

-----------------------------------------------------------------------------
(***************************************************************************)
(* What each action does to the process that takes it, field by field.     *)
(* First the assignments to the local variables ...                        *)
(***************************************************************************)
LEMMA SetOwn ==
    ASSUME NEW c \in Call, NEW a \in Account
    PROVE  LET d == [c EXCEPT !.own = a]
           IN  /\ d \in Call /\ d.own = a /\ d.service = c.service /\ d.side = c.side
               /\ d.receiver = c.receiver /\ d.amount = c.amount /\ d.offset = c.offset
BY DEF Call

LEMMA SetReceiver ==
    ASSUME NEW c \in Call, NEW a \in Account
    PROVE  LET d == [c EXCEPT !.receiver = a]
           IN  /\ d \in Call /\ d.receiver = a /\ d.service = c.service /\ d.side = c.side
               /\ d.own = c.own /\ d.amount = c.amount /\ d.offset = c.offset
BY DEF Call

LEMMA SetAmount ==
    ASSUME NEW c \in Call, NEW n \in Int
    PROVE  LET d == [c EXCEPT !.amount = n]
           IN  /\ d \in Call /\ d.amount = n /\ d.service = c.service /\ d.side = c.side
               /\ d.own = c.own /\ d.receiver = c.receiver /\ d.offset = c.offset
BY DEF Call

LEMMA SetOffset ==
    ASSUME NEW c \in Call, NEW n \in Nat
    PROVE  LET d == [c EXCEPT !.offset = n]
           IN  /\ d \in Call /\ d.offset = n /\ d.service = c.service /\ d.side = c.side
               /\ d.own = c.own /\ d.receiver = c.receiver /\ d.amount = c.amount
BY DEF Call

LEMMA SetSide ==
    ASSUME NEW c \in Call, NEW side \in {"own", "receiver"}
    PROVE  LET d == [c EXCEPT !.side = side]
           IN  /\ d \in Call /\ d.side = side /\ d.service = c.service
               /\ d.own = c.own /\ d.receiver = c.receiver /\ d.amount = c.amount
               /\ d.offset = c.offset
BY DEF Call

LEMMA SetService ==
    ASSUME NEW c \in Call, NEW service \in Services \cup {"delete", "add"}
    PROVE  LET d == [c EXCEPT !.service = service]
           IN  /\ d \in Call /\ d.service = service /\ d.side = c.side
               /\ d.own = c.own /\ d.receiver = c.receiver /\ d.amount = c.amount
               /\ d.offset = c.offset
BY DEF Call

\* ... then the steps.  A step leaves the other processes alone, ...
Others(p) ==
    \A q \in Processes \ {p} :
        pc'[q] = pc[q] /\ call'[q] = call[q] /\ told'[q] = told[q] /\ held'[q] = held[q]

\* ... and the one that takes it may be back at the menu.
Ended(p) == pc'[p] = "menu" /\ call'[p] = NoCall

LEMMA StepOthers ==
    ASSUME TypeOK, NEW p \in Processes, ClientStep(p) \/ ServerStep(p) \/ Failure(p)
    PROVE  Others(p)
BY DEF TypeOK, Others, ClientStep, ServerStep, Open, To, DepositAmount, WithdrawAmount,
   SendAmount, DeleteRead, AddRead, Log, Find, Lock, Write, AddWrite, Failure,
   LockOrWriteFails, Die, Return, Goto, AfterScan

LEMMA ReturnDoes ==
    ASSUME TypeOK, NEW p \in Processes, NEW m, Return(p, m)
    PROVE  Ended(p) /\ told'[p] = m
BY DEF TypeOK, Return, Ended

LEMMA GotoDoes ==
    ASSUME TypeOK, NEW p \in Processes, NEW place, Goto(p, place)
    PROVE  pc'[p] = place /\ told'[p] = told[p]
BY DEF TypeOK, Goto

LEMMA AssignDoes ==
    ASSUME TypeOK, NEW p \in Processes, NEW c, call' = [call EXCEPT ![p] = c]
    PROVE  call'[p] = c
BY DEF TypeOK

\* The record a search has found: one of that number.
Holds(account, number) ==
    \E i \in DOMAIN accounts : accounts[i] = account /\ account.accountNumber = number

LEMMA OpenDoes ==
    ASSUME IInv, NEW p \in Customers, NEW service \in Services, Open(p, service)
    PROVE  LET d == call'[p]
           IN  \/ Ended(p)
               \/ /\ pc'[p] = IF service = "send" THEN "to" ELSE "amount"
                  /\ told'[p] = told[p]
                  /\ d.service = service /\ d.side = "own" /\ d.own.active
                  /\ Holds(d.own, AccountOf[p])
<1> DEFINE record == FindAccount(p, AccountOf[p])
           c1 == [call[p] EXCEPT !.service = service]
           c2 == [c1 EXCEPT !.own = accounts[record]]
<1>1. TypeOK /\ p \in Processes /\ AccountOf[p] \in Int
  BY ConstantsAssumption DEF IInv, Processes
<1>2. call[p] \in Call /\ call[p] = NoCall
  BY <1>1 DEF Open, Enter, At, IInv, CallsFit, Fits, TypeOK
<1>3. CASE \E m \in Messages : Return(p, m)
  BY <1>1, <1>3, ReturnDoes
<1>4. CASE /\ record # NoRecord /\ accounts[record].active
           /\ Goto(p, IF service = "send" THEN "to" ELSE "amount")
           /\ call' = [call EXCEPT ![p] = c2]
  <2>1. /\ record \in DOMAIN accounts /\ accounts[record] \in Account
        /\ accounts[record].accountNumber = AccountOf[p]
    BY <1>1, <1>4, FindType
  <2>2. c1 \in Call /\ c1.service = service /\ c1.side = "own"
    BY <1>2, SetService DEF NoCall
  <2>3. c2.service = service /\ c2.side = "own" /\ c2.own = accounts[record]
    <3> HIDE DEF c1, record
    <3> QED BY <2>1, <2>2, SetOwn
  <2>4. call'[p] = c2
    <3>1. call' = [call EXCEPT ![p] = c2]
      BY <1>4
    <3> HIDE DEF c2
    <3> QED BY <1>1, <3>1, AssignDoes
  <2>5. Holds(accounts[record], AccountOf[p])
    BY <2>1 DEF Holds
  <2> HIDE DEF c1, c2, record
  <2> QED BY <1>1, <1>4, <2>3, <2>4, <2>5, GotoDoes
<1> QED BY <1>3, <1>4 DEF Open, Messages

LEMMA ToDoes ==
    ASSUME IInv, NEW p \in Customers, To(p)
    PROVE  LET d == call'[p]
           IN  \/ Ended(p)
               \/ /\ pc'[p] = "amount" /\ told'[p] = told[p]
                  /\ d.service = "send" /\ d.side = call[p].side /\ d.own = call[p].own
                  /\ d.receiver.active
                  /\ \E number \in Receivers[p] \ {AccountOf[p]} : Holds(d.receiver, number)
<1>1. TypeOK /\ p \in Processes /\ Receivers[p] \subseteq Int
  BY ConstantsAssumption DEF IInv, Processes
<1>2. call[p] \in Call /\ call[p].service = "send"
  BY <1>1 DEF To, At, IInv, CallsFit, Fits, TypeOK
<1>3. CASE Return(p, "refused")
  BY <1>1, <1>3, ReturnDoes
<1>4. ASSUME NEW number \in Receivers[p], number # AccountOf[p],
             NEW record \in Found(p, number), record # NoRecord,
             accounts[record].active, Goto(p, "amount"),
             call' = [call EXCEPT ![p] = [@ EXCEPT !.receiver = accounts[record]]]
      PROVE  LET d == call'[p]
             IN  /\ pc'[p] = "amount" /\ told'[p] = told[p]
                 /\ d.service = "send" /\ d.side = call[p].side /\ d.own = call[p].own
                 /\ d.receiver.active
                 /\ \E n \in Receivers[p] \ {AccountOf[p]} : Holds(d.receiver, n)
  <2>1. /\ record \in DOMAIN accounts /\ accounts[record] \in Account
        /\ accounts[record].accountNumber = number
    BY <1>1, <1>4, FoundType
  <2> DEFINE c1 == [call[p] EXCEPT !.receiver = accounts[record]]
  <2>2. /\ c1.service = "send" /\ c1.side = call[p].side /\ c1.own = call[p].own
        /\ c1.receiver = accounts[record]
    BY <1>2, <2>1, SetReceiver
  <2>3. call'[p] = c1
    <3>1. call' = [call EXCEPT ![p] = c1]
      BY <1>4
    <3> HIDE DEF c1
    <3> QED BY <1>1, <3>1, AssignDoes
  <2>4. Holds(accounts[record], number)
    BY <2>1 DEF Holds
  <2> HIDE DEF c1
  <2> QED BY <1>1, <1>4, <2>2, <2>3, <2>4, GotoDoes
<1> QED BY <1>3, <1>4 DEF To

\* The answer to a prompt for an amount changes the balance of the structs.
Paid(c, d, amount, change) ==
    /\ d.service = c.service /\ d.side = c.side /\ d.amount = amount
    /\ d.own = Pay(c.own, change)

LEMMA PaidDoes ==
    ASSUME TypeOK, NEW p \in Processes, NEW amount \in Int, NEW change \in Span,
           call' = [call EXCEPT ![p] =
                [@ EXCEPT !.amount = amount, !.own = Pay(call[p].own, change)]]
    PROVE  Paid(call[p], call'[p], amount, change) /\ call'[p].receiver = call[p].receiver
<1> DEFINE c1 == [call[p] EXCEPT !.amount = amount]
           c2 == [c1 EXCEPT !.own = Pay(call[p].own, change)]
<1>1. call[p] \in Call /\ Pay(call[p].own, change) \in Account
  BY PayType DEF TypeOK, Call
<1>2. /\ c1 \in Call /\ c1.service = call[p].service /\ c1.side = call[p].side
      /\ c1.amount = amount /\ c1.receiver = call[p].receiver
  BY <1>1, SetAmount
<1>3. /\ c2.service = call[p].service /\ c2.side = call[p].side
      /\ c2.amount = amount /\ c2.receiver = call[p].receiver
      /\ c2.own = Pay(call[p].own, change)
  <2> HIDE DEF c1
  <2> QED BY <1>1, <1>2, SetOwn
<1>4. call'[p] = c2
  <2>1. call' = [call EXCEPT ![p] = c2]
    OBVIOUS
  <2> HIDE DEF c2
  <2> QED BY <2>1, AssignDoes
<1> HIDE DEF c1, c2
<1> QED BY <1>3, <1>4 DEF Paid

LEMMA DepositDoes ==
    ASSUME IInv, NEW p \in Customers, DepositAmount(p)
    PROVE  \/ Ended(p)
           \/ \E amount \in Amounts :
                /\ amount > 0 /\ pc'[p] = "log" /\ told'[p] = told[p]
                /\ Paid(call[p], call'[p], amount, amount)
<1>1. TypeOK /\ p \in Processes
  BY DEF IInv, Processes
<1>2. PICK amount \in Amounts :
        \/ amount <= 0 /\ Return(p, "refused")
        \/ /\ amount > 0
           /\ Goto(p, "log")
           /\ call' = [call EXCEPT ![p] =
                [@ EXCEPT !.amount = amount, !.own = Pay(call[p].own, amount)]]
  BY DEF DepositAmount
<1> QED BY <1>1, <1>2, AmountSpan, ReturnDoes, GotoDoes, PaidDoes

LEMMA WithdrawDoes ==
    ASSUME IInv, NEW p \in Customers, WithdrawAmount(p)
    PROVE  \/ pc'[p] = "hung" /\ call'[p] = call[p] /\ told'[p] = told[p]
           \/ \E amount \in Amounts :
                /\ CanWithdraw(call[p].own, amount) /\ pc'[p] = "log" /\ told'[p] = told[p]
                /\ Paid(call[p], call'[p], amount, -amount)
<1>1. TypeOK /\ p \in Processes
  BY DEF IInv, Processes
<1>2. PICK amount \in Amounts :
        \/ Goto(p, "hung") /\ UNCHANGED call
        \/ /\ CanWithdraw(call[p].own, amount)
           /\ Goto(p, "log")
           /\ call' = [call EXCEPT ![p] =
                [@ EXCEPT !.amount = amount, !.own = Pay(call[p].own, -amount)]]
  BY DEF WithdrawAmount
<1> QED BY <1>1, <1>2, AmountSpan, GotoDoes, PaidDoes

LEMMA SendDoes ==
    ASSUME IInv, NEW p \in Customers, SendAmount(p)
    PROVE  \/ Ended(p)
           \/ \E amount \in Amounts :
                /\ CanPay(call[p].own, amount) /\ pc'[p] = "find" /\ told'[p] = told[p]
                /\ Paid(call[p], call'[p], amount, -amount)
                /\ call'[p].receiver = Pay(call[p].receiver, amount)
<1>1. TypeOK /\ p \in Processes /\ call[p] \in Call
  BY DEF IInv, Processes, TypeOK
<1>2. PICK amount \in Amounts :
        \/ Return(p, "refused")
        \/ /\ CanPay(call[p].own, amount)
           /\ Goto(p, "find")
           /\ call' = [call EXCEPT ![p] =
                [@ EXCEPT !.amount = amount, !.own = Pay(call[p].own, -amount),
                          !.receiver = Pay(call[p].receiver, amount)]]
  BY DEF SendAmount
<1>3. CASE Return(p, "refused")
  BY <1>1, <1>3, ReturnDoes
<1>4. CASE /\ CanPay(call[p].own, amount)
           /\ Goto(p, "find")
           /\ call' = [call EXCEPT ![p] =
                [@ EXCEPT !.amount = amount, !.own = Pay(call[p].own, -amount),
                          !.receiver = Pay(call[p].receiver, amount)]]
  <2> DEFINE c1 == [call[p] EXCEPT !.amount = amount]
             c2 == [c1 EXCEPT !.own = Pay(call[p].own, -amount)]
             c3 == [c2 EXCEPT !.receiver = Pay(call[p].receiver, amount)]
  <2>1. /\ amount \in Int /\ Pay(call[p].own, -amount) \in Account
        /\ Pay(call[p].receiver, amount) \in Account
    BY <1>1, AmountSpan, PayType DEF Call
  <2>2. /\ c1 \in Call /\ c1.service = call[p].service /\ c1.side = call[p].side
        /\ c1.amount = amount
    BY <1>1, <2>1, SetAmount
  <2>3. /\ c2 \in Call /\ c2.service = call[p].service /\ c2.side = call[p].side
        /\ c2.amount = amount /\ c2.own = Pay(call[p].own, -amount)
    <3> HIDE DEF c1
    <3> QED BY <2>1, <2>2, SetOwn
  <2>4. /\ c3.service = call[p].service /\ c3.side = call[p].side
        /\ c3.amount = amount /\ c3.own = Pay(call[p].own, -amount)
        /\ c3.receiver = Pay(call[p].receiver, amount)
    <3> HIDE DEF c2
    <3> QED BY <2>1, <2>3, SetReceiver
  <2>5. call'[p] = c3
    <3>1. call' = [call EXCEPT ![p] = c3]
      BY <1>4
    <3> HIDE DEF c3
    <3> QED BY <1>1, <3>1, AssignDoes
  <2> HIDE DEF c1, c2, c3
  <2> QED BY <1>1, <1>4, <2>4, <2>5, GotoDoes DEF Paid
<1> QED BY <1>2, <1>3, <1>4

LEMMA LogDoes ==
    ASSUME IInv, NEW p \in Processes, Log(p)
    PROVE  \/ call[p].service = "send" /\ Ended(p)
           \/ /\ call[p].service # "send"
              /\ pc'[p] = "find" /\ call'[p] = call[p] /\ told'[p] = told[p]
BY ReturnDoes, GotoDoes DEF IInv, Log

LEMMA FindDoes ==
    ASSUME IInv, NEW p \in Processes, Find(p)
    PROVE  LET number == IF call[p].side = "own" THEN call[p].own.accountNumber
                         ELSE call[p].receiver.accountNumber
               d == call'[p]
           IN  \E record \in Found(p, number) :
                \/ record = NoRecord /\ Ended(p)
                \/ /\ pc'[p] = "lock" /\ told'[p] = told[p]
                   /\ record \in DOMAIN accounts /\ record \in Nat
                   /\ accounts[record].accountNumber = number
                   /\ d.offset = record /\ d.service = call[p].service
                   /\ d.side = call[p].side /\ d.own = call[p].own
                   /\ d.receiver = call[p].receiver /\ d.amount = call[p].amount
<1> DEFINE number == IF call[p].side = "own" THEN call[p].own.accountNumber
                     ELSE call[p].receiver.accountNumber
<1>1. TypeOK /\ call[p] \in Call /\ number \in Int
  <2>1. TypeOK /\ call[p] \in Call
    BY DEF IInv, TypeOK
  <2> QED BY <2>1 DEF Call, Account
<1>2. PICK record \in Found(p, number) :
        \/ record = NoRecord /\ Return(p, "aborted")
        \/ /\ record # NoRecord
           /\ Goto(p, "lock")
           /\ call' = [call EXCEPT ![p] = [@ EXCEPT !.offset = record]]
  BY DEF Find
<1> HIDE DEF number
<1>3. CASE record = NoRecord /\ Return(p, "aborted")
  BY <1>1, <1>2, <1>3, ReturnDoes DEF number
<1>4. CASE /\ record # NoRecord
           /\ Goto(p, "lock")
           /\ call' = [call EXCEPT ![p] = [@ EXCEPT !.offset = record]]
  <2> DEFINE c1 == [call[p] EXCEPT !.offset = record]
  <2>1. /\ record \in DOMAIN accounts /\ record \in Nat
        /\ accounts[record].accountNumber = number
    BY <1>1, <1>2, <1>4, FoundType
  <2>2. /\ c1.offset = record /\ c1.service = call[p].service
        /\ c1.side = call[p].side /\ c1.own = call[p].own
        /\ c1.receiver = call[p].receiver /\ c1.amount = call[p].amount
    BY <1>1, <2>1, SetOffset
  <2>3. call'[p] = c1
    <3>1. call' = [call EXCEPT ![p] = c1]
      BY <1>4
    <3> HIDE DEF c1
    <3> QED BY <1>1, <3>1, AssignDoes
  <2> HIDE DEF c1
  <2> QED BY <1>1, <1>2, <1>4, <2>1, <2>2, <2>3, GotoDoes DEF number
<1> QED BY <1>2, <1>3, <1>4

LEMMA LockDoes ==
    ASSUME IInv, NEW p \in Processes, Lock(p)
    PROVE  pc'[p] = "write" /\ call'[p] = call[p] /\ told'[p] = told[p]
BY GotoDoes DEF IInv, Lock

LEMMA WriteDoes ==
    ASSUME IInv, NEW p \in Processes, Write(p)
    PROVE  LET c == call[p]
               d == call'[p]
           IN  \/ c.service # "send" /\ Ended(p)
               \/ /\ c.service = "send" /\ c.side = "own"
                  /\ pc'[p] = "find" /\ told'[p] = told[p]
                  /\ d.side = "receiver" /\ d.service = "send" /\ d.own = c.own
                  /\ d.receiver = c.receiver /\ d.amount = c.amount
               \/ /\ c.service = "send" /\ c.side = "receiver"
                  /\ pc'[p] = "log" /\ d = c /\ told'[p] = told[p]
<1>1. TypeOK /\ call[p] \in Call
  BY DEF IInv, TypeOK
<1>2. CASE /\ call[p].service = "send" /\ call[p].side = "own"
           /\ Goto(p, "find")
           /\ call' = [call EXCEPT ![p] = [@ EXCEPT !.side = "receiver"]]
  <2> DEFINE c1 == [call[p] EXCEPT !.side = "receiver"]
  <2>1. /\ c1.side = "receiver" /\ c1.service = call[p].service /\ c1.own = call[p].own
        /\ c1.receiver = call[p].receiver /\ c1.amount = call[p].amount
    BY <1>1, SetSide
  <2>2. call'[p] = c1
    <3>1. call' = [call EXCEPT ![p] = c1]
      BY <1>2
    <3> HIDE DEF c1
    <3> QED BY <1>1, <3>1, AssignDoes
  <2> HIDE DEF c1
  <2> QED BY <1>1, <1>2, <2>1, <2>2, GotoDoes
<1>3. CASE Return(p, "success") /\ call[p].service # "send"
  BY <1>1, <1>3, ReturnDoes
<1>4. CASE /\ call[p].service = "send" /\ call[p].side = "receiver"
           /\ Goto(p, "log") /\ UNCHANGED call
  BY <1>1, <1>4, GotoDoes
<1> QED BY <1>2, <1>3, <1>4 DEF Write

LEMMA DeleteDoes ==
    ASSUME IInv, NEW p \in Clerks, DeleteRead(p)
    PROVE  LET d == call'[p]
           IN  \/ Ended(p)
               \/ /\ pc'[p] = "lock" /\ d.service = "delete" /\ d.side = "own"
                  /\ d.offset \in DeleteTargets \cap Nat /\ ~d.own.active
                  /\ d.own.balance = 0
                  /\ d.offset \in DOMAIN accounts =>
                        d.own = [accounts[d.offset] EXCEPT !.active = FALSE]
<1>1. TypeOK /\ p \in Processes
  BY DEF IInv, Processes
<1>2. call[p] \in Call /\ call[p] = NoCall
  BY <1>1 DEF DeleteRead, Enter, At, IInv, CallsFit, Fits, TypeOK
<1>3. CASE \E m \in Messages : Return(p, m)
  BY <1>1, <1>3, ReturnDoes
<1>4. ASSUME NEW number \in DeleteTargets, number >= 0,
             NEW account \in IF number \in DOMAIN accounts
                             THEN {accounts[number]} ELSE Garbage,
             account.balance = 0, Goto(p, "lock"),
             call' = [call EXCEPT ![p] =
                        [@ EXCEPT !.service = "delete", !.offset = number,
                                  !.own = [account EXCEPT !.active = FALSE]]]
      PROVE  LET d == call'[p]
             IN  /\ pc'[p] = "lock" /\ d.service = "delete" /\ d.side = "own"
                 /\ d.offset \in DeleteTargets \cap Nat /\ ~d.own.active
                 /\ d.own.balance = 0
                 /\ d.offset \in DOMAIN accounts =>
                        d.own = [accounts[d.offset] EXCEPT !.active = FALSE]
  <2> DEFINE closed == [account EXCEPT !.active = FALSE]
             c1 == [call[p] EXCEPT !.service = "delete"]
             c2 == [c1 EXCEPT !.offset = number]
             c3 == [c2 EXCEPT !.own = closed]
  <2>1. account \in Account /\ number \in Nat
    <3>1. number \in Int /\ Garbage \subseteq Account
      BY ConstantsAssumption
    <3> QED BY <1>1, <1>4, <3>1 DEF TypeOK, IsFile
  <2>2. closed \in Account /\ ~closed.active /\ closed.balance = 0
    BY <1>4, <2>1 DEF Account
  <2>3. c1 \in Call /\ c1.service = "delete" /\ c1.side = "own"
    BY <1>2, SetService DEF NoCall
  <2>4. c2 \in Call /\ c2.service = "delete" /\ c2.side = "own" /\ c2.offset = number
    <3> HIDE DEF c1
    <3> QED BY <2>1, <2>3, SetOffset
  <2>5. /\ c3.service = "delete" /\ c3.side = "own" /\ c3.offset = number
        /\ c3.own = closed
    <3> HIDE DEF c2, closed
    <3> QED BY <2>2, <2>4, SetOwn
  <2>6. call'[p] = c3
    <3>1. call' = [call EXCEPT ![p] = c3]
      BY <1>4
    <3> HIDE DEF c3
    <3> QED BY <1>1, <3>1, AssignDoes
  <2>7. number \in DOMAIN accounts => closed = [accounts[number] EXCEPT !.active = FALSE]
    BY <1>4
  <2> HIDE DEF c1, c2, c3, closed
  <2> QED BY <1>1, <1>4, <2>1, <2>2, <2>5, <2>6, <2>7, GotoDoes
<1> QED BY <1>3, <1>4 DEF DeleteRead, Messages

LEMMA AddReadDoes ==
    ASSUME IInv, NEW p \in Clerks, AddRead(p)
    PROVE  LET d == call'[p]
               last == d.offset - 1
           IN  \/ Ended(p)
               \/ /\ pc'[p] = "append" /\ d.service = "add" /\ d.side = "own"
                  /\ d.offset \in Nat \ DOMAIN accounts /\ last \in DOMAIN accounts
                  /\ d.own.accountNumber = accounts[last].accountNumber + 1
                  /\ d.own.balance = 0
<1> DEFINE last == Max(DOMAIN accounts)
           new == [accountNumber |-> accounts[last].accountNumber + 1,
                   active |-> TRUE, balance |-> 0]
           c1 == [call[p] EXCEPT !.service = "add"]
           c2 == [c1 EXCEPT !.offset = last + 1]
           c3 == [c2 EXCEPT !.own = new]
<1>1. TypeOK /\ p \in Processes
  BY DEF IInv, Processes
<1>2. call[p] \in Call /\ call[p] = NoCall
  BY <1>1 DEF AddRead, Enter, At, IInv, CallsFit, Fits, TypeOK
<1>3. CASE Return(p, "aborted")
  BY <1>1, <1>3, ReturnDoes
<1>4. CASE Goto(p, "append") /\ call' = [call EXCEPT ![p] = c3]
  <2>1. last \in Nat /\ last \in DOMAIN accounts /\ last + 1 \notin DOMAIN accounts
        /\ accounts[last] \in Account
    <3>1. PICK n \in DOMAIN accounts : DOMAIN accounts = 0..n
      BY <1>1 DEF TypeOK, IsFile
    <3>2. n \in Nat /\ \A i \in DOMAIN accounts : n >= i
      BY <3>1
    <3>3. last \in DOMAIN accounts /\ \A i \in DOMAIN accounts : last >= i
      BY <3>1, <3>2 DEF Max
    <3> HIDE DEF last
    <3>4. last \in Nat /\ last + 1 \notin DOMAIN accounts
      BY <3>1, <3>2, <3>3
    <3> QED BY <1>1, <3>3, <3>4 DEF TypeOK, IsFile
  <2>2. new \in Account
    <3> HIDE DEF last
    <3> QED BY <2>1, IntFacts DEF Account
  <2>3. c1 \in Call /\ c1.service = "add" /\ c1.side = "own"
    BY <1>2, SetService DEF NoCall
  <2>4. c2 \in Call /\ c2.service = "add" /\ c2.side = "own" /\ c2.offset = last + 1
    <3> HIDE DEF c1, last
    <3> QED BY <2>1, <2>3, SetOffset
  <2>5. c3.service = "add" /\ c3.side = "own" /\ c3.offset = last + 1 /\ c3.own = new
    <3> HIDE DEF c2, new, last
    <3> QED BY <2>2, <2>4, SetOwn
  <2>6. call'[p] = c3
    <3>1. call' = [call EXCEPT ![p] = c3]
      BY <1>4
    <3> HIDE DEF c3
    <3> QED BY <1>1, <3>1, AssignDoes
  <2>7. new.accountNumber = accounts[last].accountNumber + 1 /\ new.balance = 0
    OBVIOUS
  <2> HIDE DEF c1, c2, c3, new, last
  <2> QED BY <1>1, <1>4, <2>1, <2>5, <2>6, <2>7, GotoDoes
<1> QED BY <1>3, <1>4 DEF AddRead

LEMMA OtherStepsDo ==
    ASSUME IInv, NEW p \in Processes
    PROVE  /\ LockOrWriteFails(p) => Ended(p)
           /\ AddWrite(p) => Ended(p)
           /\ Die(p) => UNCHANGED <<pc, call, told>>
BY ReturnDoes DEF IInv, LockOrWriteFails, AddWrite, Die

-----------------------------------------------------------------------------
(***************************************************************************)
(* Where the records are numbered by place, a clerk's call writes only to  *)
(* a record of the opening file, and what it writes there is closed.       *)
(***************************************************************************)
Closes(c) ==
    c.service = "delete" => c.offset \in DOMAIN Opening /\ ~c.own.active /\ c.side = "own"

ClosingCalls == \A p \in Processes : Closes(call[p])

LEMMA NextCloses ==
    ASSUME NumberedByPlace
    PROVE  IInv /\ IInv' /\ ClosingCalls /\ [Next]_vars => ClosingCalls'
<1> SUFFICES ASSUME IInv, IInv', ClosingCalls, [Next]_vars PROVE ClosingCalls'
  OBVIOUS
<1>1. CASE UNCHANGED vars
  BY <1>1 DEF vars, ClosingCalls
<1>2. ASSUME NEW p \in Processes, ClientStep(p) \/ ServerStep(p) \/ Failure(p)
      PROVE  ClosingCalls'
  <2>1. Others(p) /\ Closes(call[p]) /\ Fits(pc[p], call[p])
    BY <1>2, StepOthers DEF IInv, ClosingCalls, CallsFit
  <2>2. Closes(NoCall) /\ "delete" \notin Services
    BY DEF Closes, NoCall, Services
  <2>3. Closes(call'[p])
    <3>1. ASSUME p \in Customers, NEW service \in Services, Open(p, service)
          PROVE  Closes(call'[p])
      BY <2>2, <3>1, OpenDoes DEF Ended, Closes
    <3>2. CASE p \in Customers /\ To(p)
      BY <2>1, <2>2, <3>2, ToDoes DEF Ended, Closes
    <3>3. CASE p \in Customers /\ DepositAmount(p)
      BY <2>1, <2>2, <3>3, DepositDoes DEF Ended, Closes, Paid, DepositAmount
    <3>4. CASE p \in Customers /\ WithdrawAmount(p)
      BY <2>1, <2>2, <3>4, WithdrawDoes DEF Ended, Closes, Paid, WithdrawAmount
    <3>5. CASE p \in Customers /\ SendAmount(p)
      BY <2>1, <2>2, <3>5, SendDoes DEF Ended, Closes, Paid, SendAmount
    <3>6. CASE p \in Clerks /\ DeleteRead(p)
      <4>1. \A number \in DeleteTargets \cap Nat : number \in DOMAIN Opening
        BY DEF NumberedByPlace
      <4> QED BY <2>2, <3>6, <4>1, DeleteDoes DEF Ended, Closes
    <3>7. CASE p \in Clerks /\ AddRead(p)
      BY <2>2, <3>7, AddReadDoes DEF Ended, Closes
    <3>8. CASE Log(p) \/ Lock(p) \/ LockOrWriteFails(p) \/ AddWrite(p) \/ Die(p)
      BY <2>1, <2>2, <3>8, LogDoes, LockDoes, OtherStepsDo DEF Ended
    <3>9. CASE Find(p)
      <4>1. call[p].service \in Services
        BY <2>1, <3>9 DEF Find, At, Fits
      <4> QED BY <2>2, <3>9, <4>1, FindDoes DEF Ended, Closes
    <3>10. CASE Write(p)
      BY <2>1, <2>2, <3>10, WriteDoes DEF Ended, Closes
    <3> QED BY <1>2, <3>1, <3>2, <3>3, <3>4, <3>5, <3>6, <3>7, <3>8, <3>9, <3>10
            DEF ClientStep, ServerStep, Failure
  <2> QED BY <2>1, <2>3 DEF Others, ClosingCalls
<1> QED BY <1>1, <1>2 DEF Next

\* A clerk's write to a record closes that record.
LEMMA WriteCloses ==
    ASSUME NumberedByPlace, IInv, NumbersKept, StructsInPlace, ClosingCalls,
           NEW p \in Clerks, call[p].service = "delete", Write(p)
    PROVE  \E i \in DOMAIN accounts' :
                accounts'[i].accountNumber = call[p].offset /\ ~accounts'[i].active
<1> DEFINE i == call[p].offset
<1>1. p \in Processes /\ Closes(call[p]) /\ InPlace("write", call[p])
  BY DEF Processes, ClosingCalls, StructsInPlace, Write, At
<1>2. i \in DOMAIN Opening /\ i \in DOMAIN accounts /\ Struct(p) = call[p].own
  BY <1>1 DEF Closes, NumbersKept, Struct
<1>3. i \in DOMAIN accounts' /\ accounts'[i] = call[p].own
  BY <1>2 DEF Write, Put
<1>4. call[p].own.accountNumber = i /\ ~call[p].own.active
  BY <1>1, <1>2 DEF Closes, InPlace, Places, NumberedByPlace
<1> QED BY <1>3, <1>4

\* Where every record is numbered by its place, the account a clerk is told has
\* been deleted is the one whose number was typed: what run numbering refutes of
\* the shipped file is due to its numbers alone.
THEOREM ClerksCloseWhatTheyName ==
    ASSUME NumberedByPlace
    PROVE  Spec => DeletionClosesTheAccountNamed
<1>1. Init => NumbersKept /\ StructsInPlace /\ ClosingCalls
  BY DEF Init, NumbersKept, StructsInPlace, InPlace, Places, ClosingCalls, Closes, NoCall
<1>2. IInv /\ NumbersKept /\ StructsInPlace /\ ClosingCalls =>
        [\A p \in Clerks :
            call[p].service = "delete" /\ Write(p) =>
                \E i \in DOMAIN accounts' :
                    /\ accounts'[i].accountNumber = call[p].offset
                    /\ ~accounts'[i].active]_vars
  BY WriteCloses
<1> QED BY <1>1, <1>2, Invariance, NextInPlace, NextCloses, PTL
        DEF Spec, DeletionClosesTheAccountNamed

-----------------------------------------------------------------------------
(***************************************************************************)
(* No overdraft.  A struct is read from a record whose balance is not      *)
(* negative and leaves room for a payment; what is subtracted is checked   *)
(* on the struct, and what is added does not wrap: so no struct that may   *)
(* be written is negative, however much older than the record it is.       *)
(***************************************************************************)
Roomy(account) ==
    account.balance >= 0 /\ \A amount \in Amounts : account.balance + amount \in CInt

InCredit(account) == account.balance >= 0

Credit(place, c) ==
    /\ place \in {"to", "amount"} => Roomy(c.own)
    /\ place = "amount" /\ c.service = "send" => Roomy(c.receiver)
    /\ place \in {"log", "find", "lock", "write", "append"} => InCredit(c.own)
    /\ place \in {"log", "find", "lock", "write"} /\ c.service = "send" =>
            InCredit(c.receiver)

CallsInCredit == \A p \in Processes : Credit(pc[p], call[p])

\* What has been found may be paid from and to.
LEMMA HoldsRoomy ==
    ASSUME TypeOK, NoOverdraft, Headroom, NEW account, NEW number, Holds(account, number)
    PROVE  Roomy(account)
BY DEF NoOverdraft, Headroom, Holds, Roomy

\* A payment that is not negative, and does not wrap, leaves a balance in credit.
LEMMA PayCredit ==
    ASSUME NEW account \in Account, Roomy(account), NEW amount \in Amounts, amount >= 0
    PROVE  InCredit(Pay(account, amount))
<1>1. account.balance \in Int /\ amount \in Int /\ account.balance + amount \in CInt
  BY AmountSpan, IntFacts DEF Account, Roomy
<1>2. Wrap(account.balance + amount) = account.balance + amount
  BY <1>1, IntFacts DEF Wrap, CInt
<1>3. Pay(account, amount).balance = account.balance + amount
  BY <1>2 DEF Pay, Account
<1> QED BY <1>1, <1>3 DEF Roomy, InCredit

\* Taking no more than there is leaves no less than nothing.
LEMMA WithdrawCredit ==
    ASSUME Amounts \subseteq Nat, NEW account \in Account, NEW amount \in Amounts,
           CanWithdraw(account, amount)
    PROVE  InCredit(Pay(account, -amount))
<1>1. /\ account.balance \in Int /\ account.balance <= MaxInt
      /\ amount \in Nat /\ MaxInt \in Nat
  BY IntFacts DEF Account, CInt
<1>2. account.balance + -amount >= 0 /\ account.balance + -amount <= MaxInt
  BY <1>1 DEF CanWithdraw
<1>3. Wrap(account.balance + -amount) = account.balance + -amount
  BY <1>1, <1>2 DEF Wrap
<1>4. Pay(account, -amount).balance = account.balance + -amount
  BY <1>3 DEF Pay, Account
<1> QED BY <1>2, <1>4 DEF InCredit

LEMMA CreditStep ==
    ASSUME Amounts \subseteq Nat, IInv, IInv', CallsInCredit, NoOverdraft, Headroom,
           NEW p \in Processes, ClientStep(p) \/ ServerStep(p) \/ Failure(p)
    PROVE  CallsInCredit'
<1>1. /\ Others(p) /\ Credit(pc[p], call[p]) /\ Fits(pc[p], call[p])
      /\ TypeOK /\ call[p] \in Call
  BY StepOthers DEF IInv, CallsInCredit, CallsFit, TypeOK
<1>2. Ended(p) => Credit(pc'[p], call'[p])
  BY DEF Ended, Credit, NoCall, Hole
<1>3. Credit(pc'[p], call'[p])
  <2>1. ASSUME p \in Customers, NEW service \in Services, Open(p, service)
        PROVE  Credit(pc'[p], call'[p])
    BY <1>1, <1>2, <2>1, OpenDoes, HoldsRoomy DEF Credit
  <2>2. CASE p \in Customers /\ To(p)
    <3>1. Roomy(call[p].own)
      BY <1>1, <2>2 DEF To, At, Credit
    <3> QED BY <1>1, <1>2, <2>2, <3>1, ToDoes, HoldsRoomy DEF Credit
  <2>3. CASE p \in Customers /\ DepositAmount(p)
    <3>1. call[p].own \in Account /\ Roomy(call[p].own) /\ call[p].service = "deposit"
      BY <1>1, <2>3 DEF DepositAmount, At, Credit, Call
    <3>2. ASSUME NEW amount \in Amounts, amount > 0, pc'[p] = "log",
                 Paid(call[p], call'[p], amount, amount)
          PROVE  Credit(pc'[p], call'[p])
      <4>1. InCredit(call'[p].own)
        BY <3>1, <3>2, PayCredit DEF Paid
      <4> QED BY <3>1, <3>2, <4>1 DEF Credit, Paid
    <3> QED BY <1>2, <2>3, <3>2, DepositDoes
  <2>4. CASE p \in Customers /\ WithdrawAmount(p)
    <3>1. call[p].service = "withdraw"
      BY <2>4 DEF WithdrawAmount
    <3>2. CASE pc'[p] = "hung"
      BY <3>2 DEF Credit
    <3>3. ASSUME NEW amount \in Amounts, CanWithdraw(call[p].own, amount),
                 pc'[p] = "log", Paid(call[p], call'[p], amount, -amount)
          PROVE  Credit(pc'[p], call'[p])
      <4>1. InCredit(call'[p].own)
        BY <1>1, <3>3, WithdrawCredit DEF Paid, Call
      <4> QED BY <3>1, <3>3, <4>1 DEF Credit, Paid
    <3> QED BY <2>4, <3>2, <3>3, WithdrawDoes
  <2>5. CASE p \in Customers /\ SendAmount(p)
    <3>1. /\ call[p].receiver \in Account /\ Roomy(call[p].receiver)
          /\ call[p].service = "send"
      BY <1>1, <2>5 DEF SendAmount, At, Credit, Call
    <3>2. ASSUME NEW amount \in Amounts, CanPay(call[p].own, amount), pc'[p] = "find",
                 Paid(call[p], call'[p], amount, -amount),
                 call'[p].receiver = Pay(call[p].receiver, amount)
          PROVE  Credit(pc'[p], call'[p])
      <4>1. InCredit(call'[p].own)
        BY <3>2 DEF Paid, CanPay, InCredit
      <4>2. InCredit(call'[p].receiver)
        <5>1. amount >= 0
          OBVIOUS
        <5> QED BY <3>1, <3>2, <5>1, PayCredit
      <4> QED BY <3>2, <4>1, <4>2 DEF Credit
    <3> QED BY <1>2, <2>5, <3>2, SendDoes
  <2>6. CASE p \in Clerks /\ DeleteRead(p)
    <3>1. CASE /\ pc'[p] = "lock" /\ call'[p].service = "delete"
               /\ call'[p].own.balance = 0
      BY <3>1 DEF Credit, InCredit
    <3> QED BY <1>2, <2>6, <3>1, DeleteDoes
  <2>7. CASE p \in Clerks /\ AddRead(p)
    BY <1>2, <2>7, AddReadDoes DEF Credit, InCredit
  <2>8. CASE Log(p)
    BY <1>1, <1>2, <2>8, LogDoes DEF Log, At, Credit
  <2>9. CASE Find(p)
    BY <1>1, <1>2, <2>9, FindDoes DEF Find, At, Credit
  <2>10. CASE Lock(p)
    BY <1>1, <2>10, LockDoes DEF Lock, At, Credit
  <2>11. CASE Write(p)
    BY <1>1, <1>2, <2>11, WriteDoes DEF Write, At, Credit
  <2>12. CASE LockOrWriteFails(p) \/ AddWrite(p) \/ Die(p)
    BY <1>1, <1>2, <2>12, OtherStepsDo
  <2> QED BY <2>1, <2>2, <2>3, <2>4, <2>5, <2>6, <2>7, <2>8, <2>9, <2>10, <2>11, <2>12
          DEF ClientStep, ServerStep, Failure
<1> QED BY <1>1, <1>3 DEF Others, CallsInCredit

\* What is written is in credit, and a hole is.
LEMMA PutCredit ==
    ASSUME TypeOK, NoOverdraft, NEW record \in Nat, NEW account \in Account,
           InCredit(account), accounts' = Put(accounts, record, account)
    PROVE  NoOverdraft'
<1> DEFINE new == Put(accounts, record, account)
<1>1. \A i \in DOMAIN new :
            \/ i = record /\ new[i] = account
            \/ new[i] = Hole
            \/ i \in DOMAIN accounts /\ new[i] = accounts[i]
  BY PutType DEF TypeOK
<1> HIDE DEF new
<1>2. \A i \in DOMAIN new : new[i].balance >= 0
  BY <1>1 DEF NoOverdraft, InCredit, Hole
<1>3. accounts' = new
  BY DEF new
<1> QED BY <1>2, <1>3 DEF NoOverdraft

LEMMA NextCredit ==
    ASSUME Amounts \subseteq Nat
    PROVE  IInv /\ IInv' /\ CallsInCredit /\ NoOverdraft /\ Headroom /\ [Next]_vars
            => CallsInCredit' /\ NoOverdraft'
<1> SUFFICES ASSUME IInv, IInv', CallsInCredit, NoOverdraft, Headroom, [Next]_vars
             PROVE  CallsInCredit' /\ NoOverdraft'
  OBVIOUS
<1>1. CASE UNCHANGED vars
  BY <1>1 DEF vars, CallsInCredit, NoOverdraft
<1>2. ASSUME NEW p \in Processes, ClientStep(p) \/ ServerStep(p) \/ Failure(p)
      PROVE  CallsInCredit' /\ NoOverdraft'
  <2>1. CallsInCredit'
    BY <1>2, CreditStep
  <2>2. Credit(pc[p], call[p]) /\ Fits(pc[p], call[p]) /\ call[p] \in Call /\ TypeOK
    BY DEF CallsInCredit, IInv, CallsFit, TypeOK
  <2>3. CASE Write(p)
    <3>1. pc[p] = "write" /\ Struct(p) \in Account /\ call[p].offset \in Nat
      BY <2>2, <2>3 DEF Write, At, Struct, Call
    <3>2. InCredit(Struct(p))
      BY <2>2, <3>1 DEF Struct, Credit, Fits, Call
    <3> QED BY <2>1, <2>2, <2>3, <3>1, <3>2, PutCredit DEF Write
  <2>4. CASE AddWrite(p)
    <3>1. call[p].own \in Account /\ call[p].offset \in Nat /\ InCredit(call[p].own)
      BY <2>2, <2>4 DEF AddWrite, At, Credit, Call
    <3>2. accounts' = Put(accounts, call[p].offset, call[p].own) \/ accounts' = accounts
      BY <2>4 DEF AddWrite
    <3> QED BY <2>1, <2>2, <3>1, <3>2, PutCredit DEF NoOverdraft
  <2>5. CASE ~Write(p) /\ ~AddWrite(p)
    <3>1. accounts' = accounts
      BY <1>2, <2>5 DEF ClientStep, ServerStep, Open, To, DepositAmount, WithdrawAmount,
         SendAmount, DeleteRead, AddRead, Log, Find, Lock, Failure, LockOrWriteFails,
         Die
    <3> QED BY <2>1, <3>1 DEF NoOverdraft
  <2> QED BY <2>3, <2>4, <2>5
<1> QED BY <1>1, <1>2 DEF Next

\* As long as no balance comes within one payment of INT_MAX, no interleaving of
\* services that read, compute and write in separate steps takes an account below
\* zero, not even those that lose one another's payments.
THEOREM NoAccountOverdrawn ==
    ASSUME Amounts \subseteq Nat, \A i \in DOMAIN Opening : Opening[i].balance >= 0
    PROVE  Spec /\ []Headroom => []NoOverdraft
<1>1. Init => CallsInCredit /\ NoOverdraft
  BY DEF Init, CallsInCredit, Credit, NoOverdraft
<1> QED BY <1>1, Invariance, NextCredit, PTL DEF Spec

=============================================================================
