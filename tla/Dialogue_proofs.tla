-------------------------- MODULE Dialogue_proofs ---------------------------
(***************************************************************************)
(* Whatever the services say, as long as what they say are scripts of      *)
(* writes and reads: server and client do not wait for each other, answers *)
(* meet their questions, and the semaphore is given back to whoever stays. *)
(***************************************************************************)
EXTENDS Dialogue, TLAPS

\* What a login or a service says; a failed login of an administrator may also tell.
Spoken == Items \ {"first", "menu", "tell"}

ScriptFits ==
    /\ waiting => script # <<>>
    /\ stage = "accept" => script = <<>> /\ next = "done"
    /\ stage = "first" => script \in {<<"first">>, <<>>} /\ next = "done"
    /\ stage \in {"login", "menu", "service"} => role \in Roles
    /\ stage \in {"login", "service"} =>
        script \in Seq(IF ToldNotFound THEN Spoken \cup {"tell"} ELSE Spoken)
    /\ stage = "menu" => script \in Seq(Spoken \cup {"menu"})

\* Nothing is under way but farewells and, behind them, the text whose answer the
\* server waits for; or that answer; or the person has the question.
InStep ==
    /\ \A i \in 1..Len(toClient) :
        toClient[i] = "bye" \/ (i = Len(toClient) /\ waiting /\ toClient[i] = Head(script))
    /\ toClient # <<>> => toServer = <<>> /\ client = "reading"
    /\ client # "reading" => waiting /\ prompt = Head(script) /\ toServer = <<>>

\* The same for the server's side alone, when the client may have gone.
AnswerFits == toServer # <<>> => waiting /\ toServer = <<Head(script)>>

TurnsFit ==
    ~Ended /\ ~ToldNotFound => AnswerFits /\ (client # "closed" => InStep)

\* A process that holds the semaphore of a customer who is there is on its way back
\* to the menu.
OnTheWay ==
    \/ stage = "service" /\ next = "menu"
    \/ stage = "menu" /\ script # <<>> /\ script[Len(script)] = "menu"

SemaphoreFits == semaphore /\ client # "closed" => OnTheWay

\* The inductive invariant.
IInv == TypeOK /\ ScriptFits /\ NobodyWaitsForEver /\ TurnsFit /\ SemaphoreFits

-----------------------------------------------------------------------------
\* A sequence over a smaller set is one over a larger.
LEMMA WiderSeq ==
    ASSUME NEW S, NEW T, S \subseteq T, NEW s \in Seq(S)
    PROVE  s \in Seq(T)
OBVIOUS

\* Then, of scripts over T.
LEMMA ThenFits ==
    ASSUME NEW T, NEW x \in Seq(T), NEW S, S \subseteq Seq(T)
    PROVE  Then(x, S) \subseteq Seq(T)
<1> SUFFICES ASSUME NEW s \in S PROVE x \o s \in Seq(T)
  BY DEF Then
<1> QED OBVIOUS

\* A row of shows.
LEMMA ShowsFit ==
    ASSUME NEW n \in Nat
    PROVE  Shows(n) \in Seq(Spoken)
<1>1. Shows(n) \in [1..n -> Spoken]
  BY DEF Shows, Spoken, Items
<1> QED BY <1>1

\* What the shortest scripts consist of.
LEMMA ShortFit ==
    /\ <<>> \in Seq(Spoken)
    /\ <<"ask">> \in Seq(Spoken) /\ <<"show">> \in Seq(Spoken)
    /\ <<"hold">> \in Seq(Spoken) /\ <<"clear">> \in Seq(Spoken)
    /\ <<"ask", "show">> \in Seq(Spoken)
    /\ <<"ask", "ask">> \in Seq(Spoken)
    /\ <<"ask", "hold">> \in Seq(Spoken)
    /\ <<"clear", "show">> \in Seq(Spoken)
    /\ <<"show", "hold">> \in Seq(Spoken)
    /\ <<"ask", "secret">> \in Seq(Spoken)
    /\ <<"bye">> \in Seq(Spoken)
BY DEF Spoken, Items

LEMMA FirstFits == <<>> \in Seq(Items) /\ <<"first">> \in Seq(Items)
BY DEF Items

LEMMA LongerFit ==
    /\ <<"ask", "show", "listen">> \in Seq(Spoken)
    /\ <<"ask", "ask", "show">> \in Seq(Spoken)
    /\ <<"ask", "ask", "ask">> \in Seq(Spoken)
    /\ <<"ask", "show", "show">> \in Seq(Spoken)
    /\ <<"ask", "show", "ask">> \in Seq(Spoken)
    /\ <<"ask", "ask", "ask", "show">> \in Seq(Spoken)
    /\ <<"ask", "show", "ask", "ask">> \in Seq(Spoken)
    /\ <<"ask", "ask", "show", "show">> \in Seq(Spoken)
BY DEF Spoken, Items

\* The services of a customer are scripts without farewells to the dialogue.
LEMMA CustomerServicesFit == Services("customer") \subseteq Seq(Spoken)
<1> USE ShortFit, LongerFit
<1>1. Told \subseteq Seq(Spoken)
  BY DEF Told, Return
<1>2. /\ AccountMissing \subseteq Seq(Spoken) /\ GetBalance \subseteq Seq(Spoken)
      /\ CustomerDetails \subseteq Seq(Spoken)
  BY <1>1 DEF AccountMissing, GetBalance, CustomerDetails
<1>3. /\ Then(<<"ask", "show">>, GetBalance) \subseteq Seq(Spoken)
      /\ Then(<<"ask", "ask", "show">>, GetBalance) \subseteq Seq(Spoken)
  BY <1>2, ThenFits
<1>4. /\ Deposit \subseteq Seq(Spoken) /\ Withdraw \subseteq Seq(Spoken)
      /\ SendMoney \subseteq Seq(Spoken) /\ ChangePassword \subseteq Seq(Spoken)
  BY <1>2, <1>3 DEF Deposit, Withdraw, SendMoney, ChangePassword
<1>5. GetPassbook \subseteq Seq(Spoken)
  <2> SUFFICES ASSUME NEW n \in 0..MaxRecords
               PROVE  <<"clear", "show">> \o Shows(n) \o <<"show", "hold">> \in Seq(Spoken)
    BY DEF GetPassbook, Return
  <2>1. n \in Nat
    BY ConstantsAssumption
  <2>2. Shows(n) \in Seq(Spoken)
    BY <2>1, ShowsFit
  <2> QED BY <2>2
<1> QED BY <1>2, <1>4, <1>5 DEF Services

LEMMA EmployeeServicesFit == Services("employee") \subseteq Seq(Spoken)
<1> USE ShortFit, LongerFit
<1>1. Told \subseteq Seq(Spoken) /\ AccountMissing \cup Told \subseteq Seq(Spoken)
  BY DEF Told, AccountMissing, Return
<1>2. /\ Then(<<"ask">>, CustomerDetails) \subseteq Seq(Spoken)
      /\ GetAccountDetails \subseteq Seq(Spoken)
      /\ GetTransactionDetails \subseteq Seq(Spoken)
      /\ DeleteAccount \subseteq Seq(Spoken)
  BY <1>1, ThenFits DEF CustomerDetails, GetAccountDetails, GetTransactionDetails, DeleteAccount
<1>3. AddCustomer \subseteq Seq(Spoken)
  BY DEF AddCustomer, Return
<1>4. AddAccount \subseteq Seq(Spoken)
  <2> SUFFICES ASSUME NEW s \in AddCustomer
               PROVE  Then(<<"show">> \o s, Told) \subseteq Seq(Spoken)
    BY DEF AddAccount
  <2>1. <<"show">> \o s \in Seq(Spoken)
    BY <1>3
  <2> QED BY <1>1, <2>1, ThenFits
<1>5. ModifyCustomerInfo \subseteq Seq(Spoken)
  BY <1>1, ThenFits DEF ModifyCustomerInfo
<1> QED BY <1>2, <1>4, <1>5 DEF Services

LEMMA AdminServicesFit == Services("admin") \subseteq Seq(Spoken)
<1> USE ShortFit, LongerFit
<1>1. Told \subseteq Seq(Spoken)
  BY DEF Told, Return
<1>2. Then(<<"ask">>, EmployeeDetails) \subseteq Seq(Spoken)
  BY <1>1, ThenFits DEF EmployeeDetails
<1>3. AddEmployee \subseteq Seq(Spoken) /\ AddAdmin \subseteq Seq(Spoken)
  BY DEF AddEmployee, AddAdmin, Return
<1>4. ModifyEmployee \subseteq Seq(Spoken)
  BY <1>1, ThenFits DEF ModifyEmployee
<1>5. ListAllEmployees \subseteq Seq(Spoken)
  <2> SUFFICES ASSUME NEW n \in 0..MaxRecords
               PROVE  <<"clear">> \o Shows(n) \o <<"hold">> \in Seq(Spoken)
    BY DEF ListAllEmployees, Return
  <2>1. n \in Nat
    BY ConstantsAssumption
  <2>2. Shows(n) \in Seq(Spoken)
    BY <2>1, ShowsFit
  <2> QED BY <2>2
<1> QED BY <1>2, <1>3, <1>4, <1>5 DEF Services

\* Every service of every role.
LEMMA ServicesFit ==
    ASSUME NEW r \in Roles
    PROVE  Services(r) \subseteq Seq(Spoken)
BY CustomerServicesFit, EmployeeServicesFit, AdminServicesFit DEF Roles

\* A failed login; an administrator's may tell.
LEMMA FailedLoginsFit ==
    ASSUME NEW r \in Roles
    PROVE  /\ FailedLogins(r) \subseteq Seq(Spoken \cup {"tell"})
           /\ r # "admin" => FailedLogins(r) \subseteq Seq(Spoken)
<1>1. \A x \in {"tell", "bye"} :
        {<<"ask", "bye">>, <<"ask">>, <<"ask", "secret">>, <<"ask", "secret", "bye">>,
         <<"ask", x, "secret">>, <<"ask", x, "secret", "bye">>} \subseteq Seq(Spoken \cup {"tell"})
  BY DEF Spoken, Items
<1>2. {<<"ask", "bye">>, <<"ask">>, <<"ask", "secret">>, <<"ask", "secret", "bye">>,
       <<"ask", "bye", "secret">>, <<"ask", "bye", "secret", "bye">>} \subseteq Seq(Spoken)
  BY DEF Spoken, Items
<1> QED BY <1>1, <1>2 DEF FailedLogins

\* A menu ends with the question which service it shall be.
LEMMA MenusFit ==
    ASSUME NEW r, NEW s \in {FirstMenu(r), NextMenu(r)}
    PROVE  s \in Seq(Spoken \cup {"menu"}) /\ s # <<>> /\ s[Len(s)] = "menu"
<1>1. /\ <<"menu">> \in Seq(Spoken \cup {"menu"})
      /\ <<"clear", "menu">> \in Seq(Spoken \cup {"menu"})
      /\ <<"hold", "clear", "menu">> \in Seq(Spoken \cup {"menu"})
  BY DEF Spoken, Items
<1>2. s \in {<<"menu">>, <<"clear", "menu">>, <<"hold", "clear", "menu">>}
  BY DEF FirstMenu, NextMenu
<1>3. CASE s = <<"menu">>
  BY <1>1, <1>3
<1>4. CASE s = <<"clear", "menu">>
  BY <1>1, <1>4
<1>5. CASE s = <<"hold", "clear", "menu">>
  BY <1>1, <1>5
<1> QED BY <1>2, <1>3, <1>4, <1>5

\* What is left of a script after its head.
LEMMA TailFits ==
    ASSUME NEW T, NEW s \in Seq(T), s # <<>>
    PROVE  /\ Head(s) \in T /\ Tail(s) \in Seq(T)
           /\ s[Len(s)] = "menu" /\ Head(s) # "menu" =>
                Tail(s) # <<>> /\ Tail(s)[Len(Tail(s))] = "menu"
<1>1. Head(s) = s[1] /\ Len(s) \in Nat \ {0}
  OBVIOUS
<1>2. Tail(s) \in Seq(T) /\ Len(Tail(s)) = Len(s) - 1
  OBVIOUS
<1>3. ASSUME Len(s) # 1 PROVE Tail(s)[Len(s) - 1] = s[Len(s)]
  <2>1. \A i \in 1..Len(s) - 1 : Tail(s)[i] = s[i + 1]
    OBVIOUS
  <2>2. ASSUME NEW n \in Nat, n # 0, n # 1 PROVE n - 1 \in 1..n - 1 /\ (n - 1) + 1 = n
    BY <2>2
  <2>3. Len(s) - 1 \in 1..Len(s) - 1 /\ (Len(s) - 1) + 1 = Len(s)
    BY <1>1, <1>3, <2>2
  <2> QED BY <2>1, <2>3
<1>4. ASSUME s[Len(s)] = "menu", Head(s) # "menu" PROVE Len(s) # 1
  BY <1>1, <1>4
<1> QED BY <1>1, <1>2, <1>3, <1>4

-----------------------------------------------------------------------------
\* The initial states satisfy the invariant.
LEMMA InitIInv == Init => IInv
<1> SUFFICES ASSUME Init PROVE IInv
  OBVIOUS
<1> USE DEF Init
<1>1. TypeOK
  <2>1. /\ script \in Seq(Items) /\ toClient \in Seq(Texts)
        /\ toServer \in Seq(Texts)
    BY DEF Return
  <2> QED BY <2>1 DEF TypeOK
<1>2. ScriptFits
  BY DEF ScriptFits, Return
<1>3. NobodyWaitsForEver
  BY DEF NobodyWaitsForEver, BothWait
<1>4. TurnsFit
  BY DEF TurnsFit, AnswerFits, InStep
<1>5. SemaphoreFits
  BY DEF SemaphoreFits
<1> QED BY <1>1, <1>2, <1>3, <1>4, <1>5 DEF IInv

\* Without a step nothing changes.
LEMMA StutterStep == IInv /\ UNCHANGED vars => IInv'
BY DEF IInv, vars, serverVars, clientVars, TypeOK, ScriptFits, NobodyWaitsForEver,
       TurnsFit, SemaphoreFits, ToldNotFound, BothWait, Serving, Ended, AnswerFits,
       InStep, OnTheWay

\* The head of the script of a handler that runs.
LEMMA HeadFits ==
    ASSUME IInv, Serving, script # <<>>
    PROVE  /\ Head(script) \in Items /\ Tail(script) \in Seq(Items)
           /\ stage = "first" => script = <<"first">>
           /\ stage # "first" => Head(script) # "first"
           /\ stage # "menu" => Head(script) # "menu"
           /\ Head(script) = "tell" => ToldNotFound
           /\ stage \in {"login", "service"} =>
                Tail(script) \in Seq(IF ToldNotFound THEN Spoken \cup {"tell"} ELSE Spoken)
           /\ stage = "menu" => Tail(script) \in Seq(Spoken \cup {"menu"})
<1> USE DEF IInv, Serving
<1>1. script \in Seq(Items)
  BY DEF TypeOK
<1>2. Head(script) \in Items /\ Tail(script) \in Seq(Items)
  BY <1>1, TailFits
<1>3. CASE stage = "first"
  <2>1. script = <<"first">>
    BY <1>3 DEF ScriptFits
  <2> QED BY <1>2, <1>3, <2>1
<1>4. CASE stage \in {"login", "service"}
  <2> DEFINE T == IF ToldNotFound THEN Spoken \cup {"tell"} ELSE Spoken
  <2>1. script \in Seq(T)
    BY <1>4 DEF ScriptFits
  <2>2. Head(script) \in T /\ Tail(script) \in Seq(T)
    BY <2>1, TailFits
  <2> QED BY <1>2, <1>4, <2>2 DEF Spoken
<1>5. CASE stage = "menu"
  <2> DEFINE T == Spoken \cup {"menu"}
  <2>1. script \in Seq(T)
    BY <1>5 DEF ScriptFits
  <2> HIDE DEF T
  <2>2. Head(script) \in T /\ Tail(script) \in Seq(T)
    BY <2>1, TailFits
  <2> QED BY <1>2, <1>5, <2>2 DEF T, Spoken
<1> QED BY <1>3, <1>4, <1>5

\* Going on to the item after the head, by a write that is not answered or a read.
LEMMA GoesOn ==
    ASSUME IInv, Serving, script # <<>>, ~(waiting'),
           stage # "first", Head(script) # "menu",
           script' = Tail(script), UNCHANGED <<stage, role, next, semaphore, client>>
    PROVE  ScriptFits' /\ script' \in Seq(Items) /\ SemaphoreFits'
<1>1. ScriptFits' /\ script' \in Seq(Items)
  BY HeadFits DEF IInv, ScriptFits, ToldNotFound
<1>2. script \in Seq(Items)
  BY DEF IInv, TypeOK
<1>3. ASSUME semaphore, client # "closed", stage = "menu"
      PROVE  script' # <<>> /\ script'[Len(script')] = "menu"
  <2>1. script[Len(script)] = "menu"
    BY <1>3 DEF IInv, SemaphoreFits, OnTheWay
  <2> QED BY <1>2, <2>1, TailFits
<1>4. SemaphoreFits'
  BY <1>3 DEF IInv, SemaphoreFits, OnTheWay
<1> QED BY <1>1, <1>4

\* The server forks, or does not.
LEMMA AcceptStep == IInv /\ Accept => IInv'
<1> SUFFICES ASSUME IInv, Accept PROVE IInv'
  OBVIOUS
<1> USE DEF IInv, Accept, clientVars
<1>1. ~waiting /\ script = <<>>
  BY DEF ScriptFits
<1>2. TypeOK'
  <2>1. script' \in Seq(Items)
    BY <1>1, FirstFits
  <2> QED BY <2>1 DEF TypeOK
<1>3. ScriptFits'
  BY <1>1 DEF ScriptFits
<1>4. NobodyWaitsForEver'
  BY <1>1 DEF NobodyWaitsForEver, BothWait
<1>5. TurnsFit'
  <2>1. ~Ended /\ ~ToldNotFound
    BY DEF Ended, ToldNotFound
  <2>2. AnswerFits /\ (client # "closed" => InStep)
    BY <2>1 DEF TurnsFit
  <2> QED BY <1>1, <2>2 DEF TurnsFit, AnswerFits, InStep
<1>6. SemaphoreFits'
  BY DEF SemaphoreFits, OnTheWay
<1> QED BY <1>2, <1>3, <1>4, <1>5, <1>6

\* The server writes the head of the script.
LEMMA WriteStep == IInv /\ Write => IInv'
<1> SUFFICES ASSUME IInv, Write PROVE IInv'
  OBVIOUS
<1> USE DEF Write, clientVars
<1>1. /\ Head(script) \in Items
      /\ Head(script) = "tell" => ToldNotFound
      /\ stage = "first" => script = <<"first">>
  BY HeadFits
<1>2. script \in Seq(Items) /\ toClient \in Seq(Texts) /\ toServer \in Seq(Texts)
  BY DEF IInv, TypeOK
<1>3. Head(script) \in Unread => /\ stage # "first" /\ Head(script) # "menu"
                                  /\ script' = Tail(script) /\ ~(waiting')
  BY <1>1 DEF Unread
<1>4. toClient' \in Seq(Texts)
  BY <1>1, <1>2 DEF Texts
<1>5. ScriptFits' /\ script' \in Seq(Items) /\ SemaphoreFits'
  <2>1. CASE Head(script) \in Unread
    BY <1>3, <2>1, GoesOn DEF clientVars
  <2>2. CASE Head(script) \notin Unread
    BY <1>2, <2>2 DEF IInv, ScriptFits, SemaphoreFits, ToldNotFound, OnTheWay
  <2> QED BY <2>1, <2>2
<1>6. TypeOK'
  BY <1>4, <1>5 DEF IInv, TypeOK
<1>7. NobodyWaitsForEver'
  <2> SUFFICES ASSUME BothWait', Head(script) # "listen" PROVE FALSE
    BY <1>3 DEF NobodyWaitsForEver, BothWait
  <2>1. toClient' = Append(toClient, Head(script))
    BY DEF BothWait
  <2>2. toClient' # <<>>
    BY <1>2, <2>1
  <2> QED BY <2>2 DEF BothWait
<1>8. TurnsFit'
  <2> SUFFICES ASSUME ~Ended, ~ToldNotFound PROVE AnswerFits' /\ (client # "closed" => InStep')
    BY DEF TurnsFit, Ended, ToldNotFound
  <2>1. AnswerFits /\ (client # "closed" => InStep)
    BY DEF IInv, TurnsFit
  <2>2. toServer = <<>>
    BY <2>1 DEF AnswerFits
  <2>3. ASSUME client # "closed" PROVE InStep'
    <3>1. client = "reading" /\ \A i \in 1..Len(toClient) : toClient[i] = "bye"
      BY <2>1, <2>3 DEF InStep
    <3>2. CASE Head(script) = "listen"
      BY <2>2, <3>1, <3>2 DEF InStep
    <3>3. CASE Head(script) # "listen"
      <4>1. toClient' = Append(toClient, Head(script))
        BY <2>3, <3>3
      <4>2. /\ Len(toClient') = Len(toClient) + 1 /\ Len(toClient) \in Nat
            /\ toClient'[Len(toClient) + 1] = Head(script)
            /\ \A i \in 1..Len(toClient) : toClient'[i] = toClient[i]
        BY <1>2, <4>1
      <4>3. Head(script) = "bye" \/ (waiting' /\ UNCHANGED script)
        <5>1. CASE Head(script) \in Unread
          BY <1>1, <5>1 DEF Unread
        <5>2. CASE Head(script) \notin Unread
          BY <5>2
        <5> QED BY <5>1, <5>2
      <4>4. ASSUME NEW i \in 1..Len(toClient')
            PROVE  \/ toClient'[i] = "bye"
                   \/ i = Len(toClient') /\ waiting' /\ toClient'[i] = Head(script')
        <5>1. i \in 1..Len(toClient) \/ i = Len(toClient) + 1
          BY <4>2
        <5> QED BY <3>1, <4>2, <4>3, <5>1
      <4> QED BY <2>2, <3>1, <4>4 DEF InStep
    <3> QED BY <3>2, <3>3
  <2> QED BY <2>2, <2>3 DEF AnswerFits
<1> QED BY <1>5, <1>6, <1>7, <1>8 DEF IInv

\* A farewell, or nothing, that fits every stage but the first.
LEMMA EndFits ==
    ASSUME IInv, Serving, ~(waiting'), UNCHANGED <<stage, role>>,
           script' = <<>> \/ (script' = <<"bye">> /\ stage # "first"),
           stage = "first" => next' = "done"
    PROVE  ScriptFits' /\ script' \in Seq(Items)
<1>1. script' \in Seq(Spoken)
  BY ShortFit
<1>2. /\ script' \in Seq(Spoken \cup {"tell"}) /\ script' \in Seq(Spoken \cup {"menu"})
      /\ script' \in Seq(Items)
  BY <1>1, WiderSeq DEF Spoken
<1> QED BY <1>1, <1>2 DEF IInv, ScriptFits, Serving

\* The client has gone and a write fails.
LEMMA WriteFailsStep == IInv /\ WriteFails => IInv'
<1> SUFFICES ASSUME IInv, WriteFails PROVE IInv'
  OBVIOUS
<1> USE DEF WriteFails, clientVars
<1>1. /\ Head(script) \in Items
      /\ stage = "first" => script = <<"first">>
  BY HeadFits
<1>2. toServer = <<>> \/ Ended \/ ToldNotFound
  BY DEF IInv, TurnsFit, AnswerFits
<1>3. SemaphoreFits'
  BY DEF SemaphoreFits
<1>4. NobodyWaitsForEver'
  BY DEF NobodyWaitsForEver, BothWait
<1>5. CASE Head(script) \in Unread
  <2>1. /\ stage # "first" /\ Head(script) # "menu" /\ ~(waiting')
        /\ script' = Tail(script) /\ UNCHANGED <<next, waiting>>
    BY <1>1, <1>5 DEF Unread
  <2>2. ScriptFits' /\ script' \in Seq(Items)
    BY <2>1, GoesOn
  <2>3. TypeOK'
    BY <2>1, <2>2 DEF IInv, TypeOK
  <2>4. TurnsFit'
    BY <1>2, <2>1 DEF TurnsFit, Ended, ToldNotFound, AnswerFits
  <2> QED BY <1>3, <1>4, <2>2, <2>3, <2>4 DEF IInv
<1>6. CASE waiting' = TRUE /\ UNCHANGED <<script, next>>
  <2>1. ScriptFits' /\ TypeOK'
    BY <1>6 DEF IInv, ScriptFits, TypeOK, ToldNotFound
  <2>2. TurnsFit'
    BY <1>2, <1>6 DEF TurnsFit, Ended, ToldNotFound, AnswerFits
  <2> QED BY <1>3, <1>4, <2>1, <2>2 DEF IInv
<1>7. CASE Abandon /\ UNCHANGED waiting
  <2>1. script' = <<>> /\ next' \in {"menu", "done"}
    BY <1>7 DEF Abandon, Return
  <2>2. ScriptFits' /\ TypeOK'
    <3>1. stage = "first" => next' = "done"
      BY <1>7 DEF Abandon
    <3>2. ScriptFits' /\ script' \in Seq(Items)
      BY <1>7, <2>1, <3>1, EndFits
    <3> QED BY <1>7, <2>1, <3>2 DEF IInv, TypeOK
  <2>3. ToldNotFound => ToldNotFound'
    BY <1>7 DEF ToldNotFound, Abandon
  <2>4. TurnsFit'
    BY <1>2, <1>7, <2>3 DEF TurnsFit, Ended, AnswerFits
  <2> QED BY <1>3, <1>4, <2>2, <2>4 DEF IInv
<1> QED BY <1>1, <1>5, <1>6, <1>7

\* The client has gone and a write kills the server.
LEMMA BrokenPipeStep == IInv /\ BrokenPipe => IInv'
<1> SUFFICES ASSUME IInv, BrokenPipe PROVE IInv'
  OBVIOUS
<1> USE DEF IInv, BrokenPipe, clientVars
<1>1. TypeOK' /\ ScriptFits'
  BY DEF TypeOK, ScriptFits
<1>2. NobodyWaitsForEver' /\ TurnsFit' /\ SemaphoreFits'
  BY DEF NobodyWaitsForEver, BothWait, Serving, TurnsFit, Ended, SemaphoreFits
<1> QED BY <1>1, <1>2

\* The choice of a role, a service or the way out leaves a script that fits.
LEMMA ChosenFits ==
    ASSUME IInv, Serving, waiting, ~(waiting'), UNCHANGED client,
           \/ stage = "first" /\ ChooseRole
           \/ stage = "menu" /\ ChooseService
    PROVE  /\ ScriptFits' /\ script' \in Seq(Items)
           /\ stage' \in {"first", "login", "menu", "service"}
           /\ role' \in Roles \cup {"nobody"} /\ next' \in {"menu", "done"}
           /\ semaphore' \in BOOLEAN
           /\ SemaphoreFits'
<1> USE DEF IInv, Return, TypeOK
<1>1. CASE stage = "first" /\ script' = <<>> /\ next' = "done" /\ UNCHANGED <<role, stage, semaphore>>
  <2>1. ScriptFits'
    BY <1>1 DEF ScriptFits
  <2> QED BY <1>1, <2>1 DEF SemaphoreFits, OnTheWay
<1>2. ASSUME stage = "first", UNCHANGED semaphore, NEW r \in Roles, role' = r, stage' = "login",
             \/ script' = <<"ask", "secret">> /\ next' = "menu"
             \/ script' \in FailedLogins(r) /\ next' = "done"
      PROVE  ScriptFits' /\ script' \in Seq(Items) /\ next' \in {"menu", "done"} /\ SemaphoreFits'
  <2>1. script' \in Seq(IF ToldNotFound' THEN Spoken \cup {"tell"} ELSE Spoken)
    BY <1>2, ShortFit, FailedLoginsFit DEF ToldNotFound
  <2>2. ScriptFits'
    BY <1>2, <2>1 DEF ScriptFits
  <2>3. script' \in Seq(Spoken \cup {"tell"})
    BY <1>2, ShortFit, FailedLoginsFit, WiderSeq
  <2>4. script' \in Seq(Items)
    BY <2>3 DEF Spoken, Items
  <2> QED BY <1>2, <2>2, <2>4 DEF SemaphoreFits, OnTheWay
<1>3. CASE /\ stage = "menu" /\ stage' = "service" /\ script' \in Services(role) /\ next' = "menu"
           /\ UNCHANGED <<role, semaphore>>
  <2>1. role \in Roles
    BY <1>3 DEF ScriptFits
  <2>2. script' \in Seq(Spoken) /\ ~ToldNotFound'
    BY <1>3, <2>1, ServicesFit DEF ToldNotFound
  <2>3. ScriptFits'
    BY <1>3, <2>1, <2>2 DEF ScriptFits
  <2>4. script' \in Seq(Items)
    BY <2>2 DEF Spoken
  <2> QED BY <1>3, <2>3, <2>4 DEF SemaphoreFits, OnTheWay
<1>4. CASE stage = "menu" /\ Logout
  <2>1. role \in Roles
    BY <1>4 DEF ScriptFits
  <2>2. script' \in Seq(Spoken \cup {"menu"}) /\ script' \in Seq(Items)
    BY <1>4 DEF Logout, Spoken, Items
  <2>3. ScriptFits'
    BY <1>4, <2>1, <2>2 DEF ScriptFits, Logout
  <2> QED BY <1>4, <2>2, <2>3 DEF SemaphoreFits, Logout
<1> QED BY <1>1, <1>2, <1>3, <1>4 DEF ChooseRole, ChooseService

\* The pending read returns an answer.
LEMMA ReadStep == IInv /\ Read => IInv'
<1> SUFFICES ASSUME IInv, Read PROVE IInv'
  OBVIOUS
<1> USE DEF Read, clientVars
<1>1. /\ script # <<>>
      /\ stage = "first" => Head(script) = "first"
      /\ stage # "first" => Head(script) # "first"
      /\ stage # "menu" => Head(script) # "menu"
  BY HeadFits DEF IInv, ScriptFits
<1>2. toServer' = <<>> /\ ~(waiting') /\ UNCHANGED <<toClient, clientVars>>
  OBVIOUS
<1>3. /\ ScriptFits' /\ script' \in Seq(Items) /\ SemaphoreFits'
      /\ stage' \in {"first", "login", "menu", "service"}
      /\ role' \in Roles \cup {"nobody"} /\ next' \in {"menu", "done"}
      /\ semaphore' \in BOOLEAN
  <2>1. CASE Head(script) \in {"first", "menu"}
    <3>1. (stage = "first" /\ ChooseRole) \/ (stage = "menu" /\ ChooseService)
      BY <1>1, <2>1
    <3> QED BY <1>2, <3>1, ChosenFits
  <2>2. CASE Head(script) \notin {"first", "menu"}
    <3>1. script' = Tail(script) /\ UNCHANGED <<stage, role, next, semaphore>>
      BY <2>2
    <3>2. ScriptFits' /\ script' \in Seq(Items) /\ SemaphoreFits'
      BY <1>1, <1>2, <2>2, <3>1, GoesOn
    <3> QED BY <3>1, <3>2 DEF IInv, TypeOK, Serving
  <2> QED BY <2>1, <2>2
<1>4. TypeOK'
  <2>1. toServer' \in Seq(Texts)
    BY <1>2
  <2>2. blocked' \in BOOLEAN
    BY DEF MeetsALock
  <2> QED BY <1>2, <1>3, <2>1, <2>2 DEF IInv, TypeOK
<1>5. NobodyWaitsForEver'
  BY <1>2 DEF NobodyWaitsForEver, BothWait
<1>6. TurnsFit'
  <2> SUFFICES ASSUME ~ToldNotFound', client # "closed" PROVE InStep'
    BY <1>2 DEF TurnsFit, AnswerFits
  <2>1. ~ToldNotFound /\ ~Ended
    BY <1>1 DEF ToldNotFound, Ended, Serving
  <2>2. InStep
    BY <2>1 DEF IInv, TurnsFit
  <2>3. toClient = <<>> /\ client = "reading"
    BY <2>2 DEF InStep
  <2> QED BY <1>2, <2>3 DEF InStep
<1> QED BY <1>3, <1>4, <1>5, <1>6 DEF IInv

\* A read that ends without an answer: what its three forms have in common.
LEMMA NothingRead ==
    ASSUME IInv, toServer = <<>>, waiting' = FALSE, client = "closed",
           ScriptFits', script' \in Seq(Items), next' \in {"menu", "done"},
           semaphore' \in BOOLEAN, MeetsALock,
           UNCHANGED <<stage, role, toClient, toServer, clientVars>>
    PROVE  IInv'
<1>0. blocked' \in BOOLEAN
  BY DEF MeetsALock
<1>1. TypeOK'
  BY <1>0 DEF IInv, TypeOK, clientVars
<1>2. NobodyWaitsForEver' /\ SemaphoreFits'
  BY DEF NobodyWaitsForEver, BothWait, SemaphoreFits, clientVars
<1>3. TurnsFit'
  BY DEF TurnsFit, AnswerFits, clientVars
<1> QED BY <1>1, <1>2, <1>3 DEF IInv

\* The client has gone: its stream ends.
LEMMA ReadNothingStep == IInv /\ ReadNothing => IInv'
<1> SUFFICES ASSUME IInv, ReadNothing PROVE IInv'
  OBVIOUS
<1> USE DEF ReadNothing
<1>1. /\ script # <<>>
      /\ stage = "first" => Head(script) = "first"
      /\ stage # "first" => Head(script) # "first"
      /\ stage # "menu" => Head(script) # "menu"
  BY HeadFits DEF IInv, ScriptFits
<1>2. next \in {"menu", "done"} /\ semaphore \in BOOLEAN
  BY DEF IInv, TypeOK
<1>3. CASE Head(script) \in {"first", "menu", "secret"}
  <2>1. /\ script' = <<>> \/ (script' = <<"bye">> /\ stage # "first")
        /\ UNCHANGED <<stage, role>> /\ next' \in {"menu", "done"} /\ semaphore' \in BOOLEAN
        /\ stage = "first" => next' = "done"
    BY <1>1, <1>2, <1>3 DEF Abandon, Return, Logout
  <2> QED BY <2>1, EndFits, NothingRead
<1>4. CASE Head(script) \notin {"first", "menu", "secret"}
  <2>1. script' = Tail(script) /\ UNCHANGED <<stage, role, next, semaphore, client>>
    BY <1>4 DEF clientVars
  <2>2. ScriptFits' /\ script' \in Seq(Items)
    BY <1>1, <1>4, <2>1, GoesOn
  <2> QED BY <1>2, <2>1, <2>2, NothingRead
<1> QED BY <1>3, <1>4

\* The client has gone: the read fails.
LEMMA ReadFailsStep == IInv /\ ReadFails => IInv'
<1> SUFFICES ASSUME IInv, ReadFails PROVE IInv'
  OBVIOUS
<1> USE DEF ReadFails
<1>1. /\ script # <<>>
      /\ stage = "first" => Head(script) = "first"
      /\ stage # "menu" => Head(script) # "menu"
  BY HeadFits DEF IInv, ScriptFits
<1>2. next \in {"menu", "done"} /\ semaphore \in BOOLEAN
  BY DEF IInv, TypeOK
<1>3. CASE Abandon \/ (Head(script) = "secret" /\ script' = <<"bye">> /\ next' = "done")
  <2>1. /\ script' = <<>> \/ (script' = <<"bye">> /\ stage # "first")
        /\ UNCHANGED <<stage, role, semaphore>> /\ next' \in {"menu", "done"}
        /\ stage = "first" => next' = "done"
    BY <1>1, <1>2, <1>3 DEF Abandon, Return
  <2> QED BY <1>2, <2>1, EndFits, NothingRead
<1>4. CASE script' = Tail(script) /\ UNCHANGED next /\ Head(script) \notin {"first", "menu"}
  <2>1. stage # "first" /\ UNCHANGED <<stage, role, next, semaphore, client>>
    BY <1>1, <1>4 DEF clientVars
  <2>2. ScriptFits' /\ script' \in Seq(Items)
    BY <1>1, <1>4, <2>1, GoesOn
  <2> QED BY <1>2, <2>1, <2>2, NothingRead
<1> QED BY <1>3, <1>4

\* Nothing has come within 60 seconds.
LEMMA TimeoutStep == IInv /\ Timeout => IInv'
<1> SUFFICES ASSUME IInv, Timeout PROVE IInv'
  OBVIOUS
<1> USE DEF Timeout, clientVars
<1>1. TypeOK'
  <2>1. toClient' \in Seq(Texts)
    BY DEF IInv, TypeOK, Texts
  <2>2. script' \in Seq(Items)
    BY FirstFits DEF Return
  <2> QED BY <2>1, <2>2 DEF IInv, TypeOK
<1>2. ScriptFits'
  BY DEF ScriptFits, Return
<1>3. NobodyWaitsForEver' /\ TurnsFit' /\ SemaphoreFits'
  BY DEF IInv, NobodyWaitsForEver, BothWait, Serving, TurnsFit, Ended, SemaphoreFits, OnTheWay
<1> QED BY <1>1, <1>2, <1>3 DEF IInv

\* The end of a handler or a service.
LEMMA ReturnStep == IInv /\ ReturnFrom => IInv'
<1> SUFFICES ASSUME IInv, ReturnFrom PROVE IInv'
  OBVIOUS
<1> USE DEF ReturnFrom, clientVars
<1>1. ~waiting /\ script = <<>>
  BY DEF IInv, ScriptFits, Return
<1>2. next \in {"menu", "done"}
  BY DEF IInv, TypeOK
<1>3. CASE next = "done"
  <2>1. script' = <<>> /\ stage' = "done"
    BY <1>3 DEF Return
  <2>2. semaphore' = semaphore
    BY <1>3 DEF IInv, TypeOK
  <2>3. TypeOK'
    <3>1. script' \in Seq(Items)
      BY <2>1, FirstFits
    <3> QED BY <2>1, <2>2, <3>1 DEF IInv, TypeOK
  <2>4. ScriptFits'
    BY <1>1, <2>1 DEF ScriptFits
  <2>5. NobodyWaitsForEver' /\ TurnsFit'
    BY <2>1 DEF NobodyWaitsForEver, BothWait, Serving, TurnsFit, Ended
  <2>6. SemaphoreFits'
    BY <1>1, <1>3, <2>2 DEF IInv, SemaphoreFits, OnTheWay
  <2> QED BY <2>3, <2>4, <2>5, <2>6 DEF IInv
<1>4. CASE next = "menu"
  <2>1. stage' = "menu" /\ script' \in {FirstMenu(role), NextMenu(role)}
    BY <1>4
  <2>2. script' \in Seq(Spoken \cup {"menu"}) /\ script' # <<>> /\ script'[Len(script')] = "menu"
    BY <2>1, MenusFit
  <2>3. ScriptFits'
    <3>1. role \in Roles
      BY <1>4 DEF IInv, ScriptFits, Serving
    <3> QED BY <1>1, <2>1, <2>2, <3>1 DEF ScriptFits
  <2>4. TypeOK'
    <3>1. script' \in Seq(Items)
      BY <2>2 DEF Spoken, Items
    <3>2. semaphore' \in BOOLEAN
      BY DEF IInv, TypeOK
    <3> QED BY <2>1, <3>1, <3>2 DEF IInv, TypeOK
  <2>5. NobodyWaitsForEver'
    BY <1>1 DEF NobodyWaitsForEver, BothWait
  <2>6. TurnsFit'
    <3>1. ~Ended /\ ~ToldNotFound
      BY <1>4 DEF Ended, Serving, ToldNotFound
    <3>2. AnswerFits /\ (client # "closed" => InStep)
      BY <3>1 DEF IInv, TurnsFit
    <3> QED BY <1>1, <3>2 DEF TurnsFit, AnswerFits, InStep
  <2>7. SemaphoreFits'
    BY <2>1, <2>2 DEF SemaphoreFits, OnTheWay
  <2> QED BY <2>3, <2>4, <2>5, <2>6, <2>7 DEF IInv
<1> QED BY <1>2, <1>3, <1>4

\* A lock is given back: of the invariant, only a type looks at it.
LEMMA GrantedStep == IInv /\ Granted => IInv'
<1> SUFFICES ASSUME IInv, Granted PROVE IInv'
  OBVIOUS
<1> USE DEF IInv, Granted, clientVars
<1>1. TypeOK'
  BY DEF TypeOK
<1>2. ScriptFits' /\ SemaphoreFits'
  BY DEF ScriptFits, SemaphoreFits, ToldNotFound, OnTheWay
<1>3. NobodyWaitsForEver' /\ TurnsFit'
  BY DEF NobodyWaitsForEver, BothWait, Serving, TurnsFit, ToldNotFound, Ended, AnswerFits, InStep
<1> QED BY <1>1, <1>2, <1>3

-----------------------------------------------------------------------------
\* What a step of the client or the person leaves alone.
LEMMA ServerStays ==
    ASSUME IInv, UNCHANGED serverVars,
           toClient' \in Seq(Texts), toServer' \in Seq(Texts),
           client' \in {"reading", "typing", "hidden", "closed"},
           prompt' \in Texts \cup {"nothing"}, skipped' \subseteq {"line", "password"},
           client' \in {"typing", "hidden"} => prompt' # "nothing",
           client = "closed" => client' = "closed"
    PROVE  /\ TypeOK' /\ ScriptFits' /\ SemaphoreFits'
           /\ UNCHANGED <<Serving, Ended, ToldNotFound>>
<1> USE DEF serverVars
<1>1. TypeOK' /\ ScriptFits'
  BY DEF IInv, TypeOK, ScriptFits, ToldNotFound
<1>2. SemaphoreFits'
  BY DEF IInv, SemaphoreFits, OnTheWay
<1> QED BY <1>1, <1>2 DEF Serving, Ended, ToldNotFound

\* A client that closes waits for nothing.
LEMMA CloseStep ==
    ASSUME IInv, Close, UNCHANGED serverVars, UNCHANGED <<toServer, skipped>>,
           prompt' \in Texts \cup {"nothing"}
    PROVE  IInv'
<1>1. TypeOK' /\ ScriptFits' /\ SemaphoreFits' /\ UNCHANGED <<Serving, Ended, ToldNotFound>>
  <2>1. toClient' \in Seq(Texts) /\ client' = "closed"
    BY DEF Close
  <2> QED BY <2>1, ServerStays DEF IInv, TypeOK
<1>2. NobodyWaitsForEver'
  BY DEF NobodyWaitsForEver, BothWait, Close
<1>3. TurnsFit'
  BY <1>1 DEF IInv, TurnsFit, AnswerFits, Close, serverVars
<1> QED BY <1>1, <1>2, <1>3 DEF IInv

\* The server has closed.
LEMMA EndOfStreamStep == IInv /\ EndOfStream => IInv'
BY CloseStep DEF EndOfStream, IInv, TypeOK

\* The person has enough.
LEMMA QuitStep == IInv /\ Quit => IInv'
BY CloseStep DEF Quit, IInv, TypeOK

\* The client reads on.
LEMMA ScanNothingStep == IInv /\ ScanNothing => IInv'
<1> SUFFICES ASSUME IInv, ScanNothing PROVE IInv'
  OBVIOUS
<1> USE DEF ScanNothing
<1>1. TypeOK' /\ ScriptFits' /\ SemaphoreFits' /\ UNCHANGED <<Serving, Ended, ToldNotFound>>
  BY ServerStays DEF IInv, TypeOK
<1>2. NobodyWaitsForEver'
  BY DEF NobodyWaitsForEver, BothWait
<1>3. TurnsFit'
  BY <1>1 DEF IInv, TurnsFit, AnswerFits, InStep, serverVars
<1> QED BY <1>1, <1>2, <1>3 DEF IInv

\* The person answers.
LEMMA AnswerStep == IInv /\ Answer => IInv'
<1> SUFFICES ASSUME IInv, Answer PROVE IInv'
  OBVIOUS
<1> USE DEF Answer
<1>1. toServer \in Seq(Texts) /\ prompt \in Texts \cup {"nothing"}
  BY DEF IInv, TypeOK
<1>2. prompt \in Texts
  BY DEF IInv, TypeOK
<1>3. toServer' \in Seq(Texts) /\ toServer' # <<>>
  BY <1>1, <1>2
<1>4. TypeOK' /\ ScriptFits' /\ SemaphoreFits' /\ UNCHANGED <<Serving, Ended, ToldNotFound>>
  BY <1>3, ServerStays DEF IInv, TypeOK
<1>5. NobodyWaitsForEver'
  BY <1>3 DEF NobodyWaitsForEver, BothWait
<1>6. TurnsFit'
  <2> SUFFICES ASSUME ~Ended, ~ToldNotFound PROVE AnswerFits' /\ InStep'
    BY <1>4 DEF TurnsFit
  <2>1. InStep
    BY DEF IInv, TurnsFit
  <2>2. waiting /\ prompt = Head(script) /\ toServer = <<>> /\ toClient = <<>>
    BY <2>1 DEF InStep
  <2>3. toServer' = <<Head(script)>>
    BY <1>2, <2>2
  <2> QED BY <2>2, <2>3 DEF AnswerFits, InStep, serverVars
<1> QED BY <1>4, <1>5, <1>6 DEF IInv

\* The person answers nothing.
LEMMA AnswerEmptyStep == IInv /\ AnswerEmpty => IInv'
<1> SUFFICES ASSUME IInv, AnswerEmpty PROVE IInv'
  OBVIOUS
<1> USE DEF AnswerEmpty
<1>1. skipped' \subseteq {"line", "password"} /\ skipped' # {}
  BY DEF IInv, TypeOK
<1>2. TypeOK' /\ ScriptFits' /\ SemaphoreFits' /\ UNCHANGED <<Serving, Ended, ToldNotFound>>
  BY <1>1, ServerStays DEF IInv, TypeOK
<1>3. NobodyWaitsForEver'
  BY <1>1 DEF NobodyWaitsForEver
<1>4. TurnsFit'
  BY <1>2 DEF IInv, TurnsFit, AnswerFits, InStep, serverVars
<1> QED BY <1>2, <1>3, <1>4 DEF IInv

\* The client takes what has come.
LEMMA ReceiveStep == IInv /\ Receive => IInv'
<1> SUFFICES ASSUME IInv, client = "reading", NEW n \in 1..Len(toClient), Take(n),
                    UNCHANGED <<serverVars, skipped>>
             PROVE  IInv'
  BY DEF Receive
<1> DEFINE Among(x) == \E i \in 1..n : toClient[i] = x
<1> DEFINE rest == SubSeq(toClient, n + 1, Len(toClient))
<1>1. /\ toClient \in Seq(Texts) /\ toServer \in Seq(Texts)
      /\ skipped \subseteq {"line", "password"}
  BY DEF IInv, TypeOK
<1>2. n \in Nat /\ n >= 1 /\ Len(toClient) \in Nat /\ n <= Len(toClient)
  BY <1>1
<1>3. toClient[n] \in Texts /\ toClient[n] # "nothing" /\ rest \in Seq(Texts)
  <2>1. toClient[n] \in Texts /\ rest \in Seq(Texts)
    BY <1>1, <1>2
  <2> QED BY <2>1 DEF Texts, Items
<1>4. n = Len(toClient) => rest = <<>>
  BY <1>1, <1>2
<1>5. prompt' = toClient[n]
  BY DEF Take
<1>6. ASSUME ~Ended, ~ToldNotFound
      PROVE  /\ toServer = <<>>
             /\ \A i \in 1..Len(toClient) :
                    \/ toClient[i] = "bye"
                    \/ i = Len(toClient) /\ waiting /\ toClient[i] = Head(script)
  <2>1. InStep
    BY <1>6 DEF IInv, TurnsFit
  <2>2. toClient # <<>>
    BY <1>2
  <2> QED BY <2>1, <2>2 DEF InStep
<1> HIDE DEF rest
<1>7. CASE /\ Among("show") \/ (~Among("bye") /\ Among("clear"))
           /\ toServer' = Append(toServer, toClient[n])
           /\ toClient' = rest
           /\ UNCHANGED client
  <2>1. toServer' \in Seq(Texts) /\ toServer' # <<>>
    BY <1>1, <1>3, <1>7
  <2>2. TypeOK' /\ ScriptFits' /\ SemaphoreFits' /\ UNCHANGED <<Serving, Ended, ToldNotFound>>
    BY <1>1, <1>3, <1>5, <1>7, <2>1, ServerStays
  <2>3. NobodyWaitsForEver'
    BY <2>1 DEF NobodyWaitsForEver, BothWait
  <2>4. TurnsFit'
    <3> SUFFICES ASSUME ~Ended, ~ToldNotFound PROVE AnswerFits' /\ InStep'
      BY <2>2 DEF TurnsFit
    <3>1. PICK i \in 1..n : toClient[i] \in {"show", "clear"}
      BY <1>7
    <3>2. i = Len(toClient) /\ waiting /\ toClient[i] = Head(script)
      BY <1>2, <1>6, <3>1
    <3>3. n = Len(toClient) /\ toClient[n] = Head(script)
      BY <1>2, <3>2
    <3>4. toServer' = <<Head(script)>> /\ toClient' = <<>>
      BY <1>4, <1>6, <1>7, <3>3
    <3> QED BY <1>7, <3>2, <3>4 DEF AnswerFits, InStep, serverVars
  <2> QED BY <2>2, <2>3, <2>4 DEF IInv
<1>8. CASE Close /\ UNCHANGED toServer
  BY <1>3, <1>5, <1>8, CloseStep
<1>9. CASE /\ ~Among("show") /\ ~Among("bye") /\ ~Among("clear")
           /\ client' \in {"hidden", "typing"}
           /\ toClient' = rest
           /\ UNCHANGED toServer
  <2>1. TypeOK' /\ ScriptFits' /\ SemaphoreFits' /\ UNCHANGED <<Serving, Ended, ToldNotFound>>
    BY <1>1, <1>3, <1>5, <1>9, ServerStays
  <2>2. NobodyWaitsForEver'
    BY <1>9 DEF NobodyWaitsForEver, BothWait
  <2>3. TurnsFit'
    <3> SUFFICES ASSUME ~Ended, ~ToldNotFound PROVE AnswerFits' /\ InStep'
      BY <2>1 DEF TurnsFit
    <3>1. toClient[1] # "bye"
      BY <1>2, <1>9
    <3>2. 1 = Len(toClient) /\ waiting /\ toClient[1] = Head(script)
      BY <1>2, <1>6, <3>1
    <3>3. n = Len(toClient) /\ n = 1
      <4>1. Len(toClient) = 1
        BY <3>2
      <4> QED BY <1>2, <4>1
    <3>4. toClient' = <<>> /\ prompt' = Head(script) /\ toServer' = <<>>
      BY <1>4, <1>5, <1>6, <1>9, <3>2, <3>3
    <3> QED BY <3>2, <3>4 DEF AnswerFits, InStep, serverVars
  <2> QED BY <2>1, <2>2, <2>3 DEF IInv
<1> QED BY <1>7, <1>8, <1>9 DEF Take, rest

-----------------------------------------------------------------------------
\* The invariant holds in every reachable state, and with it everything it implies.
THEOREM Invariance == Spec => []IInv
<1>1. IInv /\ [Next]_vars => IInv'
  <2> SUFFICES ASSUME IInv, [Next]_vars PROVE IInv'
    OBVIOUS
  <2>1. CASE ServerStep
    BY <2>1, AcceptStep, WriteStep, WriteFailsStep, BrokenPipeStep, ReadStep, ReadNothingStep,
       ReadFailsStep, TimeoutStep, ReturnStep DEF ServerStep
  <2>2. CASE ClientStep
    BY <2>2, ReceiveStep, EndOfStreamStep, ScanNothingStep DEF ClientStep
  <2>3. CASE Person
    BY <2>3, AnswerStep, AnswerEmptyStep, QuitStep DEF Person
  <2>4. CASE UNCHANGED vars
    BY <2>4, StutterStep
  <2>5. CASE Granted
    BY <2>5, GrantedStep
  <2> QED BY <2>1, <2>2, <2>3, <2>4, <2>5 DEF Next
<1> QED BY InitIInv, <1>1, PTL DEF Spec

\* Every variable keeps its type, whatever the services say and the person types.
THEOREM TypeCorrect == Spec => []TypeOK
<1>1. IInv => TypeOK
  BY DEF IInv
<1> QED BY <1>1, Invariance, PTL

\* Server and client never wait for each other (but for the second read of withdraw
\* and for empty answers), however long a passbook is.
THEOREM NeverBothWait == Spec => []NobodyWaitsForEver
<1>1. IInv => NobodyWaitsForEver
  BY DEF IInv
<1> QED BY <1>1, Invariance, PTL

\* The server reads each answer for the question it was given to.
THEOREM AnswersFit == Spec => []AnswersMeetTheirPrompts
<1>1. IInv => AnswersMeetTheirPrompts
  <2> SUFFICES ASSUME IInv, Serving, ~ToldNotFound
               PROVE  /\ client \in {"typing", "hidden"} => waiting /\ Head(script) = prompt
                      /\ \A i \in 1..Len(toServer) : waiting /\ Head(script) = toServer[i]
    BY DEF AnswersMeetTheirPrompts
  <2>1. AnswerFits /\ (client # "closed" => InStep)
    BY DEF IInv, TurnsFit, Ended, Serving
  <2>2. ASSUME NEW i \in 1..Len(toServer) PROVE waiting /\ Head(script) = toServer[i]
    <3>1. toServer # <<>>
      BY DEF IInv, TypeOK
    <3>2. waiting /\ toServer = <<Head(script)>>
      BY <2>1, <3>1 DEF AnswerFits
    <3> QED BY <3>2
  <2> QED BY <2>1, <2>2 DEF InStep
<1> QED BY <1>1, Invariance, PTL

\* A customer who does not close the connection gets the semaphore back.
THEOREM SemaphoreReturned == Spec => []SemaphoreLostOnlyWithItsClient
<1>1. IInv => SemaphoreLostOnlyWithItsClient
  BY DEF IInv, SemaphoreFits, OnTheWay, SemaphoreLostOnlyWithItsClient, Ended
<1> QED BY <1>1, Invariance, PTL

=============================================================================
