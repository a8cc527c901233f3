------------------------------ MODULE Dialogue ------------------------------
(***************************************************************************)
(* One connection from end to end: the server process that serves it, from *)
(* fork (server/server.c:49-139) through the login and the menu of a role  *)
(* to the last write, and the client (client/client.c:39-113) with the     *)
(* person in front of it.                                                  *)
(*                                                                         *)
(* The two share a stream and no protocol: the server writes a text and    *)
(* reads, the client reads a text and lets the marks in it decide whether  *)
(* it answers by itself (^ and ~), asks the person (no mark), asks for a   *)
(* password (#) or closes ($).  A service is here what it writes and reads *)
(* on the connection; what it does to the files is in the other modules.   *)
(* Of the record locks it needs for that, only the waiting is here.        *)
(***************************************************************************)
EXTENDS Naturals, Sequences

CONSTANT MaxRecords       \* bound: records in a passbook or a list of employees

ASSUME ConstantsAssumption == MaxRecords \in Nat

VARIABLES
    stage,        \* where connection_handler is
    role,         \* whose operation handler runs
    script,       \* what the current handler or service will still write and read
    next,         \* the stage after it
    waiting,      \* the head of the script has been written, its read is pending
    semaphore,    \* the process holds the login semaphore of a customer
    blocked,      \* the process is in fcntl(F_SETLKW), for a lock another holds
    toClient,     \* the texts in the stream
    toServer,     \* the answers in the stream, each with the text it answers
    client,       \* what the client's process does
    prompt,       \* the text the client has taken last
    skipped       \* what the person has left empty

serverVars == <<stage, role, script, next, waiting, semaphore, blocked>>
clientVars == <<client, prompt, skipped>>
vars == <<serverVars, toClient, toServer, clientVars>>

-----------------------------------------------------------------------------
(***************************************************************************)
(* The items of a script.  Each is a write and a read, unless it says      *)
(* otherwise:                                                              *)
(*   first    INITIAL_PROMPT; the read comes after a select of 60 seconds  *)
(*   menu     the menu of the role; the answer chooses a service           *)
(*   ask      a text without a mark; if the read fails the service returns *)
(*   hold     a text without a mark; the read is a dummy                   *)
(*   secret   the text with #                                              *)
(*   show     a text with ^; the read is a dummy                           *)
(*   clear    the text ~; the read is a dummy                              *)
(*   tell     a text without a mark, and no read                           *)
(*   bye      a text with $, and no read                                   *)
(*   listen   a read, and no text                                          *)
(***************************************************************************)
Items == {"first", "menu", "ask", "hold", "secret", "show", "clear", "tell",
          "bye", "listen"}

\* "timeout" is the text SESSION_TIMEOUT, which no script contains.
Texts == (Items \ {"listen"}) \cup {"timeout"}

Unread == {"tell", "bye"}

Shows(n) == [i \in 1..n |-> "show"]

\* x followed by one of the scripts in S.
Then(x, S) == {x \o s : s \in S}

Return == <<>>

\* A file fails and nothing is said, or the outcome is shown.
Told == {Return, <<"show">>}

\* get_account_details with a struct to fill: what is said when the caller returns.
AccountMissing == Told

GetBalance == Told

Deposit ==
    AccountMissing                                  \* or deactivated
        \cup {<<"ask">>, <<"ask", "show">>}         \* a file fails; 0, or invalid
        \cup Then(<<"ask", "show">>, GetBalance)

\* A refused amount is followed by the read of its own and the one at the end.
Withdraw ==
    AccountMissing
        \cup {<<"ask">>, <<"ask", "show", "listen">>}
        \cup Then(<<"ask", "show">>, GetBalance)

\* The receiver is the sender, absent or deactivated; the amount is refused; or it
\* is sent.
SendMoney ==
    AccountMissing
        \cup {<<"ask", "show">>, <<"ask", "ask">>, <<"ask", "ask", "show">>}
        \cup Then(<<"ask", "ask", "show">>, GetBalance)

\* PASSWORD_CHANGE_OLD_PASS_INVALID has no mark.
ChangePassword == {<<"ask", "hold">>, <<"ask", "ask", "ask">>,
                   <<"ask", "ask", "ask", "show">>}

GetPassbook ==
    {Return} \cup
    {<<"clear", "show">> \o Shows(n) \o <<"show", "hold">> : n \in 0..MaxRecords}

\* get_customer_details of the customer logged in; a clerk is asked for a number.
CustomerDetails == Told

GetAccountDetails == Then(<<"ask">>, Told)

GetTransactionDetails == Then(<<"ask">>, AccountMissing \cup Told)

\* A file fails, the phone number is wrong, or the customer is added.
AddCustomer == {Return, <<"ask", "ask">>, <<"ask", "ask", "show">>}

AddAccount == UNION {Then(<<"show">> \o s, Told) : s \in AddCustomer}

DeleteAccount == Then(<<"ask">>, Told)

\* The customer's number, the menu, the new value: each can be refused.
ModifyCustomerInfo ==
    UNION {Then(asks, Told) :
           asks \in {<<"ask">>, <<"ask", "ask">>, <<"ask", "ask", "ask">>}}

EmployeeDetails == Told

AddEmployee == {Return, <<"ask", "ask">>, <<"ask", "ask", "show">>}

\* The final text comes also when no employee was found.  After the details come
\* the menu and the new value.  For -1 get_employee_details asks for a number of its
\* own, and when it has shown that employee the seek to -1 ends the service.
ModifyEmployee ==
    {<<"ask", "show">>, <<"ask", "show", "show">>,
     <<"ask", "ask", "show">>, <<"ask", "ask", "show", "show">>}
        \cup Then(<<"ask", "show", "ask">>, Told)
        \cup Then(<<"ask", "show", "ask", "ask">>, Told)

ListAllEmployees ==
    {Return} \cup {<<"clear">> \o Shows(n) \o <<"hold">> : n \in 0..MaxRecords}

AddAdmin == {Return, <<"ask", "show">>}

Roles == {"admin", "customer", "employee"}

\* The cases of the menus.
Services(r) ==
    CASE r = "customer" ->
            CustomerDetails \cup Deposit \cup Withdraw \cup SendMoney
                \cup GetBalance \cup GetPassbook \cup ChangePassword
      [] r = "employee" ->
            Then(<<"ask">>, CustomerDetails) \cup GetAccountDetails \cup GetTransactionDetails
                \cup AddAccount \cup DeleteAccount \cup ModifyCustomerInfo
      [] r = "admin" ->
            Then(<<"ask">>, EmployeeDetails) \cup AddEmployee \cup ModifyEmployee
                \cup ListAllEmployees \cup AddAdmin

\* One turn of a menu, the first and the later ones.
FirstMenu(r) == IF r = "employee" THEN <<"menu">> ELSE <<"clear", "menu">>

\* Mutant of NextMenu: hold_screen without its dummy read.
NextMenuUnheld(r) ==
    IF r = "employee" THEN <<"menu">> ELSE <<"tell", "clear", "menu">>

NextMenu(r) == IF r = "employee" THEN <<"menu">> ELSE <<"hold", "clear", "menu">>

\* A login that ends the connection: no number in the login, no file, a password
\* of one character, a wrong one or another session.  When the number does not
\* fit an int the handler says so and goes on to ask for the password.
FailedLogins(r) ==
    LET notFound == IF r = "admin" THEN "tell" ELSE "bye"
    IN  {<<"ask", "bye">>, <<"ask">>, <<"ask", "secret">>, <<"ask", "secret", "bye">>,
         <<"ask", notFound, "secret">>, <<"ask", notFound, "secret", "bye">>}

-----------------------------------------------------------------------------
Init ==
    /\ stage = "accept"
    /\ role = "nobody"
    /\ script = Return
    /\ next = "done"
    /\ waiting = FALSE
    /\ semaphore = FALSE
    /\ blocked = FALSE
    /\ toClient = <<>>
    /\ toServer = <<>>
    /\ client = "reading"
    /\ prompt = "nothing"
    /\ skipped = {}

Serving == stage \in {"first", "login", "menu", "service"}

Ended == stage \in {"done", "killed"}

\* fork, or its failure: the connection is closed without a word.
Accept ==
    /\ stage = "accept"
    /\ \/ stage' = "first" /\ script' = <<"first">>
       \/ stage' = "done" /\ UNCHANGED script
    /\ UNCHANGED <<role, next, waiting, semaphore, blocked, toClient, toServer, clientVars>>

\* The write of the head of the script, which succeeds also when the client has
\* just gone.
Write ==
    /\ Serving
    /\ ~waiting
    /\ script # <<>>
    /\ toClient' = IF Head(script) = "listen" \/ client = "closed" THEN toClient
                   ELSE Append(toClient, Head(script))
    /\ IF Head(script) \in Unread
       THEN script' = Tail(script) /\ UNCHANGED waiting
       ELSE waiting' = TRUE /\ UNCHANGED script
    /\ UNCHANGED <<stage, role, next, semaphore, blocked, toServer, clientVars>>

\* The service returns to the menu, anything else to connection_handler.
Abandon ==
    /\ script' = Return
    /\ next' = IF stage = "service" THEN "menu" ELSE "done"

\* The client has gone and the write says so.  A service returns or, if it does
\* not look, goes on to its read.
WriteFails ==
    /\ Serving
    /\ ~waiting
    /\ script # <<>>
    /\ client = "closed"
    /\ CASE Head(script) \in Unread -> script' = Tail(script) /\ UNCHANGED <<next, waiting>>
         [] Head(script) \in {"clear", "hold"} -> waiting' = TRUE /\ UNCHANGED <<script, next>>
         [] Head(script) = "show" ->
                \/ waiting' = TRUE /\ UNCHANGED <<script, next>>
                \/ Abandon /\ UNCHANGED waiting
         [] OTHER -> Abandon /\ UNCHANGED waiting
    /\ UNCHANGED <<stage, role, semaphore, blocked, toClient, toServer, clientVars>>

\* The client has gone and the write raises SIGPIPE, which nobody handles.
BrokenPipe ==
    /\ Serving
    /\ ~waiting
    /\ script # <<>> /\ Head(script) # "listen"
    /\ client = "closed"
    /\ stage' = "killed"
    /\ UNCHANGED <<role, script, next, waiting, semaphore, blocked, toClient, toServer, clientVars>>

\* Mutant of Logout: the semaphore is not unlocked.
LogoutLocked ==
    /\ script' = <<"bye">>
    /\ next' = "done"
    /\ UNCHANGED <<stage, role, semaphore>>

\* Any key that is no service of the menu, or the end of the stream.
Logout ==
    /\ script' = <<"bye">>
    /\ next' = "done"
    /\ semaphore' = FALSE
    /\ UNCHANGED <<stage, role>>

\* connection_handler's switch on the answer to the first prompt.
ChooseRole ==
    /\ \/ \E r \in Roles :
            /\ role' = r
            /\ stage' = "login"
            /\ \/ script' = <<"ask", "secret">> /\ next' = "menu"
               \/ script' \in FailedLogins(r) /\ next' = "done"
       \/ script' = Return /\ next' = "done" /\ UNCHANGED <<role, stage>>
    /\ UNCHANGED semaphore

ChooseService ==
    \/ /\ stage' = "service"
       /\ script' \in Services(role)
       /\ next' = "menu"
       /\ UNCHANGED <<role, semaphore>>
    \/ Logout

\* After a read a login or a service may ask for a record lock before it writes
\* again, and another process may hold that lock.  Which ones do, and for how long,
\* is decided in the modules of the files; here any of them may have to wait.
MeetsALock ==
    blocked' \in IF stage' = "service" \/ (stage = "login" /\ Head(script) = "ask")
                 THEN BOOLEAN ELSE {FALSE}

\* The pending read returns what the client has sent.
Read ==
    /\ Serving
    /\ waiting
    /\ toServer # <<>>
    /\ toServer' = <<>>
    /\ waiting' = FALSE
    /\ CASE Head(script) = "first" -> ChooseRole
         [] Head(script) = "menu"  -> ChooseService
         [] OTHER -> script' = Tail(script) /\ UNCHANGED <<stage, role, next, semaphore>>
    /\ MeetsALock
    /\ UNCHANGED <<toClient, clientVars>>

\* Mutant of ReadNothing: an empty choice shows the menu again.
ReadNothingAgain ==
    /\ Serving
    /\ waiting
    /\ toServer = <<>>
    /\ client = "closed"
    /\ waiting' = FALSE
    /\ CASE Head(script) = "first"  -> Abandon /\ UNCHANGED semaphore
         [] Head(script) = "menu"   -> UNCHANGED <<script, next, semaphore>>
         [] OTHER -> script' = Tail(script) /\ UNCHANGED <<next, semaphore>>
    /\ UNCHANGED <<stage, role, toClient, toServer, clientVars>>
    /\ MeetsALock

\* The client has gone and the read returns 0: an empty answer, which the menus
\* take for a logout and the login for a wrong password.
ReadNothing ==
    /\ Serving
    /\ waiting
    /\ toServer = <<>>
    /\ client = "closed"
    /\ waiting' = FALSE
    /\ CASE Head(script) = "first"  -> Abandon /\ UNCHANGED <<stage, role, semaphore>>
         [] Head(script) = "menu"   -> Logout
         [] Head(script) = "secret" -> /\ script' = <<"bye">>
                                       /\ next' = "done"
                                       /\ UNCHANGED <<stage, role, semaphore>>
         [] OTHER -> script' = Tail(script) /\ UNCHANGED <<stage, role, next, semaphore>>
    /\ MeetsALock
    /\ UNCHANGED <<toClient, toServer, clientVars>>

\* The client has gone and the read returns -1.  Of the dummy reads only the first of
\* add_account is looked at; add_account goes on when add_customer has returned on
\* this; a failed read of the password is not noticed.
ReadFails ==
    /\ Serving
    /\ waiting
    /\ toServer = <<>>
    /\ client = "closed"
    /\ waiting' = FALSE
    /\ CASE Head(script) \in {"first", "menu"} -> Abandon
         [] Head(script) \in {"ask", "show"} ->
                Abandon \/ (script' = Tail(script) /\ UNCHANGED next)
         [] Head(script) = "secret" -> script' = <<"bye">> /\ next' = "done"
         [] OTHER -> script' = Tail(script) /\ UNCHANGED next
    /\ UNCHANGED <<stage, role, semaphore, toClient, toServer, clientVars>>
    /\ MeetsALock

\* Mutant of Timeout: select is called again.
TimeoutAgain == stage = "first" /\ waiting /\ toServer = <<>> /\ UNCHANGED vars

\* Nothing has come within 60 seconds of the first prompt.
Timeout ==
    /\ stage = "first"
    /\ waiting
    /\ toServer = <<>>
    /\ client # "closed"
    /\ stage' = "done"
    /\ waiting' = FALSE
    /\ script' = Return
    /\ toClient' = Append(toClient, "timeout")
    /\ UNCHANGED <<role, next, semaphore, blocked, toServer, clientVars>>

\* The end of a handler or a service.
ReturnFrom ==
    /\ Serving
    /\ script = Return
    /\ stage' = next
    /\ script' = IF next # "menu" THEN Return
                 ELSE IF stage = "service" THEN NextMenu(role) ELSE FirstMenu(role)
    /\ semaphore' = (semaphore \/ (stage = "login" /\ next = "menu" /\ role = "customer"))
    /\ next' = "done"
    /\ UNCHANGED <<role, waiting, blocked, toClient, toServer, clientVars>>

ServerStep ==
    /\ ~blocked
    /\ \/ Accept \/ Write \/ WriteFails \/ BrokenPipe
       \/ Read \/ ReadNothing \/ ReadFails \/ Timeout \/ ReturnFrom

\* The lock is given back, or its holder ends.
Granted ==
    /\ blocked
    /\ blocked' = FALSE
    /\ UNCHANGED <<stage, role, script, next, waiting, semaphore, toClient, toServer,
                   clientVars>>

-----------------------------------------------------------------------------
Close ==
    /\ client' = "closed"
    /\ toClient' = <<>>

\* Mutant of Take: the text taken is not the one that is answered.
TakeOld(n) ==
    /\ client' = IF toClient[n] = "bye" THEN "closed"
                 ELSE IF toClient[n] = "secret" THEN "hidden" ELSE "typing"
    /\ toClient' = SubSeq(toClient, n + 1, Len(toClient))
    /\ UNCHANGED <<toServer, prompt>>

\* Mutant of Take: ~ clears the screen and is not answered.
TakeSilently(n) ==
    /\ prompt' = toClient[n]
    /\ toClient' = SubSeq(toClient, n + 1, Len(toClient))
    /\ toServer' = IF toClient[n] = "show" THEN Append(toServer, "show") ELSE toServer
    /\ client' = CASE toClient[n] = "bye" -> "closed"
                   [] toClient[n] \in {"show", "clear"} -> client
                   [] toClient[n] = "secret" -> "hidden"
                   [] OTHER -> "typing"

\* What a read of the client has taken off the stream, which may be several texts
\* at once, is searched for one mark after the other.
Take(n) ==
    LET Among(x) == \E i \in 1..n : toClient[i] = x
    IN  /\ prompt' = toClient[n]
        /\ \/ /\ Among("show") \/ (~Among("bye") /\ Among("clear"))
              /\ toServer' = Append(toServer, toClient[n])
              /\ toClient' = SubSeq(toClient, n + 1, Len(toClient))
              /\ UNCHANGED client
           \/ /\ ~Among("show") /\ Among("bye")
              /\ Close
              /\ UNCHANGED toServer
           \/ /\ ~Among("show") /\ ~Among("bye") /\ ~Among("clear")
              /\ client' = IF Among("secret") THEN "hidden" ELSE "typing"
              /\ toClient' = SubSeq(toClient, n + 1, Len(toClient))
              /\ UNCHANGED toServer

Receive ==
    /\ client = "reading"
    /\ \E n \in 1..Len(toClient) : Take(n)
    /\ UNCHANGED <<serverVars, skipped>>

\* Mutant of EndOfStream: while (readBytes >= 0).
EndOfStreamReadOn ==
    client = "reading" /\ Ended /\ toClient = <<>> /\ UNCHANGED vars

\* The server has closed: read returns 0 or -1, and the loop ends.
EndOfStream ==
    /\ client = "reading"
    /\ Ended
    /\ toClient = <<>>
    /\ Close
    /\ UNCHANGED <<serverVars, toServer, prompt, skipped>>

\* scanf("%[^\n]%*c") finds the newline of an earlier empty line: nothing is
\* matched, nothing is sent, and the newline stays.
ScanNothing ==
    /\ client = "typing"
    /\ "line" \in skipped
    /\ client' = "reading"
    /\ UNCHANGED <<serverVars, toClient, toServer, prompt, skipped>>

ClientStep == Receive \/ EndOfStream \/ ScanNothing

\* The person types a line, or a password.
Answer ==
    /\ client = "hidden" \/ (client = "typing" /\ "line" \notin skipped)
    /\ client' = "reading"
    /\ toServer' = Append(toServer, prompt)
    /\ UNCHANGED <<serverVars, toClient, prompt, skipped>>

\* The person types nothing but the enter key, and write sends 0 bytes.
AnswerEmpty ==
    /\ client = "hidden" \/ (client = "typing" /\ "line" \notin skipped)
    /\ client' = "reading"
    /\ skipped' = skipped \cup {IF client = "hidden" THEN "password" ELSE "line"}
    /\ UNCHANGED <<serverVars, toClient, toServer, prompt>>

\* The person interrupts the client, or a write of it fails.
Quit ==
    /\ client # "closed"
    /\ Close
    /\ UNCHANGED <<serverVars, toServer, prompt, skipped>>

Person == Answer \/ AnswerEmpty \/ Quit

Next == ServerStep \/ Granted \/ ClientStep \/ Person

\* Both processes keep running, and 60 seconds pass.  Nobody has to type, and nobody
\* has to give back a lock the server waits for: it can be held through the dialogue
\* of another person, or for good by a service that has returned without unlocking.
Fairness == WF_vars(ServerStep) /\ WF_vars(ClientStep)

Spec == Init /\ [][Next]_vars

FairSpec == Spec /\ Fairness

-----------------------------------------------------------------------------
\* The type of every variable.
TypeOK ==
    /\ stage \in {"accept", "first", "login", "menu", "service", "done", "killed"}
    /\ role \in Roles \cup {"nobody"}
    /\ script \in Seq(Items)
    /\ next \in {"menu", "done"}
    /\ waiting \in BOOLEAN
    /\ semaphore \in BOOLEAN
    /\ blocked \in BOOLEAN
    /\ toClient \in Seq(Texts)
    /\ toServer \in Seq(Texts)
    /\ client \in {"reading", "typing", "hidden", "closed"}
    /\ prompt \in Texts \cup {"nothing"}
    /\ client \in {"typing", "hidden"} => prompt # "nothing"
    /\ skipped \subseteq {"line", "password"}

\* Both processes are in a read and nothing is on its way to either.
BothWait ==
    /\ Serving /\ waiting
    /\ client = "reading"
    /\ toClient = <<>> /\ toServer = <<>>

\* Server and client never wait for each other, whatever service runs and whatever
\* it says, with two exceptions: the second read of a refused withdrawal (the
\* item "listen" is in no other script), and an answer the person has left empty.
NobodyWaitsForEver ==
    BothWait => Head(script) = "listen" \/ skipped # {}

\* "this account doesn't exist" (admin.h:104) has no mark, is taken for a question,
\* and from there to the end of the login the answers are one behind.
ToldNotFound == role = "admin" /\ stage = "login" /\ next = "done"

\* The question on the person's screen is the one whose answer the server reads
\* next, and an answer in the stream is the answer to it: no text overtakes another,
\* no answer is left over for the question after.
AnswersMeetTheirPrompts ==
    Serving /\ ~ToldNotFound =>
        /\ client \in {"typing", "hidden"} => waiting /\ Head(script) = prompt
        /\ \A i \in 1..Len(toServer) : waiting /\ Head(script) = toServer[i]

\* A process ends with the login semaphore in its hands only if its client has
\* closed the connection first: a customer who answers to the end can come back.
SemaphoreLostOnlyWithItsClient == Ended /\ semaphore => client = "closed"

\* A server process whose client has gone comes to its end, unless it waits for ever
\* for a record lock, say in change_password for the lock add_customer holds through
\* its questions to a clerk who does not answer (customer.h:714, employee.h:336).
NoServerIsLeftBehind == client = "closed" ~> Ended \/ []blocked

\* The two always come back to the person, to an end, or to one of the mutual
\* waits of NobodyWaitsForEver, unless the server waits for ever for a record lock.
PersonIsServed ==
    []<>(client \in {"typing", "hidden", "closed"} \/ BothWait) \/ <>[]blocked

\* "No data received within 60 seconds" (constants.h:193).
FirstPromptEnds == stage = "first" ~> stage # "first"

=============================================================================
