-------------------------- MODULE RelayInformation --------------------------
(***************************************************************************)
(* What a relay task keeps about its relay for the client, and reports as  *)
(* RelayInformation: the events the relay refused, its information         *)
(* document and the count of its connections (the rest of                  *)
(* RelayInformation and document_request, lib/src/relay.rs).  Status and   *)
(* attempts are in Relay.  All of it outlives a connection, so that this   *)
(* module adds it to the tasks of RelayPool, which connect, lose their     *)
(* socket and are told to reconnect.                                       *)
(*                                                                         *)
(* A refused event is numbered by the refusals of its task so far.         *)
(***************************************************************************)
EXTENDS RelayPool

CONSTANTS
    MAX_ERROR_MSGS_LIMIT,
    U8,           \* 2^8: the length of the error list is compared as a u8
    MaxRefused,   \* bound: the events one relay refuses
    MaxSuccess    \* bound: the connections since the statistics were reset

ASSUME InformationAssumption ==
    /\ MAX_ERROR_MSGS_LIMIT \in Nat \ {0} /\ U8 \in Nat
    /\ MAX_ERROR_MSGS_LIMIT + 1 < U8
    /\ MaxRefused \in Nat /\ MaxSuccess \in Nat

VARIABLES
    error_messages,    \* information.error_messages of each task
    document_request,  \* its DocRequestState
    fetch,             \* the task that fetches the document, and what it has sent
    success,           \* information.conn_stats.success
    refused,           \* history: the events the relay has refused
    fetches            \* history: the fetches that were started

informationVars == <<error_messages, document_request, fetch, success, refused, fetches>>
allVars == <<vars, informationVars>>

DocRequestState == {"Initial", "Requested", "Received", "Failed"}

\* An answer the relay task has not seen yet; Lost if the fetch ended without one.
Answer == {"Document", "Error", "Lost"}

InformationInit ==
    /\ Init
    /\ error_messages = [t \in Task |-> <<>>]
    /\ document_request = [t \in Task |-> "Initial"]
    /\ fetch = [t \in Task |-> "None"]
    /\ success = [t \in Task |-> 0]
    /\ refused = [t \in Task |-> 0]
    /\ fetches = [t \in Task |-> 0]

-----------------------------------------------------------------------------
(* The error list. *)

PushAtLimit(list, e) == IF Len(list) < MAX_ERROR_MSGS_LIMIT THEN Append(list, e) ELSE list

TrimBeforePush(list, e) ==
    Append(IF Len(list) % U8 > MAX_ERROR_MSGS_LIMIT THEN Tail(list) ELSE list, e)

push_error(list, e) ==
    LET pushed == Append(list, e) IN
    IF Len(pushed) % U8 > MAX_ERROR_MSGS_LIMIT THEN Tail(pushed) ELSE pushed

\* An OK message with status false.
check_ok_msg(t) ==
    /\ refused[t] < MaxRefused
    /\ refused' = [refused EXCEPT ![t] = @ + 1]
    /\ error_messages' = [error_messages EXCEPT ![t] = push_error(@, refused'[t])]
    /\ UNCHANGED <<vars, document_request, fetch, success, fetches>>

-----------------------------------------------------------------------------
(* The document. *)

\* Every connection asks for it.
RequestOnEachConnection(t) ==
    /\ document_request[t] # "Requested"
    /\ document_request' = [document_request EXCEPT ![t] = "Requested"]
    /\ fetch' = [fetch EXCEPT ![t] = "Running"]
    /\ fetches' = [fetches EXCEPT ![t] = @ + 1]
    /\ UNCHANGED <<vars, error_messages, success, refused>>

RequestDocument(t) ==
    /\ document_request[t] = "Initial"
    /\ document_request' = [document_request EXCEPT ![t] = "Requested"]
    /\ fetch' = [fetch EXCEPT ![t] = "Running"]
    /\ fetches' = [fetches EXCEPT ![t] = @ + 1]
    /\ UNCHANGED <<vars, error_messages, success, refused>>

\* The receiver yields the document or an error.  One whose sender is gone yields
\* that each time it is polled, and nothing changes.
ReceiveDocument(t) ==
    /\ document_request[t] = "Requested" /\ fetch[t] \in {"Document", "Error"}
    /\ document_request' = [document_request EXCEPT ![t] =
           IF fetch[t] = "Document" THEN "Received" ELSE "Failed"]
    /\ fetch' = [fetch EXCEPT ![t] = "None"]
    /\ UNCHANGED <<vars, error_messages, success, refused, fetches>>

\* What handle_connected does beside the connection: the document is asked for
\* before the first select!.
Informing(t) ==
    /\ Selecting(t, "Connected")
    /\ \/ RequestDocument(t)
       \/ document_request[t] # "Initial" /\ (ReceiveDocument(t) \/ check_ok_msg(t))

\* spawn_get_document: the web server answers whether or not the relay is connected.
Answered(t) ==
    /\ fetch[t] = "Running"
    /\ \E a \in Answer : fetch' = [fetch EXCEPT ![t] = a]
    /\ UNCHANGED <<vars, error_messages, document_request, success, refused, fetches>>

-----------------------------------------------------------------------------
(* The connection. *)

\* run returned: the Relay value is dropped.
Forget(t) ==
    /\ error_messages' = [error_messages EXCEPT ![t] = <<>>]
    /\ document_request' = [document_request EXCEPT ![t] = "Initial"]
    /\ fetch' = [fetch EXCEPT ![t] = "None"]
    /\ success' = [success EXCEPT ![t] = 0]
    /\ refused' = [refused EXCEPT ![t] = 0]
    /\ fetches' = [fetches EXCEPT ![t] = 0]

\* reconnect() calls it while the task is Disconnected.
reset_conn_stats(t) ==
    /\ success' = [success EXCEPT ![t] = 0]
    /\ UNCHANGED <<error_messages, document_request, fetch, refused, fetches>>

new_success(t) ==
    /\ success' = [success EXCEPT ![t] = @ + 1]
    /\ UNCHANGED <<error_messages, document_request, fetch, refused, fetches>>

\* The answer is awaited by the connection that asked for it.
UnconcernedButForgetful(t) ==
    /\ \/ ReceiveStep(t) /\ ~DisconnectedReconnect(t)
       \/ SendStep(t) /\ outgoing[t] # "ConnectedToSocket"
       \/ NetworkStep(t) /\ (outgoing'[t] = "ConnectedToSocket" => success[t] < MaxSuccess)
    /\ state[t] = "Connected" => document_request[t] # "Initial"
    /\ fetch' = [fetch EXCEPT ![t] =
           IF outgoing'[t] = "RelayDisconnected" /\ @ # "None" THEN "Lost" ELSE @]
    /\ UNCHANGED <<error_messages, document_request, success, refused, fetches>>

\* The branches that change nothing here: a connected task has asked for the
\* document before it comes to its select!.
Unconcerned(t) ==
    /\ \/ ReceiveStep(t) /\ ~DisconnectedReconnect(t)
       \/ SendStep(t) /\ outgoing[t] # "ConnectedToSocket"
       \/ NetworkStep(t) /\ (outgoing'[t] = "ConnectedToSocket" => success[t] < MaxSuccess)
    /\ state[t] = "Connected" => document_request[t] # "Initial"
    /\ UNCHANGED informationVars

Step(t) ==
    \/ Unconcerned(t)
    \/ ReceiveStep(t) /\ DisconnectedReconnect(t) /\ reset_conn_stats(t)
    \/ SendStep(t) /\ outgoing[t] = "ConnectedToSocket" /\ new_success(t)
    \/ EndStep(t) /\ (state[t] = "Connected" => document_request[t] # "Initial") /\ Forget(t)

PoolStep ==
    /\ \/ \E t \in Task, s \in Subscription : Resend(t, s)
       \/ handle_relay_to_pool \/ Command \/ PoolSend
    /\ UNCHANGED informationVars

InformationNext ==
    \/ \E t \in Task : Step(t) \/ Informing(t) \/ Answered(t)
    \/ PoolStep

InformationSpec == InformationInit /\ [][InformationNext]_allVars

\* A connected task that is shown the answer again and again takes it: select!
\* starts at a random branch.
InformationFairness ==
    \A t \in Task : SF_allVars(Informing(t) /\ document_request'[t] # document_request[t])

InformationFairSpec == InformationSpec /\ InformationFairness

-----------------------------------------------------------------------------
(* Properties. *)

InformationTypeOK ==
    /\ error_messages \in [Task -> Seq(Nat \ {0})]
    /\ \A t \in Task : Len(error_messages[t]) <= MAX_ERROR_MSGS_LIMIT
    /\ document_request \in [Task -> DocRequestState]
    /\ fetch \in [Task -> {"None", "Running"} \cup Answer]
    /\ success \in [Task -> Nat]

\* The list holds the latest refusals and as many as the limit allows, in their
\* order, over however many connections they came: the comparison as a u8 neither
\* trims a list too early nor lets it grow.
KeepsLatestErrors ==
    \A t \in Task :
        LET n == Len(error_messages[t]) IN
        /\ n = IF refused[t] < MAX_ERROR_MSGS_LIMIT THEN refused[t] ELSE MAX_ERROR_MSGS_LIMIT
        /\ \A i \in 1 .. n : error_messages[t][i] = refused[t] - n + i

\* A relay task fetches the document once, not once per connection, and while the
\* fetch is out its receiver is kept, with or without a connection.
OneFetchPerRelay ==
    \A t \in Task :
        /\ fetches[t] <= 1
        /\ fetch[t] # "None" => document_request[t] = "Requested"
        /\ document_request[t] \in {"Received", "Failed"} => fetches[t] = 1

\* Whatever was lost, retried or reset, information that says Connected counts that
\* connection, and information that says Connecting counts its attempt: reconnect
\* resets the statistics only while the status says neither.
StatsAgree ==
    \A t \in Task :
        /\ status[t] = "Connected" => success[t] > 0
        /\ status[t] = "Connecting" => attempts[t] > 0

\* A connection that was established has been attempted: of the two counters a client
\* reads, attempts() is not the smaller.
AttemptsCountConnections == \A t \in Task : success[t] <= attempts[t]

\* A document that was sent is kept by a later connection if not by the one that
\* asked for it, unless none ever comes to its select! again.
DocumentIsKept ==
    \A t \in Task :
        fetch[t] = "Document" ~> \/ document_request[t] = "Received"
                                 \/ [](~Selecting(t, "Connected"))
=============================================================================
