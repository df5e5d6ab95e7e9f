--------------------------------- MODULE Wire ---------------------------------
(***************************************************************************)
(* One connection of the C++ flavour, in bytes: the loops send_msg,        *)
(* recv_hdr and recv_body of both ends (server.cc, client.cc; the two ends *)
(* have the same loops), the server's loop over requests (handle_client)   *)
(* and the client's request-response calls.  TCP may take and give fewer   *)
(* bytes than a call asks for; the loops then start again at the front of  *)
(* the message or buffer, as the code does.                                *)
(*                                                                         *)
(* What a handler does to the database is in Server; here it may answer    *)
(* anything that handler can answer.                                       *)
(***************************************************************************)
EXTENDS Codec

CONSTANTS Calls,      \* well-formed requests: [version, type, values]
          Lists,      \* the lists of usernames a server may answer with
          Chats,      \* the chats it may answer with
          Pieces,     \* sizes of a send or a recv that moves less than it could
          MaxCuts,    \* bound: how many of those there are
          None

Ends == {"client", "server"}
Peer(e) == IF e = "client" THEN "server" ELSE "client"

VARIABLES
    pc,       \* what each end is doing
    out,      \* the message it is sending
    total,    \* total_sent or total_read of its loop; past the length is one more
    buf,      \* what the loop has received, in its place in the buffer
    hdr,      \* the header it has received
    net,      \* bytes sent to it that it has not received
    reset,    \* whether the connection is reset for it
    asked,    \* the client's request: what it means, its bytes, the type expected
    heard,    \* what the server understood
    answer,   \* what the server answered
    got,      \* what the client understood
    cuts      \* calls of send and recv that moved less than they could, or again

endvars  == <<pc, out, total, buf, hdr, net, reset>>
callvars == <<asked, heard, answer, got>>
vars     == <<pc, out, total, buf, hdr, net, reset, asked, heard, answer, got, cuts>>

Least(a, b) == IF a < b THEN a ELSE b

-----------------------------------------------------------------------------
(***************************************************************************)
(* Requests and responses by type.                                         *)
(***************************************************************************)

RequestTypes == 101..108

request_serialize(type, v) ==
    CASE type = msgtype_registration_request   -> registration_request_serialize(v[1], v[2])
      [] type = msgtype_login_request          -> login_request_serialize(v[1], v[2])
      [] type = msgtype_logout_request         -> logout_request_serialize
      [] type = msgtype_accounts_request       -> accounts_request_serialize(v[1])
      [] type = msgtype_send_txt_request       -> send_txt_request_serialize(v[1], v[2])
      [] type = msgtype_recv_txt_request       -> recv_txt_request_serialize(v[1])
      [] type = msgtype_correspondents_request -> correspondents_request_serialize
      [] type = msgtype_delete_request         -> delete_request_serialize

request_deserialize(type, body) ==
    CASE type = msgtype_registration_request   -> registration_request_deserialize(body)
      [] type = msgtype_login_request          -> login_request_deserialize(body)
      [] type = msgtype_logout_request         -> logout_request_deserialize(body)
      [] type = msgtype_accounts_request       -> accounts_request_deserialize(body)
      [] type = msgtype_send_txt_request       -> send_txt_request_deserialize(body)
      [] type = msgtype_recv_txt_request       -> recv_txt_request_deserialize(body)
      [] type = msgtype_correspondents_request -> correspondents_request_deserialize(body)
      [] type = msgtype_delete_request         -> delete_request_deserialize(body)

\* A handler that answers with an error code passes an empty list.
Rows(v) == IF Len(v) = 1 THEN <<>> ELSE v[2]

response_serialize(type, v) ==
    CASE type = msgtype_registration_response   -> registration_response_serialize(v[1])
      [] type = msgtype_login_response          -> login_response_serialize(v[1])
      [] type = msgtype_logout_response         -> logout_response_serialize(v[1])
      [] type = msgtype_accounts_response       -> accounts_response_serialize(v[1], Rows(v))
      [] type = msgtype_send_txt_response       -> send_txt_response_serialize(v[1])
      [] type = msgtype_recv_txt_response       -> recv_txt_response_serialize(v[1], Rows(v))
      [] type = msgtype_correspondents_response -> correspondents_response_serialize(v[1], Rows(v))
      [] type = msgtype_delete_response         -> delete_response_serialize(v[1])
      [] type = msgtype_wrong_version_response  -> wrong_version_response_serialize(v[1])
      [] type = msgtype_invalid_type_response   -> invalid_type_response_serialize
      [] type = msgtype_invalid_body_response   -> invalid_body_response_serialize

response_deserialize(type, body) ==
    CASE type = msgtype_registration_response   -> registration_response_deserialize(body)
      [] type = msgtype_login_response          -> login_response_deserialize(body)
      [] type = msgtype_logout_response         -> logout_response_deserialize(body)
      [] type = msgtype_accounts_response       -> accounts_response_deserialize(body)
      [] type = msgtype_send_txt_response       -> send_txt_response_deserialize(body)
      [] type = msgtype_recv_txt_response       -> recv_txt_response_deserialize(body)
      [] type = msgtype_correspondents_response -> correspondents_response_deserialize(body)
      [] type = msgtype_delete_response         -> delete_response_deserialize(body)
      [] type = msgtype_wrong_version_response  -> wrong_version_response_deserialize(body)
      [] type = msgtype_invalid_type_response   -> invalid_type_response_deserialize(body)
      [] type = msgtype_invalid_body_response   -> invalid_body_response_deserialize(body)

\* The status codes each handler answers with.
Codes(type) ==
    CASE type = msgtype_registration_request ->
            {status_code_ok, status_code_user_exists, status_code_username_invalid,
             status_code_password_invalid}
      [] type = msgtype_login_request -> {status_code_ok, status_code_invalid_credentials}
      [] type \in {msgtype_logout_request, msgtype_accounts_request,
                   msgtype_correspondents_request, msgtype_delete_request} ->
            {status_code_ok, status_code_unauthorized}
      [] type \in {msgtype_send_txt_request, msgtype_recv_txt_request} ->
            {status_code_ok, status_code_user_noexist, status_code_unauthorized}

Answers(type) ==
    LET rows == CASE type = msgtype_recv_txt_request -> Chats
                  [] type \in {msgtype_accounts_request, msgtype_correspondents_request} -> Lists
                  [] OTHER -> {}
        bare == IF rows = {} THEN Codes(type) ELSE Codes(type) \ {status_code_ok}
    IN  {<<c>> : c \in bare} \cup {<<status_code_ok, r>> : r \in rows}

Response(type, v) == [type |-> type, values |-> v]

\* What the client is asked to send and the server to answer: strings of bytes,
\* in messages whose length a header can tell.
ASSUME CallsAssumption ==
    /\ Calls \subseteq
           [version : {version},
            type    : {msgtype_registration_request, msgtype_login_request, msgtype_send_txt_request},
            values  : Bytes \X Bytes]
           \cup [version : {version},
                 type    : {msgtype_accounts_request, msgtype_recv_txt_request},
                 values  : [1..1 -> Bytes]]
           \cup [version : {version},
                 type    : {msgtype_logout_request, msgtype_correspondents_request,
                            msgtype_delete_request},
                 values  : {<<>>}]
    /\ \A c \in Calls : Fits(Len(request_serialize(c.type, c.values)))
ASSUME AnswersAssumption ==
    /\ Lists # {} /\ Lists \subseteq Seq(Bytes)
    /\ \A l \in Lists : Fits(Len(accounts_response_serialize(status_code_ok, l)))
    /\ Chats # {} /\ Chats \subseteq Seq([sender_ : 0..255, content_ : Bytes])
    /\ \A h \in Chats : Fits(Len(recv_txt_response_serialize(status_code_ok, h)))
ASSUME TransportAssumption == Pieces \subseteq Nat \ {0} /\ MaxCuts \in Nat

-----------------------------------------------------------------------------
(***************************************************************************)
(* The loops.                                                              *)
(***************************************************************************)

\* The length the loop of e compares its total with.
Want(e) == CASE pc[e] = "send" -> Len(out[e])
             [] pc[e] = "hdr"  -> HeaderSize
             [] pc[e] = "body" -> hdr[e].body_len_

InLoop(e) == pc[e] \in {"send", "hdr", "body"} /\ total[e] # Want(e)
\* Mutant: the loop receives before it compares (do instead of while).
Through_after_a_turn(e, p) == pc[e] = p /\ total[e] = Want(e) /\ total[e] # 0

Through(e, p) == pc[e] = p /\ total[e] = Want(e)
Gone(e) == pc[e] = "closed"

Count(e, n) == total' = [total EXCEPT ![e] = Least(@ + n, Want(e) + 1)]
Cut == cuts < MaxCuts /\ cuts' = cuts + 1

\* send is asked for the whole message, from its front, in every turn.  Bytes
\* for an end that has closed come back as a reset.
Send(e) ==
    /\ InLoop(e) /\ pc[e] = "send"
    /\ \E n \in {Len(out[e])} \cup {k \in Pieces : k < Len(out[e])} :
          /\ IF (n = Len(out[e]) /\ total[e] = 0) \/ Gone(Peer(e))
             THEN UNCHANGED cuts ELSE Cut
          /\ Count(e, n)
          /\ IF Gone(Peer(e))
             THEN reset' = [reset EXCEPT ![e] = TRUE] /\ UNCHANGED net
             ELSE net' = [net EXCEPT ![Peer(e)] = @ \o SubSeq(out[e], 1, n)] /\ UNCHANGED reset
    /\ UNCHANGED <<pc, out, buf, hdr, callvars>>

\* recv is asked for the full length in every turn and writes to the front of
\* the buffer.
Recv(e) ==
    /\ InLoop(e) /\ pc[e] # "send"
    /\ net[e] # <<>>
    /\ LET most == Least(Len(net[e]), Want(e))
       IN  \E n \in {most} \cup {k \in Pieces : k < most} :
              /\ IF n = most THEN UNCHANGED cuts ELSE Cut
              /\ Count(e, n)
              /\ buf' = [buf EXCEPT ![e] = SubSeq(net[e], 1, n) \o SubSeq(@, n + 1, Len(@))]
              /\ net' = [net EXCEPT ![e] = SubSeq(@, n + 1, Len(@))]
    /\ UNCHANGED <<pc, out, hdr, reset, callvars>>

\* The vector is as long as what is wanted, with zeros where nothing was written.
Data(e) == [i \in 1..Want(e) |-> IF i <= Len(buf[e]) THEN buf[e][i] ELSE 0]

\* Mutant: the counter of the previous loop is not cleared.
Enter_keeping_total(e, p) ==
    /\ pc'    = [pc EXCEPT ![e] = p]
    /\ buf'   = [buf EXCEPT ![e] = <<>>]
    /\ UNCHANGED total

\* e goes on to p with a new loop.
Enter(e, p) ==
    /\ pc'    = [pc EXCEPT ![e] = p]
    /\ total' = [total EXCEPT ![e] = 0]
    /\ buf'   = [buf EXCEPT ![e] = <<>>]

StartSending(e, bytes) ==
    Enter(e, "send") /\ out' = [out EXCEPT ![e] = bytes]

\* Closing a socket that holds bytes nobody received resets the connection.
CloseSocket(e) ==
    /\ Enter(e, "closed")
    /\ out'   = [out EXCEPT ![e] = <<>>]
    /\ hdr'   = [hdr EXCEPT ![e] = None]
    /\ net'   = [net EXCEPT ![e] = <<>>]
    /\ reset' = [reset EXCEPT ![e] = FALSE, ![Peer(e)] = @ \/ net[e] # <<>>]
    /\ UNCHANGED <<callvars, cuts>>

\* Mutant: recv returning 0 is not told from recv returning bytes.
Fail_on_errors_only(e) == InLoop(e) /\ reset[e] /\ CloseSocket(e)

\* send or recv fails, or recv returns 0 because the other end has closed and
\* everything it had sent was received.
Fail(e) ==
    /\ InLoop(e)
    /\ \/ reset[e]
       \/ pc[e] # "send" /\ net[e] = <<>> /\ Gone(Peer(e))
    /\ CloseSocket(e)

\* The process of e dies, or its user leaves; the host lives and tells the other
\* end.
Break(e) == ~Gone(e) /\ CloseSocket(e)

-----------------------------------------------------------------------------
(***************************************************************************)
(* The client: one method call of class client is Call, then send_msg,     *)
(* recv_hdr, validate_hdr, recv_body and deserialize.                      *)
(***************************************************************************)

WellFormed(c) ==
    [call |-> c, bytes |-> request_serialize(c.type, c.values), expects |-> c.type + 100]

\* The requests of tests/test_wrong_message: another version, a type that does
\* not exist, a body that is shorter than the lengths in it say.
Garbled ==
    LET m == registration_request_serialize(<<1>>, <<2>>)
        c(v, t) == [version |-> v, type |-> t, values |-> <<>>]
    IN  {[call |-> c(2, 101), bytes |-> LE16(2) \o SubSeq(m, 3, Len(m)),
          expects |-> msgtype_wrong_version_response],
         [call |-> c(1, 262), bytes |-> LE16(1) \o LE16(262) \o SubSeq(m, 5, Len(m)),
          expects |-> msgtype_invalid_type_response],
         [call |-> c(1, 101), bytes |-> Message(101, SubSeq(m, 9, Len(m) - 1)),
          expects |-> msgtype_invalid_body_response]}

AllRequests == {WellFormed(c) : c \in Calls} \cup Garbled

Call ==
    /\ pc["client"] = "idle"
    /\ \E r \in AllRequests : asked' = r /\ StartSending("client", r.bytes)
    /\ heard' = None /\ answer' = None /\ got' = None
    /\ UNCHANGED <<hdr, net, reset, cuts>>

RequestSent ==
    /\ Through("client", "send")
    /\ Enter("client", "hdr")
    /\ out' = [out EXCEPT !["client"] = <<>>]
    /\ UNCHANGED <<hdr, net, reset, callvars, cuts>>

validate_hdr(h) == h.version_ = version /\ h.type_ = asked.expects

ResponseHeader ==
    /\ Through("client", "hdr")
    /\ LET h == message_header_deserialize(Data("client")).values
       IN  IF validate_hdr(h)
           THEN /\ Enter("client", "body")
                /\ hdr' = [hdr EXCEPT !["client"] = h]
                /\ UNCHANGED <<out, net, reset, callvars, cuts>>
           ELSE CloseSocket("client")    \* the interface ends

\* What is read past the end of the body ends the process or the call returns.
ResponseBody ==
    /\ Through("client", "body")
    /\ LET d == response_deserialize(asked.expects, Data("client"))
       IN  \/ /\ d.status # "body_error"
              /\ Enter("client", "idle")
              /\ hdr' = [hdr EXCEPT !["client"] = None]
              /\ got' = Response(asked.expects, d.values)
              /\ UNCHANGED <<out, net, reset, asked, heard, answer, cuts>>
           \/ d.status # "ok" /\ CloseSocket("client")

-----------------------------------------------------------------------------
(***************************************************************************)
(* The server's thread.                                                    *)
(***************************************************************************)

Respond(type, v) ==
    /\ StartSending("server", response_serialize(type, v))
    /\ answer' = Response(type, v)

\* Mutant: an unknown type is answered as soon as the header tells it.
RequestHeader_refusing ==
    /\ Through("server", "hdr")
    /\ LET h == message_header_deserialize(Data("server")).values
       IN  /\ hdr' = [hdr EXCEPT !["server"] = h]
           /\ IF h.version_ # version
              THEN Respond(msgtype_wrong_version_response, <<version>>)
              ELSE IF h.type_ \notin RequestTypes
              THEN Respond(msgtype_invalid_type_response, <<>>)
              ELSE Enter("server", "body") /\ UNCHANGED <<out, answer>>
    /\ UNCHANGED <<net, reset, asked, heard, got, cuts>>

\* A wrong version is answered without receiving the body.
RequestHeader ==
    /\ Through("server", "hdr")
    /\ LET h == message_header_deserialize(Data("server")).values
       IN  /\ hdr' = [hdr EXCEPT !["server"] = h]
           /\ IF h.version_ = version
              THEN Enter("server", "body") /\ UNCHANGED <<out, answer>>
              ELSE Respond(msgtype_wrong_version_response, <<version>>)
    /\ UNCHANGED <<net, reset, asked, heard, got, cuts>>

Hear(values) ==
    heard' = [version |-> hdr["server"].version_, type |-> hdr["server"].type_, values |-> values]

RequestBody ==
    /\ Through("server", "body")
    /\ LET type == hdr["server"].type_
       IN  IF type \notin RequestTypes
           THEN Respond(msgtype_invalid_type_response, <<>>) /\ Hear(<<>>)
           ELSE LET d == request_deserialize(type, Data("server"))
                IN  IF d.status = "ok"
                    THEN Hear(d.values) /\ \E v \in Answers(type) : Respond(type + 100, v)
                    ELSE Hear(<<>>) /\ Respond(msgtype_invalid_body_response, <<>>)
    /\ UNCHANGED <<hdr, net, reset, asked, got, cuts>>

ResponseSent ==
    /\ Through("server", "send")
    /\ IF hdr["server"].version_ = version
       THEN /\ Enter("server", "hdr")
            /\ out' = [out EXCEPT !["server"] = <<>>]
            /\ hdr' = [hdr EXCEPT !["server"] = None]
            /\ UNCHANGED <<net, reset, callvars, cuts>>
       ELSE CloseSocket("server")

-----------------------------------------------------------------------------
WInit ==
    /\ pc     = [e \in Ends |-> IF e = "client" THEN "idle" ELSE "hdr"]
    /\ out    = [e \in Ends |-> <<>>]
    /\ total  = [e \in Ends |-> 0]
    /\ buf    = [e \in Ends |-> <<>>]
    /\ hdr    = [e \in Ends |-> None]
    /\ net    = [e \in Ends |-> <<>>]
    /\ reset  = [e \in Ends |-> FALSE]
    /\ asked = None /\ heard = None /\ answer = None /\ got = None
    /\ cuts = 0

ClientStep == Send("client") \/ Recv("client") \/ RequestSent \/ ResponseHeader \/ ResponseBody
ServerStep == Send("server") \/ Recv("server") \/ RequestHeader \/ RequestBody \/ ResponseSent

WNext == Call \/ ClientStep \/ ServerStep \/ \E e \in Ends : Fail(e) \/ Break(e)

\* Both ends run, and what TCP has to report it reports.  Nobody has to call or
\* to leave.
WFairness ==
    /\ WF_vars(ClientStep) /\ WF_vars(ServerStep)
    /\ \A e \in Ends : WF_vars(Fail(e))

WSpec == WInit /\ [][WNext]_vars /\ WFairness
-----------------------------------------------------------------------------
(***************************************************************************)
(* Properties.                                                             *)
(***************************************************************************)

\* Types, and the counter of a loop that has gone past its length stays there.
WTypeOK ==
    /\ pc["client"] \in {"idle", "send", "hdr", "body", "closed"}
    /\ pc["server"] \in {"send", "hdr", "body", "closed"}
    /\ cuts \in 0..MaxCuts
    /\ \A e \in Ends :
          /\ out[e] \in Bytes /\ net[e] \in Bytes /\ buf[e] \in Bytes
          /\ reset[e] \in BOOLEAN
          /\ IF pc[e] \in {"send", "hdr", "body"}
             THEN total[e] \in 0..(Want(e) + 1) /\ Len(buf[e]) <= total[e]
             ELSE total[e] = 0 /\ buf[e] = <<>>

Same(a, b) == a.type = b.type /\ a.values = b.values

\* While TCP moves whole messages, what the server hands to a handler is what
\* the client asked, strings and lengths included, and what it refuses as
\* garbled was garbled (recv_hdr, recv_body and deserialize against serialize
\* and send_msg).
RequestsArrive == cuts = 0 /\ heard # None => heard.version = asked.call.version /\ Same(heard, asked.call)

\* While TCP moves whole messages, what a call of the client returns is what
\* the server answered to it, tables and empty bodies included.
AnswersArrive == cuts = 0 /\ got # None => Same(got, answer)

\* server.h and client.h: recv_hdr and recv_body return ok when the header or the
\* body "was successfully read".  It does not hold of a body that comes in two
\* pieces: the second is written over the first.
ReadsAreSuccessful == got # None => Same(got, answer)

\* A call of the client ends, with an answer or an error, while TCP moves
\* whole messages: neither end waits for bytes the other does not send.
RoundEnds ==
    pc["client"] \in {"send", "hdr", "body"} ~> (pc["client"] \in {"idle", "closed"} \/ cuts > 0)

\* When the client has closed or its process is gone, the server's thread comes to
\* its end, also in the middle of a message and in a loop that has gone past its
\* length: no thread is left behind (handle_client).  A host that dies closes
\* nothing, and without keep-alives a thread that receives from it stays.
ThreadEnds == Gone("client") ~> Gone("server")

\* What of a connection the communication rounds see.
Answered == (pc["server"] = "send" /\ InLoop("server")) \/ net["client"] # <<>> \/ pc["client"] = "body"
            \/ (pc["client"] = "hdr" /\ total["client"] # 0)
Phase == IF \E e \in Ends : Gone(e) THEN "closed"
         ELSE IF cuts > 0 THEN "lost"
         ELSE IF pc["client"] = "idle" THEN "idle"
         ELSE IF Answered THEN "answered" ELSE "asked"
InRound == Phase \in {"asked", "answered"}

\* The answers there are to a request: of its own type, or why it is refused.
\* The client cannot count on the answer to a wrong version, because closing
\* with the body unread may overtake it.
ResponsesTo(c) ==
    IF c.version # version THEN {Response(msgtype_wrong_version_response, <<version>>)}
    ELSE IF c.type \notin RequestTypes THEN {Response(msgtype_invalid_type_response, <<>>)}
    ELSE IF c \notin Calls THEN {Response(msgtype_invalid_body_response, <<>>)}
    ELSE {Response(c.type + 100, v) : v \in Answers(c.type)}

TheRounds == INSTANCE Rounds WITH
    Requests  <- {r.call : r \in AllRequests},
    Responses <- ResponsesTo,
    phase     <- Phase,
    request   <- IF InRound THEN asked.call ELSE None,
    response  <- IF Phase = "answered" THEN answer ELSE None,
    outcome   <- IF Phase = "idle" THEN got ELSE None

\* docs/chat262_protocol.md, "Communication rounds": requests and responses
\* alternate and each response belongs to its request.
ImplementsRounds == TheRounds!RSpec
=============================================================================
