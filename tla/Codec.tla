-------------------------------- MODULE Codec --------------------------------
(***************************************************************************)
(* The wire format (chat262_protocol.h, chat262_protocol.cc): messages as  *)
(* sequences of bytes.  serialize makes a whole message, header included;  *)
(* deserialize takes the body alone and checks that its size is what the   *)
(* lengths in it say.  A string is the sequence of its bytes; what a       *)
(* deserialize stores through its reference parameters is "values".        *)
(***************************************************************************)
EXTENDS Naturals, Sequences

version == 1

msgtype_registration_request    == 101
msgtype_login_request           == 102
msgtype_logout_request          == 103
msgtype_accounts_request        == 104
msgtype_send_txt_request        == 105
msgtype_recv_txt_request        == 106
msgtype_correspondents_request  == 107
msgtype_delete_request          == 108
msgtype_registration_response   == 201
msgtype_login_response          == 202
msgtype_logout_response         == 203
msgtype_accounts_response       == 204
msgtype_send_txt_response       == 205
msgtype_recv_txt_response       == 206
msgtype_correspondents_response == 207
msgtype_delete_response         == 208
msgtype_wrong_version_response  == 301
msgtype_invalid_type_response   == 302
msgtype_invalid_body_response   == 303

status_code_ok                  == 0
status_code_invalid_credentials == 1
status_code_user_exists         == 2
status_code_user_noexist        == 3
status_code_username_invalid    == 4
status_code_password_invalid    == 5
status_code_unauthorized        == 6

Bytes == Seq(0..255)

Ok(values) == [status |-> "ok", values |-> values]
BodyError  == [status |-> "body_error", values |-> <<>>]

\* The body was read past its end, which C++ leaves undefined.  If the process
\* lives the status is ok, with rows that nothing is known of.
OutOfBounds == [status |-> "out_of_bounds", values |-> <<status_code_ok>>]

-----------------------------------------------------------------------------
(***************************************************************************)
(* Integers are little-endian and keep their width: what does not fit is   *)
(* lost, as in the assignments to uint32_t.  Positions count from 1.       *)
(***************************************************************************)

LE16(n) == <<n % 256, (n \div 256) % 256>>
LE32(n) == LE16(n) \o LE16(n \div 65536)

\* Whether 32 bits are enough for n.
Fits(n) == n \div 65536 < 65536

U16(b, i) == b[i] + 256 * b[i + 1]
U32(b, i) == U16(b, i) + 65536 * U16(b, i + 2)

\* n as a uint32_t keeps it, in which a sum wraps.
InUint32(n) == U32(LE32(n), 1)

HeaderSize == 8
Message(type, body) == LE16(version) \o LE16(type) \o LE32(Len(body)) \o body

message_header_deserialize(data) ==
    IF Len(data) # HeaderSize THEN BodyError
    ELSE Ok([version_ |-> U16(data, 1), type_ |-> U16(data, 3), body_len_ |-> U32(data, 5)])

-----------------------------------------------------------------------------
(***************************************************************************)
(* The shapes that bodies have.                                            *)
(***************************************************************************)

\* Nothing.
ParseNothing(data) == IF Len(data) = 0 THEN Ok(<<>>) ELSE BodyError

\* A status code.
ParseCode(data) == IF Len(data) = 4 THEN Ok(<<U32(data, 1)>>) ELSE BodyError

\* A length and a string.
String(s) == LE32(Len(s)) \o s
ParseString(data) ==
    IF Len(data) >= 4 /\ 4 + U32(data, 1) = Len(data)
    THEN Ok(<<SubSeq(data, 5, Len(data))>>) ELSE BodyError

\* Two lengths and two strings.
Strings(s, t) == LE32(Len(s)) \o LE32(Len(t)) \o s \o t
\* Mutant: the lengths are taken in the wrong order.
ParseStrings_swapped(data) ==
    IF Len(data) >= 8 /\ 8 + U32(data, 1) + U32(data, 5) = Len(data)
    THEN Ok(<<SubSeq(data, 9, 8 + U32(data, 5)),
              SubSeq(data, 9 + U32(data, 5), Len(data))>>)
    ELSE BodyError

ParseStrings(data) ==
    IF Len(data) >= 8 /\ 8 + U32(data, 1) + U32(data, 5) = Len(data)
    THEN Ok(<<SubSeq(data, 9, 8 + U32(data, 1)),
              SubSeq(data, 9 + U32(data, 1), Len(data))>>)
    ELSE BodyError

Concatenation(ss) ==
    LET upTo[n \in 0..Len(ss)] == IF n = 0 THEN <<>> ELSE upTo[n - 1] \o ss[n]
    IN  upTo[Len(ss)]

\* A status code and, if it is OK, a table: the number of rows, their marks (at
\* most one byte each, or none at all), the lengths of their strings, the strings.
Table(code, marks, ss) ==
    LE32(code) \o
    IF code # status_code_ok THEN <<>>
    ELSE LE32(Len(ss)) \o marks \o Concatenation([i \in DOMAIN ss |-> LE32(Len(ss[i]))])
           \o Concatenation(ss)

\* Mutant: the position of the next string is not moved on.
ParseTable_standing(data, w) ==
    LET rows    == U32(data, 5)
        strings == 8 + rows * w + rows * 4    \* what precedes the strings
        length(i) == U32(data, 9 + rows * w + 4 * (i - 1))
        end[i \in 0..rows] == IF i = 0 THEN strings ELSE end[i - 1] + length(i)
        row(i) == [mark |-> SubSeq(data, 9 + (i - 1) * w, 8 + i * w),
                   string |-> SubSeq(data, strings + 1, strings + length(i))]
        total   == InUint32(end[rows] - strings)
    IN  IF Len(data) < 4 THEN BodyError
        ELSE IF U32(data, 1) # status_code_ok THEN Ok(<<U32(data, 1)>>)
        ELSE IF Len(data) < 8 \/ Len(data) < strings \/ Len(data) # strings + total THEN BodyError
        ELSE IF end[rows] > Len(data) THEN OutOfBounds
        ELSE Ok(<<U32(data, 1), [i \in 1..rows |-> row(i)]>>)

\* The marks have the width w.  The sizes are compared as size_t, of 64 bits, but
\* the lengths are summed in a uint32_t: where that wraps, a body passes whose
\* strings are longer than it is.
ParseTable(data, w) ==
    LET rows    == U32(data, 5)
        strings == 8 + rows * w + rows * 4    \* what precedes the strings
        length(i) == U32(data, 9 + rows * w + 4 * (i - 1))
        end[i \in 0..rows] == IF i = 0 THEN strings ELSE end[i - 1] + length(i)
        row(i) == [mark |-> SubSeq(data, 9 + (i - 1) * w, 8 + i * w),
                   string |-> SubSeq(data, end[i - 1] + 1, end[i])]
        total   == InUint32(end[rows] - strings)
    IN  IF Len(data) < 4 THEN BodyError
        ELSE IF U32(data, 1) # status_code_ok THEN Ok(<<U32(data, 1)>>)
        ELSE IF Len(data) < 8 \/ Len(data) < strings \/ Len(data) # strings + total THEN BodyError
        ELSE IF end[rows] > Len(data) THEN OutOfBounds
        ELSE Ok(<<U32(data, 1), [i \in 1..rows |-> row(i)]>>)

\* What becomes of the rows.
Usernames(d) ==
    IF Len(d.values) < 2 THEN d
    ELSE Ok(<<d.values[1], [i \in DOMAIN d.values[2] |-> d.values[2][i].string]>>)
Texts(d) ==
    IF Len(d.values) < 2 THEN d
    ELSE Ok(<<d.values[1], [i \in DOMAIN d.values[2] |->
                [sender_ |-> d.values[2][i].mark[1], content_ |-> d.values[2][i].string]]>>)

-----------------------------------------------------------------------------
(***************************************************************************)
(* The messages.                                                           *)
(***************************************************************************)

registration_request_serialize(username, password) ==
    Message(msgtype_registration_request, Strings(username, password))
registration_request_deserialize(data) == ParseStrings(data)

registration_response_serialize(stat_code) ==
    Message(msgtype_registration_response, LE32(stat_code))
registration_response_deserialize(data) == ParseCode(data)

login_request_serialize(username, password) ==
    Message(msgtype_login_request, Strings(username, password))
login_request_deserialize(data) == ParseStrings(data)

login_response_serialize(stat_code) == Message(msgtype_login_response, LE32(stat_code))
login_response_deserialize(data) == ParseCode(data)

logout_request_serialize == Message(msgtype_logout_request, <<>>)
logout_request_deserialize(data) == ParseNothing(data)

logout_response_serialize(stat_code) == Message(msgtype_logout_response, LE32(stat_code))
logout_response_deserialize(data) == ParseCode(data)

accounts_request_serialize(pattern) == Message(msgtype_accounts_request, String(pattern))
accounts_request_deserialize(data) == ParseString(data)

accounts_response_serialize(stat_code, usernames) ==
    Message(msgtype_accounts_response, Table(stat_code, <<>>, usernames))
accounts_response_deserialize(data) == Usernames(ParseTable(data, 0))

send_txt_request_serialize(recipient, txt) ==
    Message(msgtype_send_txt_request, Strings(recipient, txt))
send_txt_request_deserialize(data) == ParseStrings(data)

send_txt_response_serialize(stat_code) == Message(msgtype_send_txt_response, LE32(stat_code))
send_txt_response_deserialize(data) == ParseCode(data)

recv_txt_request_serialize(username) == Message(msgtype_recv_txt_request, String(username))
recv_txt_request_deserialize(data) == ParseString(data)

recv_txt_response_serialize(stat_code, texts) ==
    Message(msgtype_recv_txt_response,
            Table(stat_code, [i \in DOMAIN texts |-> texts[i].sender_],
                             [i \in DOMAIN texts |-> texts[i].content_]))
recv_txt_response_deserialize(data) == Texts(ParseTable(data, 1))

correspondents_request_serialize == Message(msgtype_correspondents_request, <<>>)
correspondents_request_deserialize(data) == ParseNothing(data)

correspondents_response_serialize(stat_code, usernames) ==
    Message(msgtype_correspondents_response, Table(stat_code, <<>>, usernames))
correspondents_response_deserialize(data) == Usernames(ParseTable(data, 0))

delete_request_serialize == Message(msgtype_delete_request, <<>>)
delete_request_deserialize(data) == ParseNothing(data)

delete_response_serialize(stat_code) == Message(msgtype_delete_response, LE32(stat_code))
delete_response_deserialize(data) == ParseCode(data)

wrong_version_response_serialize(correct_version) ==
    Message(msgtype_wrong_version_response, LE16(correct_version))
wrong_version_response_deserialize(data) ==
    IF Len(data) = 2 THEN Ok(<<U16(data, 1)>>) ELSE BodyError

invalid_type_response_serialize == Message(msgtype_invalid_type_response, <<>>)
invalid_type_response_deserialize(data) == ParseNothing(data)

invalid_body_response_serialize == Message(msgtype_invalid_body_response, <<>>)
invalid_body_response_deserialize(data) == ParseNothing(data)
=============================================================================
