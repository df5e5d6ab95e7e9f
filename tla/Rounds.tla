-------------------------------- MODULE Rounds --------------------------------
(***************************************************************************)
(* What a connection promises (docs/chat262_protocol.md, "Communication    *)
(* rounds"): the client asks, the server answers that request, the client  *)
(* takes the answer, and only then may it ask again.  Either end may close *)
(* the connection at any time.  A connection whose bytes came in pieces is *)
(* lost: nothing is promised of it.                                        *)
(***************************************************************************)
CONSTANTS Requests,        \* what a client may ask
          Responses(_),    \* what the server may answer to a request
          None             \* stands for no request, response or outcome

VARIABLES phase, request, response,
          outcome          \* what the client made of the last round

rvars == <<phase, request, response, outcome>>

RInit == phase = "idle" /\ request = None /\ response = None /\ outcome = None

Ask == /\ phase = "idle"
       /\ phase' = "asked"
       /\ request' \in Requests
       /\ outcome' = None
       /\ UNCHANGED response

Answer == /\ phase = "asked"
          /\ phase' = "answered"
          /\ response' \in Responses(request)
          /\ UNCHANGED <<request, outcome>>

Take == /\ phase = "answered"
        /\ phase' = "idle"
        /\ outcome' = response
        /\ request' = None /\ response' = None

End(p) == phase' = p /\ request' = None /\ response' = None /\ outcome' = None

Close == phase # "closed" /\ End("closed")
Lose  == phase \in {"asked", "answered", "idle"} /\ End("lost")

RNext == Ask \/ Answer \/ Take \/ Close \/ Lose
RSpec == RInit /\ [][RNext]_rvars
=============================================================================
