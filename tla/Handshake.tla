------------------------------- MODULE Handshake -------------------------------
(***************************************************************************)
(* The handshake at the start of a TCP connection (src/net_utils.cpp):     *)
(* send_handshake() over send_all() at the client, recv_handshake() over   *)
(* recv_all() at the server, with the byte stream between them.  A client  *)
(* that is not in reverse mode sends its payload on the same stream right  *)
(* after the handshake.                                                    *)
(*                                                                         *)
(* The client's socket is non-blocking (create_client_socket).  The        *)
(* server's is as accept() returned it, blocking: run_server() calls       *)
(* set_nonblocking() only after the handshake.  recv_all() is written for  *)
(* both modes, and Modes says which of them are considered.                *)
(* Time is counted in ticks that pass while the server waits for bytes.    *)
(***************************************************************************)
EXTENDS Integers, Sequences, FiniteSets

CONSTANTS
    Base,           \* values of a byte, 256 in the program
    Durations,      \* values of -t considered, as a uint32_t
    Modes,          \* O_NONBLOCK of the socket recv_all() is called on
    Timeout,        \* recv_handshake's poll timeout, 5s, in ticks
    SockBuf,        \* bytes the stream may hold
    MaxTime,        \* bound: ticks of one wait
    MaxPayload      \* bound: payload bytes after the handshake

ASSUME HandshakeAssumption ==
    /\ Base \in Nat \ {0, 1}
    /\ Durations \subseteq 0..(Base * Base * Base * Base - 1)
    /\ Modes \subseteq BOOLEAN
    /\ Timeout \in Nat \ {0}
    /\ SockBuf \in Nat \ {0}
    /\ MaxTime \in Nat
    /\ MaxPayload \in Nat

Byte == 0..(Base - 1)

VARIABLES
    reverse, duration,  \* the client's -R and -t
    cpc,                \* the client's thread
    sent,               \* bytes of the handshake sent
    payload,            \* payload bytes sent
    wire,               \* bytes sent and not received
    nonBlocking,        \* O_NONBLOCK of the server's socket
    spc,                \* the server's thread
    got,                \* bytes received
    waited,             \* ticks since the server's last poll() began
    stalled             \* ticks since recv_handshake() began

clientVars == <<reverse, duration, cpc, sent, payload>>
serverVars == <<nonBlocking, spc, got>>
vars == <<clientVars, wire, serverVars, waited, stalled>>

--------------------------------------------------------------------------------
(* The five bytes *)

\* What a byte counts for, the most significant first.
Weight == <<Base * Base * Base, Base * Base, Base, 1>>

\* htonl(): the four bytes of n.
htonl(n) == [i \in 1..4 |-> (n \div Weight[i]) % Base]

\* ntohl()
ntohl(b) == b[1] * Weight[1] + b[2] * Weight[2] + b[3] * Weight[3] + b[4]

\* The buffer send_handshake() fills.
Encode == <<IF reverse THEN 1 ELSE 0>> \o htonl(duration)

\* What recv_handshake() makes of its buffer.
Decode(b) == [reverse |-> b[1] # 0, duration |-> ntohl(Tail(b))]

Length == 5

Init ==
    /\ reverse \in BOOLEAN
    /\ duration \in Durations
    /\ cpc = "send"
    /\ sent = 0
    /\ payload = 0
    /\ wire = <<>>
    /\ nonBlocking \in Modes
    /\ spc = "recv"
    /\ got = <<>>
    /\ waited = 0
    /\ stalled = 0

--------------------------------------------------------------------------------
(* The client: send_all(), then the payload *)

Space == SockBuf - Len(wire)

\* Mutant: send() starts at the buffer's first byte again after a partial send.
ClientSendFromStart ==
    /\ cpc = "send"
    /\ \E n \in 1..(Length - sent) :
          /\ n =< Space
          /\ wire' = wire \o SubSeq(Encode, 1, n)
          /\ sent' = sent + n
          /\ cpc' = IF sent + n = Length THEN "ok" ELSE "send"
    /\ UNCHANGED <<reverse, duration, payload, serverVars, waited, stalled>>

\* send() takes some of the bytes that are left.
ClientSend ==
    /\ cpc = "send"
    /\ \E n \in 1..(Length - sent) :
          /\ n =< Space
          /\ wire' = wire \o SubSeq(Encode, sent + 1, sent + n)
          /\ sent' = sent + n
          /\ cpc' = IF sent + n = Length THEN "ok" ELSE "send"
    /\ UNCHANGED <<reverse, duration, payload, serverVars, waited, stalled>>

\* send() returns EAGAIN, and poll() waits for room without a timeout.
ClientPoll ==
    /\ cpc = "send"
    /\ Space = 0
    /\ cpc' = "poll"
    /\ UNCHANGED <<reverse, duration, sent, payload, wire, serverVars, waited, stalled>>

ClientPollReady ==
    /\ cpc = "poll"
    /\ Space > 0
    /\ cpc' = "send"
    /\ UNCHANGED <<reverse, duration, sent, payload, wire, serverVars, waited, stalled>>

\* A payload byte, of any value, follows the handshake.
ClientPayload ==
    /\ cpc = "ok"
    /\ ~reverse
    /\ payload < MaxPayload
    /\ Space > 0
    /\ \E b \in Byte : wire' = Append(wire, b)
    /\ payload' = payload + 1
    /\ UNCHANGED <<reverse, duration, cpc, sent, serverVars, waited, stalled>>

\* send() fails, or the client ends at any other point: the socket is closed.
ClientClose ==
    /\ cpc # "closed"
    /\ cpc' = "closed"
    /\ UNCHANGED <<reverse, duration, sent, payload, wire, serverVars, waited, stalled>>

--------------------------------------------------------------------------------
(* The server: recv_all() *)

\* Mutant: recv() is asked for the whole buffer after a partial receive.
ServerRecvWhole ==
    /\ spc = "recv"
    /\ \E n \in 1..Length :
          /\ n =< Len(wire)
          /\ got' = got \o SubSeq(wire, 1, n)
          /\ wire' = SubSeq(wire, n + 1, Len(wire))
          /\ spc' = IF Len(got) + n >= Length THEN "ok" ELSE "recv"
    /\ UNCHANGED <<clientVars, nonBlocking, waited, stalled>>

\* recv() returns some of the bytes that are there, never more than asked for.
ServerRecv ==
    /\ spc = "recv"
    /\ \E n \in 1..(Length - Len(got)) :
          /\ n =< Len(wire)
          /\ got' = got \o SubSeq(wire, 1, n)
          /\ wire' = SubSeq(wire, n + 1, Len(wire))
          /\ spc' = IF Len(got) + n = Length THEN "ok" ELSE "recv"
    /\ UNCHANGED <<clientVars, nonBlocking, waited, stalled>>

\* Mutant: a recv() that returns 0 is tried again.
ServerRecvRetries ==
    /\ spc = "recv"
    /\ cpc = "closed"
    /\ UNCHANGED vars

\* recv() returns 0 or an error: the client closed the connection, orderly or
\* not (a reset discards what was not received).
ServerRecvFails ==
    /\ spc = "recv"
    /\ cpc = "closed"
    /\ spc' = "failed"
    /\ UNCHANGED <<clientVars, wire, nonBlocking, got, waited, stalled>>

Nothing == wire = <<>> /\ cpc # "closed"

\* recv() returns EAGAIN, which a blocking socket never does.
ServerPoll ==
    /\ spc = "recv"
    /\ nonBlocking
    /\ Nothing
    /\ spc' = "poll"
    /\ waited' = 0
    /\ UNCHANGED <<clientVars, wire, nonBlocking, got, stalled>>

ServerPollReady ==
    /\ spc = "poll"
    /\ ~Nothing
    /\ spc' = "recv"
    /\ UNCHANGED <<clientVars, wire, nonBlocking, got, waited, stalled>>

\* Mutant: recv() is tried again after a poll() that timed out.
ServerPollAgain ==
    /\ spc = "poll"
    /\ Nothing
    /\ waited >= Timeout
    /\ spc' = "recv"
    /\ UNCHANGED <<clientVars, wire, nonBlocking, got, waited, stalled>>

ServerPollTimeout ==
    /\ spc = "poll"
    /\ Nothing
    /\ waited >= Timeout
    /\ spc' = "failed"
    /\ UNCHANGED <<clientVars, wire, nonBlocking, got, waited, stalled>>

\* A signal that this thread handles makes poll() fail.
ServerPollInterrupted ==
    /\ spc = "poll"
    /\ spc' = "failed"
    /\ UNCHANGED <<clientVars, wire, nonBlocking, got, waited, stalled>>

\* Time passes while the server can only wait; a poll() that timed out returns.
Tick ==
    /\ Nothing
    /\ \/ spc = "recv" /\ ~nonBlocking
       \/ spc = "poll" /\ waited < Timeout
    /\ stalled < MaxTime
    /\ waited' = waited + 1
    /\ stalled' = stalled + 1
    /\ UNCHANGED <<clientVars, wire, serverVars>>

Returned == spc \in {"ok", "failed"}

\* Both sides may rest once the handshake is over.
Idle ==
    /\ Returned
    /\ UNCHANGED vars

Client ==
    \/ ClientSend \/ ClientPoll \/ ClientPollReady
    \/ ClientPayload \/ ClientClose

Server ==
    \/ ServerRecv \/ ServerRecvFails \/ ServerPoll
    \/ ServerPollReady \/ ServerPollTimeout

Next == Client \/ Server \/ ServerPollInterrupted \/ Tick \/ Idle

Spec == Init /\ [][Next]_vars

\* The server's thread is scheduled and time passes; the client may be stuck.
FairSpec == Spec /\ WF_vars(Server) /\ WF_vars(Tick)

--------------------------------------------------------------------------------
(* Properties *)

\* Every variable stays in its domain.
TypeOK ==
    /\ reverse \in BOOLEAN
    /\ duration \in Durations
    /\ cpc \in {"send", "poll", "ok", "closed"}
    /\ sent \in 0..Length
    /\ payload \in 0..MaxPayload
    /\ wire \in Seq(Byte)
    /\ Len(wire) =< SockBuf
    /\ nonBlocking \in BOOLEAN
    /\ spc \in {"recv", "poll", "ok", "failed"}
    /\ got \in Seq(Byte)
    /\ Len(got) =< Length
    /\ waited \in Nat
    /\ stalled \in Nat

\* The variables stay in their domains (got and wire within their lengths), and a
\* server that accepts the handshake has read the client's direction and
\* duration, however the five bytes were cut up on the way, and has taken none
\* of the payload that follows them on the stream.
HandshakeExact ==
    /\ TypeOK
    /\ spc = "ok" =>
           /\ Decode(got) = [reverse |-> reverse, duration |-> duration]
           /\ sent = Length
           /\ Len(wire) = payload

\* recv_all() returns whatever the client does, unless the socket is blocking and
\* the client from some point on neither sends nor closes.
ServerReturns == <>Returned \/ <>[](~nonBlocking /\ Nothing)

\* On a non-blocking socket the timeout bounds each wait of recv_all(), and there
\* is at most one wait for each byte.
StallPerByte == nonBlocking => stalled =< Length * Timeout

\* recv_handshake() gives up on a client that makes it wait for longer than the
\* timeout it passes to recv_all().
StallBounded == ~Returned => stalled =< Timeout
================================================================================
