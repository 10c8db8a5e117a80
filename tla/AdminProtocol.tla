--------------------------- MODULE AdminProtocol ---------------------------
(***************************************************************************)
(* One run of iu9-ca-web-chat-admin-cli: it connects, sends one text, and  *)
(* waits for the answer (cli.cpp); a worker reads the text, carries it out *)
(* and answers (running_mainloop.cpp).  Both ways a message is             *)
(*    <magic string> <size of the body, 8 bytes> <body>                    *)
(* and both ends read it byte by byte (admin_control.cpp).                 *)
(*                                                                         *)
(* A direction of the connection is the message and two counters: the      *)
(* bytes that were sent and those that were read.  What recv returns       *)
(* beyond the end of a message is never looked at, so that reading one     *)
(* byte at a time tells the same.                                          *)
(***************************************************************************)
EXTENDS Integers, Sequences

CONSTANTS
    Texts,              \* what the administrator may type
    Reply(_),           \* guest_core_admin_control
    admin_to_server_ms, server_to_admin_ms,
    Base,               \* 256 values of a byte
    SizeBytes,          \* 8 bytes of a size
    Weight,             \* what a byte counts for: Base^(SizeBytes - k)
    MaxBody,            \* 100000000
    SendChunk,          \* 2048
    Window,             \* bound: bytes the kernel holds
    NoOutput, Failure

Byte == 0 .. Base - 1

ASSUME SizeAssumption ==
    /\ Base \in Nat \ {0} /\ SizeBytes \in Nat \ {0}
    /\ Weight \in [0 .. SizeBytes -> Nat \ {0}]
    /\ Weight[SizeBytes] = 1
    /\ \A k \in 0 .. SizeBytes - 1 : Weight[k] = Base * Weight[k + 1]
    /\ MaxBody \in Nat /\ SendChunk \in Nat \ {0} /\ Window \in Nat \ {0}

\* sizes fit: a string is shorter than 2^64, and no answer is empty
ASSUME TextAssumption ==
    /\ admin_to_server_ms \in Seq(Byte) /\ server_to_admin_ms \in Seq(Byte)
    /\ Texts \subseteq Seq(Byte)
    /\ \A t \in Texts :
        /\ Len(t) < Weight[0]
        /\ Reply(t) \in Seq(Byte)
        /\ Reply(t) # <<>> /\ Len(Reply(t)) < Weight[0]
    /\ NoOutput # Failure /\ NoOutput \notin Seq(Byte)

VARIABLES
    text,       \* `msg` of the command line tool
    cli,        \* "sending", "receiving", "output" or "failed"
    srv,        \* "queued", "receiving", "executing", "sending", "closed"
    cliCtx, srvCtx,         \* AdminControlProtMsgRecvCtx of both
    sentUp, readUp,         \* bytes from the tool to the server
    sentDown, readDown,     \* bytes from the server to the tool
    executed,   \* history: the texts given to admin_control_procedure
    output      \* what the tool prints after "Output:"

up == <<sentUp, readUp>>
down == <<sentDown, readDown>>
vars == <<text, cli, srv, cliCtx, srvCtx, up, down, executed, output>>

-----------------------------------------------------------------------------
(* The message format *)

\* the bytes of a size, the most significant first
SizeField(n) == [k \in 1 .. SizeBytes |-> (n \div Weight[k]) % Base]

generate_ac_msg_gen_case(content, ms) == ms \o SizeField(Len(content)) \o content

RequestMsg == generate_ac_msg_gen_case(text, admin_to_server_ms)
ResponseMsg == generate_ac_msg_gen_case(Reply(text), server_to_admin_ms)

NewCtx == [magic_string_progress |-> 0, body_size_progress |-> 0,
           b_sz |-> 0, body |-> <<>>, status |-> 0]

FeedMagic(ctx, ms, ch) ==
    IF ms[ctx.magic_string_progress + 1] # ch
    THEN [ctx EXCEPT !.status = -1]
    ELSE [ctx EXCEPT !.magic_string_progress = @ + 1]

FeedSize(ctx, ch) ==
    LET b_sz == (ctx.b_sz * Base + ch) % Weight[0]
    IN  [ctx EXCEPT
            !.b_sz = b_sz,
            !.body_size_progress = @ + 1,
            !.status = IF ctx.body_size_progress + 1 = SizeBytes /\ b_sz > MaxBody
                       THEN -1 ELSE 0]

\* Broken: one byte of the body is enough.
FeedBody_one(ctx, ch) ==
    [ctx EXCEPT !.body = Append(@, ch), !.status = 1]

\* Broken: it waits for one byte too many.
FeedBody_more(ctx, ch) ==
    [ctx EXCEPT !.body = Append(@, ch),
                !.status = IF Len(ctx.body) + 1 > ctx.b_sz THEN 1 ELSE 0]

FeedBody(ctx, ch) ==
    [ctx EXCEPT !.body = Append(@, ch),
                !.status = IF Len(ctx.body) + 1 >= ctx.b_sz THEN 1 ELSE 0]

feedCharacter(ctx, ms, ch) ==
    IF ctx.magic_string_progress < Len(ms) THEN FeedMagic(ctx, ms, ch)
    ELSE IF ctx.body_size_progress < SizeBytes THEN FeedSize(ctx, ch)
    ELSE FeedBody(ctx, ch)

-----------------------------------------------------------------------------

Init ==
    /\ text \in Texts
    /\ cli = "sending" /\ srv = "queued"
    /\ cliCtx = NewCtx /\ srvCtx = NewCtx
    /\ sentUp = 0 /\ readUp = 0 /\ sentDown = 0 /\ readDown = 0
    /\ executed = <<>>
    /\ output = NoOutput

\* What the tool and the server may write at once: send() takes what fits.
MayWrite(message, sent, read) ==
    {n \in 1 .. SendChunk :
        sent + n <= Len(message) /\ sent + n - read <= Window}

(* The tool *)

\* send_request_msg.  To a server that has hung up it may be written, too.
CliSend ==
    /\ cli = "sending"
    /\ \E n \in MayWrite(RequestMsg, sentUp, readUp) :
        /\ sentUp' = sentUp + n
        /\ cli' = IF sentUp + n = Len(RequestMsg) THEN "receiving" ELSE "sending"
    /\ UNCHANGED <<text, srv, cliCtx, srvCtx, readUp, down, executed, output>>

\* receive_response_msg
CliRecv ==
    /\ cli = "receiving" /\ readDown < sentDown
    /\ readDown' = readDown + 1
    /\ cliCtx' = feedCharacter(cliCtx, server_to_admin_ms, ResponseMsg[readDown + 1])
    /\ cli' = CASE cliCtx'.status = 1 -> "output"
                [] cliCtx'.status = 0 -> "receiving"
                [] OTHER -> "failed"
    /\ output' = IF cliCtx'.status = 1 THEN cliCtx'.body ELSE output
    /\ UNCHANGED <<text, srv, srvCtx, up, sentDown, executed>>

CliGivesUp ==
    /\ cli' = "failed"
    /\ UNCHANGED <<text, srv, cliCtx, srvCtx, up, down, executed, output>>

\* The server has hung up: send() fails, recv() returns 0 or fails.
CliIsCutOff ==
    /\ srv = "closed"
    /\ \/ cli = "sending"
       \/ cli = "receiving" /\ readDown = sentDown
    /\ CliGivesUp

\* The connection is reset, or the tool is stopped.
CliBreaks == cli \in {"sending", "receiving"} /\ CliGivesUp

(* The server *)

\* pop_first hands the connection to a worker
StartServing ==
    /\ srv = "queued"
    /\ srv' = "receiving"
    /\ UNCHANGED <<text, cli, cliCtx, srvCtx, up, down, executed, output>>

\* process_admin_control_connection_input.  status -1: "Incorrect request"
SrvRecv ==
    /\ srv = "receiving" /\ readUp < sentUp
    /\ readUp' = readUp + 1
    /\ srvCtx' = feedCharacter(srvCtx, admin_to_server_ms, RequestMsg[readUp + 1])
    /\ srv' = CASE srvCtx'.status = 1 -> "executing"
                [] srvCtx'.status = 0 -> "receiving"
                [] OTHER -> "closed"
    /\ UNCHANGED <<text, cli, cliCtx, sentUp, down, executed, output>>

SrvHangsUp ==
    /\ srv' = "closed"
    /\ UNCHANGED <<text, cli, cliCtx, srvCtx, up, down, executed, output>>

\* Broken: recv() waits for ever.
SrvRecvFails_untimed ==
    srv = "receiving" /\ readUp = sentUp /\ cli = "failed" /\ SrvHangsUp

\* Nothing came for request_timeout, or the tool has hung up: the status is
\* still 0, "Incorrect request".
SrvRecvFails == srv = "receiving" /\ readUp = sentUp /\ SrvHangsUp

\* guest_core_admin_control, one transaction
Execute ==
    /\ srv = "executing"
    /\ executed' = Append(executed, srvCtx.body)
    /\ srv' = "sending"
    /\ UNCHANGED <<text, cli, cliCtx, srvCtx, up, down, output>>

\* process_connection_output; then the task closes its socket.
SrvSend ==
    /\ srv = "sending"
    /\ \E n \in MayWrite(ResponseMsg, sentDown, readDown) :
        /\ sentDown' = sentDown + n
        /\ srv' = IF sentDown + n = Len(ResponseMsg) THEN "closed" ELSE "sending"
    /\ UNCHANGED <<text, cli, cliCtx, srvCtx, up, readDown, executed, output>>

\* EPIPE, or the window stays full for request_timeout
SrvSendFails ==
    /\ srv = "sending"
    /\ cli = "failed" \/ MayWrite(ResponseMsg, sentDown, readDown) = {}
    /\ SrvHangsUp

\* The queue was full, the process ends while the connection is queued, or it
\* is killed: before the transaction, or after it.
SrvBreaks == srv # "closed" /\ SrvHangsUp

\* Both have finished.
Finished ==
    /\ cli \in {"output", "failed"} /\ srv = "closed"
    /\ UNCHANGED vars

CliNext == CliSend \/ CliRecv \/ CliIsCutOff
SrvNext == StartServing \/ SrvRecv \/ SrvRecvFails \/ Execute \/ SrvSend \/ SrvSendFails

Next == CliNext \/ CliBreaks \/ SrvNext \/ SrvBreaks \/ Finished

Spec == Init /\ [][Next]_vars

(* FAIRNESS: both programs run; request_timeout is finite; a queued         *)
(* connection is taken in the end (QueuedIsServed of WorkerPool) or closed. *)
FairSpec == Spec /\ WF_vars(CliNext) /\ WF_vars(SrvNext)

-----------------------------------------------------------------------------
(* Properties *)

Ctx == [magic_string_progress : Nat, body_size_progress : 0 .. SizeBytes,
        b_sz : Nat, body : Seq(Byte), status : {-1, 0, 1}]

\* Counters, phases and contexts have their types; nothing is sent from
\* beyond a message, and nothing is read that was not sent.
TypeOK ==
    /\ text \in Texts
    /\ cli \in {"sending", "receiving", "output", "failed"}
    /\ srv \in {"queued", "receiving", "executing", "sending", "closed"}
    /\ cliCtx \in Ctx /\ srvCtx \in Ctx
    /\ sentUp \in 0 .. Len(RequestMsg) /\ readUp \in 0 .. sentUp
    /\ sentDown \in 0 .. Len(ResponseMsg) /\ readDown \in 0 .. sentDown
    /\ executed \in Seq(Seq(Byte))
    /\ output \in Seq(Byte) \cup {NoOutput}

Call == INSTANCE RemoteCall WITH
            Commands <- Texts, command <- text,
            NoResult <- NoOutput, Failure <- Failure,
            result <- IF cli = "failed" THEN Failure ELSE output

\* Wherever the connection breaks and whatever runs out of time, one run of
\* the tool is one remote call: the text is carried out at most once and
\* whole, never a part of it, and what is printed is the whole answer to it.
ExchangeIsOneCall == Call!Spec

\* "Server reads it to the end": a text that has arrived is recognised with
\* its last byte; the server waits for nothing more.
ReadsToTheEnd == readUp = Len(RequestMsg) => srvCtx.status # 0

\* ... a text that is not empty.
ReadsTextToTheEnd == text # <<>> => ReadsToTheEnd

\* Whoever may be cut off: the tool comes back.
ToolComesBack == <>(cli \in {"output", "failed"})
=============================================================================
