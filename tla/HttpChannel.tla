----------------------------- MODULE HttpChannel -----------------------------
(***************************************************************************)
(* A channel of protocol "http" (client.rs:390-535): the head of the first *)
(* request that a visitor sends is parsed, written to the local service    *)
(* with headers overridden, and from then on the two sockets are copied.   *)
(*                                                                         *)
(* The channel is one task.  Each action is a stretch of it between two    *)
(* awaits, or a step of the parser within one.  Writes are cut anywhere;   *)
(* what is written is counted in units: a line, a header, a byte of data.  *)
(***************************************************************************)
EXTENDS LlHttp

CONSTANTS
  Override,     \* the headers the user overrides: records of name and value
  AutoOverride, \* whether Host is set to the address of the local service
  LocalAddr,    \* that address
  Cuts,         \* where reads of each of the Streams may end
  Replies,      \* how many units of data the local service may send, for
                \* each of the Streams
  Logged,       \* whether log::info! formats its lines; for each of the
                \* Streams, the answers to try
  Requests      \* what well-formed requests among the Streams say: their
                \* method, url, version and headers (a sequence)

VARIABLES
  phase,               \* where the task stands
  info,                \* whether the log level lets log::info! format its line
  line_sent,           \* is_request_line_send
  override_remote_buf, \* what is to be written to the local socket
  to_local,            \* what has been written to the local socket
  local_buf,           \* what has been read from the local socket
  replied,             \* how many units the local service has sent
  to_remote            \* what has been written to the remote socket

channelVars ==
  <<phase, info, line_sent, override_remote_buf, to_local, local_buf, replied,
    to_remote>>
vars == <<parserVars, channelVars>>

Phases ==
  {"select", "execute", "write_line", "headers", "write_headers", "head_end",
   "write_local", "flush_local", "flush_remote", "copy", "ended", "panicked"}

HttpAssumption ==
  /\ Override \subseteq [name : Seq(Bytes), value : Seq(Bytes)]
  /\ AutoOverride \in BOOLEAN
  /\ LocalAddr \in Seq(Bytes)
  /\ Cuts \in [Streams -> SUBSET Nat]
  /\ \A s \in Streams : Len(s) \in Cuts[s]
  /\ Replies \in [Streams -> Nat]
  /\ Logged \in [Streams -> SUBSET BOOLEAN]
  /\ DOMAIN Requests \subseteq Streams
ASSUME HttpAssumption

----------------------------------------------------------------------------
(* Well-formed requests, as a client writes them.                          *)

HeaderBytes(h) == h.name \o <<":", "SP">> \o h.value \o <<"CR", "LF">>
Rendered(r) ==
  r.method \o <<"SP">> \o r.url \o <<"SP">> \o Spell["HTTP/"] \o r.version
    \o <<"CR", "LF">>
    \o FlattenSeq([i \in DOMAIN r.headers |-> HeaderBytes(r.headers[i])])
    \o <<"CR", "LF">>

(* A path, or a scheme and a server, "://" between them, and then a path.  *)
PathUrl(url) == url[1] \in {"/", "*"} /\ \A i \in DOMAIN url : url[i] \in Printable
ServerParts(url, a, b) ==
  /\ a + 3 <= b /\ SubSeq(url, a + 1, a + 3) = <<":", "/", "/">>
  /\ \A i \in 1 .. a : url[i] \in Letter
  /\ \A i \in a + 4 .. b : url[i] \in UrlServerByte \/ (url[i] = "@" /\ url[i - 1] # "@")
  /\ \A i \in b + 1 .. Len(url) : url[i] \in Printable
  /\ b < Len(url) => url[b + 1] \in {"/", "?"}
ServerUrl(url) == \E a, b \in DOMAIN url : ServerParts(url, a, b)

IsLength(h) == LowerAll(h.name) = Spell["content_length"]

(* A length has digits only, and fits with each of its beginnings.  The    *)
(* body is told by a length, and nothing is upgraded.                      *)
HeaderOK(h) ==
  /\ h.name \in Seq(TokenByte) \ {<<>>} /\ h.value \in Seq(Text)
  /\ h.value # <<>> => h.value[1] \notin {"HT", "SP"}
  /\ LowerAll(h.name) \notin {Spell["transfer_encoding"], Spell["upgrade"]}
  /\ IsLength(h) =>
       /\ h.value \in Seq(Digit) \ {<<>>}
       /\ \A n \in DOMAIN h.value : Number(SubSeq(h.value, 1, n)) <= MaxLength

WellFormed(s, r) ==
  /\ \E m \in HttpMethods \ {"CONNECT"} : m \in DOMAIN Spell /\ r.method = Spell[m]
  /\ r.url \in Seq(Bytes) \ {<<>>} /\ (PathUrl(r.url) \/ ServerUrl(r.url))
  /\ \E major, minor \in Digit :
       r.version = <<major, ".", minor>> /\ Supported(Value(major), Value(minor))
  /\ r.headers \in Seq([name : Seq(Bytes), value : Seq(Bytes)])
  /\ \A i \in DOMAIN r.headers : HeaderOK(r.headers[i])
  /\ \A i, j \in DOMAIN r.headers :
       LowerAll(r.headers[i].name) = LowerAll(r.headers[j].name) => i = j
  /\ SubSeq(s, 1, Len(Rendered(r))) = Rendered(r)
  /\ \/ Len(s) = Len(Rendered(r))
     \/ \E i \in DOMAIN r.headers :
          /\ IsLength(r.headers[i])
          /\ Len(s) \in Len(Rendered(r)) .. Len(Rendered(r)) + Number(r.headers[i].value)

RequestsAssumption == \A s \in DOMAIN Requests : WellFormed(s, Requests[s])
ASSUME RequestsAssumption

----------------------------------------------------------------------------
Unwrapped(option) == CHOOSE v \in option : TRUE
Line ==
  [kind |-> "line", method |-> Unwrapped(request.method),
   url |-> Unwrapped(request.url), version |-> Unwrapped(request.version)]
Header(h) == [kind |-> "header", name |-> h.name, value |-> h.value]
Crlf      == [kind |-> "crlf"]
Data(s)   == [i \in 1 .. Len(s) |-> [kind |-> "data", byte |-> s[i]]]

(* override_headers: Host first, then what the user says.                  *)
Overrides ==
  LET host == [name |-> Spell["host"], value |-> LocalAddr]
  IN  Override \cup
      {h \in {host} : /\ AutoOverride
                      /\ \A o \in Override : LowerAll(o.name) # LowerAll(h.name)}

(* override_header_fn for one header.                                      *)
Overridden(h) ==
  LET values == {o.value : o \in {o \in Overrides : LowerAll(o.name) = LowerAll(h.name)}}
  IN  IF values = {} THEN h ELSE [h EXCEPT !.value = CHOOSE v \in values : TRUE]

----------------------------------------------------------------------------
Init ==
  /\ ParserInit
  /\ phase = "select"
  /\ info \in Logged[stream]
  /\ line_sent = FALSE
  /\ override_remote_buf = <<>>
  /\ to_local = <<>>
  /\ local_buf = <<>>
  /\ replied = 0
  /\ to_remote = <<>>

(* write_buf to the local, and to the remote, socket: some of the buffer.  *)
WriteLocal ==
  \E n \in 1 .. Len(override_remote_buf) :
    /\ to_local' = to_local \o SubSeq(override_remote_buf, 1, n)
    /\ override_remote_buf' = SubSeq(override_remote_buf, n + 1, Len(override_remote_buf))
WriteRemote ==
  \E n \in 1 .. Len(local_buf) :
    /\ to_remote' = to_remote \o SubSeq(local_buf, 1, n)
    /\ local_buf' = SubSeq(local_buf, n + 1, Len(local_buf))

----------------------------------------------------------------------------
(* The select! loop: the branch of the local socket.                       *)

ReadLocal ==
  /\ phase = "select"
  /\ \E n \in replied + 1 .. Replies[stream] :
       /\ local_buf' = local_buf \o [i \in 1 .. n - replied |-> replied + i]
       /\ replied' = n
  /\ phase' = "write_local"
  /\ UNCHANGED <<parserVars, info, line_sent, override_remote_buf, to_local,
                 to_remote>>

(* One write, whatever it leaves in local_buf.                             *)
ForwardReply ==
  /\ phase = "write_local"
  /\ WriteRemote
  /\ phase' = "select"
  /\ UNCHANGED <<parserVars, info, line_sent, override_remote_buf, to_local,
                 replied>>

(* The branch of the remote socket.  The log line is formatted first, and  *)
(* unwraps the decoding of all that was read; then it is parsed.           *)
DecodesLossily(n) == TRUE                                  \* mutant
Decodes(n) == Utf8(SubSeq(stream, endp, endp + n - 1))

ReadRemote ==
  /\ phase = "select"
  /\ \E n \in 1 .. Len(stream) :
       /\ endp + n - 1 \in Cuts[stream]
       /\ \/ /\ info => Decodes(n)
             /\ Execute(n)
             /\ phase' = "execute"
          \/ /\ info /\ ~Decodes(n)
             /\ phase' = "panicked"
             /\ UNCHANGED parserVars
  /\ UNCHANGED <<info, line_sent, override_remote_buf, to_local, local_buf,
                 replied, to_remote>>

Parse == phase = "execute" /\ (ParserStep \/ ExecuteReturns) /\ UNCHANGED channelVars

LineDueAgain == request.version # {}                       \* mutant
LineDue == request.version # {} /\ ~line_sent

(* Any error, HPE_PAUSED_UPGRADE too, ends the channel.                    *)
Parsed ==
  /\ phase = "execute" /\ ~executing
  /\ \/ /\ request.aborted
        /\ phase' = "panicked"
        /\ UNCHANGED <<line_sent, override_remote_buf>>
     \/ /\ ~request.aborted /\ parser.error # "OK"
        /\ phase' = "ended"
        /\ UNCHANGED <<line_sent, override_remote_buf>>
     \/ /\ ~request.aborted /\ parser.error = "OK"
        /\ LineDue
        /\ line_sent' = TRUE
        /\ override_remote_buf' = Append(override_remote_buf, Line)
        /\ phase' = "write_line"
     \/ /\ ~request.aborted /\ parser.error = "OK"
        /\ ~LineDue
        /\ phase' = "headers"
        /\ UNCHANGED <<line_sent, override_remote_buf>>
  /\ UNCHANGED <<parserVars, info, to_local, local_buf, replied, to_remote>>

WriteLineAndContinue ==                                    \* mutant
  /\ phase = "write_line"
  /\ WriteLocal
  /\ phase' = "select"
  /\ UNCHANGED <<parserVars, info, line_sent, local_buf, replied, to_remote>>
WriteLine ==
  /\ phase = "write_line"
  /\ WriteLocal
  /\ phase' = "headers"
  /\ UNCHANGED <<parserVars, info, line_sent, local_buf, replied, to_remote>>

(* take_headers: those of this read, in the order of a HashMap.            *)
TakeHeaders ==
  /\ phase = "headers"
  /\ request' = [request EXCEPT !.headers = {}]
  /\ \/ /\ request.headers = {}
        /\ phase' = "head_end"
        /\ UNCHANGED override_remote_buf
     \/ /\ request.headers # {}
        /\ \E hs \in SetToSeqs(request.headers) :
             override_remote_buf' = override_remote_buf
               \o [i \in DOMAIN hs |-> Header(Overridden(hs[i]))]
        /\ phase' = "write_headers"
  /\ UNCHANGED <<stream, p, endp, executing, cur, parser, info, line_sent, to_local,
                 local_buf, replied, to_remote>>

WriteHeaders ==
  /\ phase = "write_headers"
  /\ WriteLocal
  /\ phase' = "head_end"
  /\ UNCHANGED <<parserVars, info, line_sent, local_buf, replied, to_remote>>

(* Leave the loop when the head is complete.                               *)
EndOfHead ==
  /\ phase = "head_end"
  /\ \/ /\ ~request.is_header_complete
        /\ phase' = "select"
        /\ UNCHANGED <<parserVars, override_remote_buf>>
     \/ /\ request.is_header_complete
        /\ override_remote_buf' =
             Append(override_remote_buf, Crlf) \o Data(request.buf["on_body"])
        /\ Reset
        /\ phase' = "flush_local"
  /\ UNCHANGED <<info, line_sent, to_local, local_buf, replied, to_remote>>

----------------------------------------------------------------------------
(* After the loop.                                                         *)

FlushLocalOnce ==                                          \* mutant
  /\ phase = "flush_local"
  /\ WriteLocal
  /\ phase' = "flush_remote"
  /\ UNCHANGED <<parserVars, info, line_sent, local_buf, replied, to_remote>>
FlushLocal ==
  /\ phase = "flush_local"
  /\ \/ WriteLocal /\ UNCHANGED phase
     \/ /\ override_remote_buf = <<>>
        /\ phase' = "flush_remote"
        /\ UNCHANGED <<override_remote_buf, to_local>>
  /\ UNCHANGED <<parserVars, info, line_sent, local_buf, replied, to_remote>>

NoFlushRemote ==                                           \* mutant
  /\ phase = "flush_remote"
  /\ phase' = "copy"
  /\ UNCHANGED <<parserVars, info, line_sent, override_remote_buf, to_local,
                 local_buf, replied, to_remote>>
FlushRemote ==
  /\ phase = "flush_remote"
  /\ \/ WriteRemote /\ UNCHANGED phase
     \/ /\ local_buf = <<>>
        /\ phase' = "copy"
        /\ UNCHANGED <<local_buf, to_remote>>
  /\ UNCHANGED <<parserVars, info, line_sent, override_remote_buf, to_local, replied>>

(* copy_bidirectional, a byte and a reply at a time.                       *)
CopyToLocal ==
  /\ phase = "copy" /\ endp <= Len(stream)
  /\ to_local' = to_local \o Data(<<stream[endp]>>)
  /\ endp' = endp + 1 /\ p' = endp + 1
  /\ UNCHANGED <<stream, executing, cur, parser, request, phase, info, line_sent,
                 override_remote_buf, local_buf, replied, to_remote>>
CopyToRemote ==
  /\ phase = "copy" /\ replied < Replies[stream]
  /\ to_remote' = Append(to_remote, replied + 1)
  /\ replied' = replied + 1
  /\ UNCHANGED <<parserVars, phase, info, line_sent, override_remote_buf, to_local,
                 local_buf>>

(* A socket is closed or broken: wherever the task awaits one, it ends.    *)
SocketFails ==
  /\ phase \in {"select", "write_local", "write_line", "write_headers",
                "flush_local", "flush_remote", "copy"}
  /\ phase' = "ended"
  /\ UNCHANGED <<parserVars, info, line_sent, override_remote_buf, to_local,
                 local_buf, replied, to_remote>>

----------------------------------------------------------------------------
TaskStep ==
  \/ Parse \/ Parsed \/ WriteLine \/ TakeHeaders \/ WriteHeaders \/ EndOfHead
  \/ ForwardReply \/ FlushLocal \/ FlushRemote

Next ==
  \/ TaskStep \/ ReadLocal \/ ReadRemote \/ CopyToLocal \/ CopyToRemote
  \/ SocketFails

Spec == Init /\ [][Next]_vars

(* The runtime polls a task that can go on; select! polls its branches in  *)
(* random order, so a branch that stays ready is taken.                    *)
FairSpec == Spec /\ WF_vars(TaskStep) /\ WF_vars(ReadRemote) /\ WF_vars(CopyToLocal)

----------------------------------------------------------------------------
(* Properties.                                                             *)

Unit ==
  [kind : {"line"}, method : Seq(Bytes), url : Seq(Bytes), version : Seq(Bytes)]
  \cup [kind : {"header"}, name : Seq(Bytes), value : Seq(Bytes)]
  \cup {Crlf} \cup [kind : {"data"}, byte : Bytes]

(* The types; the parser runs only within the branch of the remote socket. *)
HttpTypeOK ==
  /\ ParserTypeOK
  /\ phase \in Phases
  /\ executing => phase = "execute"
  /\ info \in BOOLEAN /\ line_sent \in BOOLEAN
  /\ override_remote_buf \in Seq(Unit) /\ to_local \in Seq(Unit)
  /\ local_buf \in Seq(Nat) /\ to_remote \in Seq(Nat)
  /\ replied \in 0 .. Replies[stream]

(* The callbacks unwrap the decoding of their bytes inside C code, where a *)
(* panic aborts the process with all its channels (llhttp/mod.rs:92-152).  *)
(* While lines are logged none does: what the log line could decode, every *)
(* span of it decodes too, for a span never ends inside a character.       *)
CallbacksDecode == info => ~request.aborted

(* Wherever a well-formed request is cut, parsing it reports no error      *)
(* (client.rs:465: an error is the end of the channel).                    *)
RequestsAccepted == stream \in DOMAIN Requests => parser.error = "OK"

(* Wherever a well-formed request is cut, and however little each write    *)
(* takes, what the local service has got when the copy begins is the line, *)
(* every header once, with the values of the user for those overridden,    *)
(* the blank line and the body so far; the copy goes on with the next byte *)
(* (client.rs:464-531).                                                    *)
HeadForwarded ==
  phase = "copy" /\ stream \in DOMAIN Requests =>
    LET r       == Requests[stream]
        n       == Len(r.headers)
        headers == {Header(Overridden(h)) : h \in ToSet(r.headers)}
    IN  /\ Len(to_local) >= n + 2
        /\ to_local[1] = [kind |-> "line", method |-> r.method, url |-> r.url,
                          version |-> r.version]
        /\ {to_local[i] : i \in 2 .. n + 1} = headers
        /\ SubSeq(to_local, n + 2, Len(to_local))
             = <<Crlf>> \o Data(SubSeq(stream, Len(Rendered(r)) + 1, endp - 1))

(* Whatever a visitor sends, the local service gets at most one head from  *)
(* the loop: one request line at most, headers, one blank line, data.  The *)
(* line goes out as soon as its version is known (client.rs:468-511).  It  *)
(* need not be the first: a request of HTTP/0.9 has no version, hence no   *)
(* line, and a request behind it may add its own after its headers.        *)
Forwarded == to_local \o override_remote_buf
OneHead ==
  LET rank    == [line |-> 1, header |-> 1, crlf |-> 2, data |-> 3]
      kind(i) == Forwarded[i].kind
  IN  /\ \A i, j \in DOMAIN Forwarded :
           i < j => \/ rank[kind(i)] < rank[kind(j)]
                    \/ rank[kind(i)] = rank[kind(j)]
                         /\ {kind(i), kind(j)} \notin {{"line"}, {"crlf"}}
      /\ phase \in {"headers", "write_headers", "head_end", "select"}
           /\ request.version # {} =>
             \E i \in DOMAIN Forwarded : kind(i) = "line"

(* What the local service answers reaches the visitor in order and once,   *)
(* from the loop, the flush and the copy alike (client.rs:446-457,523-531).*)
RepliesInOrder == to_remote \o local_buf = [i \in 1 .. replied |-> i]

(* A well-formed request whose visitor and service stay connected, and     *)
(* that no log line chokes on, arrives in full (client.rs:444-531).        *)
RequestArrives ==
  stream \in DOMAIN Requests ~>
    \/ phase \in {"ended", "panicked"}
    \/ phase = "copy" /\ endp = Len(stream) + 1
=============================================================================
