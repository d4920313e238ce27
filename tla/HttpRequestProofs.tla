-------------------------- MODULE HttpRequestProofs --------------------------
(***************************************************************************)
(* For every well-formed request, every cut of it by reads and every cut   *)
(* of the writes: the parser reports no error, and the local service gets  *)
(* the head of the request once, overridden, and then its body.            *)
(*                                                                         *)
(* Where in the request the parser stands determines its state, what its   *)
(* callbacks have got and what the fields hold, wherever the reads cut it; *)
(* so it meets no byte that it does not expect, and every header is        *)
(* inserted as it is written.  What the loop has taken from the fields it  *)
(* has forwarded.                                                          *)
(***************************************************************************)
EXTENDS HttpProofs

-----------------------------------------------------------------------------
(* The request that the stream is, and where its parts begin.              *)
Wanted == Requests[stream]
Count  == Len(Wanted.headers)
Nth(k) == Wanted.headers[k]

UrlAt      == Len(Wanted.method) + 2
ProtocolAt == UrlAt + Len(Wanted.url) + 1
VersionAt  == ProtocolAt + Len(Spell["HTTP/"])
Headers    == [i \in DOMAIN Wanted.headers |-> HeaderBytes(Wanted.headers[i])]
HeaderAt(k) == VersionAt + 5 + Len(FlattenSeq(SubSeq(Headers, 1, k - 1)))
ColonAt(k)  == HeaderAt(k) + Len(Nth(k).name)
ValueAt(k)  == ColonAt(k) + 2
ValueEnd(k) == ValueAt(k) + Len(Nth(k).value)
BodyAt      == HeaderAt(Count + 1) + 2

From(a, at) == SubSeq(stream, a, at - 1)

(* What the callbacks have got, with what the open span will bring them.   *)
Open(c) ==
  IF executing /\ parser.span.cb = c THEN From(parser.span.from, p) ELSE <<>>
Heard  == [c \in Callbacks |-> request.buf[c] \o Open(c)]
Silent == [c \in Callbacks |-> <<>>]
Saying(c, s)     == [Silent EXCEPT ![c] = s]
Valuing(name, s) == [Silent EXCEPT !["on_header_field"] = name, !["on_header_value"] = s]

(* How many headers the loop has taken from the fields.                    *)
Taken == IF line_sent THEN Len(Forwarded) - 1 ELSE 0

-----------------------------------------------------------------------------
(* In the request line.                                                    *)

(* Of the first k headers the loop has taken n, the fields hold the rest.  *)
HeadersRead(r, n, k) == n \in 0 .. k /\ r.headers = {Nth(j) : j \in n + 1 .. k}

MethodRead(q, r) ==
  q.method \in HttpMethods \ {"CONNECT"} /\ r.method = {Wanted.method}
UrlRead(q, r) == MethodRead(q, r) /\ r.url = {Wanted.url}
LineRead(q, r) == UrlRead(q, r) /\ r.version = {Wanted.version}

OnStart(node, at, r, h) == node = "start" /\ at = 1 /\ r.version = {} /\ h = Silent

OnMethod(node, at, q, r, h) ==
  /\ node = "after_start_req" /\ at \in 1 .. Len(Wanted.method) + 1
  /\ q.matched = From(1, at)
  /\ r.version = {} /\ h = Saying("on_method", From(1, at))

OnSpace(node, at, q, r, h) ==
  /\ \/ node = "req_first_space_before_url" /\ at = UrlAt - 1
     \/ node \in {"req_spaces_before_url", "url_entry_normal"} /\ at = UrlAt
  /\ MethodRead(q, r) /\ r.version = {} /\ h = Silent

(* Where in the url, i bytes into it.                                      *)
PathPlace(node, i) ==
  LET url == Wanted.url
  IN  /\ \A j \in i + 1 .. Len(url) : url[j] \in Printable
      /\ \/ node \in {"url_path", "url_query", "url_fragment"}
         \/ node = "url_query_or_fragment" /\ (i < Len(url) => url[i + 1] \in {"#", "?"})
ServerPlace(node, i, a, b) ==
  /\ ServerParts(Wanted.url, a, b)
  /\ \/ node = "url_schema" /\ i \in 0 .. a
     \/ node = "url_schema_delim" /\ i = a + 1
     \/ node = "url_schema_delim_1" /\ i = a + 2
     \/ node = "url_server" /\ i \in a + 3 .. b
     \/ node = "url_server_with_at" /\ i \in a + 4 .. b /\ Wanted.url[i] = "@"
UrlPlace(node, i) ==
  \/ node = "url_start" /\ i = 0
  \/ PathPlace(node, i)
  \/ \E a, b \in DOMAIN Wanted.url : ServerPlace(node, i, a, b)

OnUrl(node, at, q, r, h) ==
  /\ at \in UrlAt .. ProtocolAt - 1 /\ UrlPlace(node, at - UrlAt)
  /\ MethodRead(q, r) /\ r.version = {} /\ h = Saying("on_url", From(UrlAt, at))

BehindUrl(node, at, q, r, h) ==
  /\ \/ node = "url_skip_to_http" /\ at = ProtocolAt - 1
     \/ node = "url_to_http" /\ at = ProtocolAt
  /\ MethodRead(q, r) /\ r.version = {} /\ h = Saying("on_url", Wanted.url)

OnProtocol(node, at, q, r, h) ==
  /\ node = "req_http_start" /\ at \in ProtocolAt .. VersionAt - 1
  /\ q.matched = From(ProtocolAt, at)
  /\ UrlRead(q, r) /\ r.version = {} /\ h = Silent

OnVersion(node, at, q, r, h) ==
  /\ \/ node = "req_http_major" /\ at = VersionAt
     \/ node = "req_http_dot" /\ at = VersionAt + 1
     \/ node = "req_http_minor" /\ at = VersionAt + 2
  /\ at # VersionAt => q.http_major = Value(Wanted.version[1])
  /\ UrlRead(q, r) /\ r.version = {} /\ h = Saying("on_version", From(VersionAt, at))

OnLineEnd(node, at, q, r, h) ==
  /\ \/ node = "req_http_complete" /\ at = VersionAt + 3
     \/ node = "req_http_complete_crlf" /\ at = VersionAt + 4
     \/ node = "headers_start" /\ at = VersionAt + 5
  /\ LineRead(q, r) /\ h = Silent

InLine(node, at, q, r, h, n) ==
  /\ q.flags = {} /\ HeadersRead(r, n, 0) /\ ~r.is_header_complete
  /\ \/ OnStart(node, at, r, h) \/ OnMethod(node, at, q, r, h)
     \/ OnSpace(node, at, q, r, h) \/ OnUrl(node, at, q, r, h)
     \/ BehindUrl(node, at, q, r, h) \/ OnProtocol(node, at, q, r, h)
     \/ OnVersion(node, at, q, r, h) \/ OnLineEnd(node, at, q, r, h)

-----------------------------------------------------------------------------
(* In the k-th header, or behind the last.                                 *)

(* The lengths of the first k are known.                                   *)
Lengths(q, k) ==
  /\ "F_CONTENT_LENGTH" \in q.flags <=> \E j \in 1 .. k : IsLength(Nth(j))
  /\ \A j \in 1 .. k : IsLength(Nth(j)) => q.content_length = Number(Nth(j).value)

OnFieldStart(node, at, q, h, k) ==
  /\ \/ node = "header_field_start" /\ at = HeaderAt(k)
     \/ node = "headers_almost_done" /\ at = HeaderAt(k) + 1 /\ k = Count + 1
  /\ h = Silent /\ Lengths(q, k - 1)

NamePlace(node, at, q, k) ==
  LET s == LowerAll(From(HeaderAt(k), at))
  IN  \/ node = "header_field" /\ q.matched = s /\ (IsLength(Nth(k)) => at < ColonAt(k))
      \/ /\ node = "header_field_colon"
         /\ \E w \in DOMAIN FieldState : q.header_state = FieldState[w] /\ s = Spell[w]
      \/ node = "header_field_general" /\ q.header_state = "GENERAL" /\ ~IsLength(Nth(k))

OnName(node, at, q, h, k) ==
  /\ k <= Count /\ at \in HeaderAt(k) .. ColonAt(k) /\ NamePlace(node, at, q, k)
  /\ h = Saying("on_header_field", From(HeaderAt(k), at)) /\ Lengths(q, k - 1)

(* header_state says what the header is.                                   *)
Labelled(q, k) ==
  /\ q.header_state = "CONTENT_LENGTH" <=> IsLength(Nth(k))
  /\ q.header_state \in {"GENERAL", "CONNECTION", "CONTENT_LENGTH"} \cup OptionStates

OnBlanks(node, at, q, h, k) ==
  /\ \/ node = "header_value_discard_ws" /\ at \in ValueAt(k) - 1 .. ValueAt(k)
     \/ /\ Nth(k).value = <<>>
        /\ \/ node = "header_value_discard_ws_almost_done" /\ at = ValueEnd(k) + 1
           \/ node = "header_value_discard_lws" /\ at = ValueEnd(k) + 2
  /\ k <= Count /\ Labelled(q, k)
  /\ h = Saying("on_header_field", Nth(k).name) /\ Lengths(q, k - 1)

OptionNodes ==
  {"header_value_connection", "header_value_connection_ws", "header_value_connection_token"}
ValuePlace(node, at, q, k) ==
  \/ node \in {"header_value"} \cup OptionNodes /\ ~IsLength(Nth(k)) /\ Lengths(q, k - 1)
  \/ node = "header_value_content_length" /\ IsLength(Nth(k)) /\ Lengths(q, k - 1)
  \/ /\ node = "header_value_content_length_ws" /\ IsLength(Nth(k)) /\ Lengths(q, k - 1)
     /\ at = ValueEnd(k) /\ q.content_length = Number(Nth(k).value)
  \/ node = "header_value_otherwise" /\ at = ValueEnd(k) /\ Lengths(q, k)

OnValue(node, at, q, h, k) ==
  /\ k <= Count /\ at \in ValueAt(k) .. ValueEnd(k)
  /\ Labelled(q, k) /\ ValuePlace(node, at, q, k)
  /\ h = Valuing(Nth(k).name, From(ValueAt(k), at))

BehindValue(node, at, q, h, k) ==
  /\ \/ node = "header_value_almost_done" /\ at = ValueEnd(k) + 1
     \/ node = "header_value_lws" /\ at = ValueEnd(k) + 2
  /\ k <= Count /\ Labelled(q, k) /\ Lengths(q, k)
  /\ h = Valuing(Nth(k).name, Nth(k).value)

Untold == {"F_UPGRADE", "F_CHUNKED", "F_TRANSFER_ENCODING", "F_TRAILING"}

InHeader(node, at, q, r, h, n, k) ==
  /\ LineRead(q, r) /\ HeadersRead(r, n, k - 1) /\ ~r.is_header_complete
  /\ q.flags \cap Untold = {}
  /\ \/ OnFieldStart(node, at, q, h, k) \/ OnName(node, at, q, h, k)
     \/ OnBlanks(node, at, q, h, k) \/ OnValue(node, at, q, h, k)
     \/ BehindValue(node, at, q, h, k)

(* In the body, or behind it.                                              *)
InBody(node, at, q, r, h, n) ==
  /\ LineRead(q, r) /\ HeadersRead(r, n, Count) /\ r.is_header_complete
  /\ at \in BodyAt .. Len(stream) + 1 /\ h = Saying("on_body", From(BodyAt, at))
  /\ \/ /\ node = "consume_content_length_1"
        /\ ~q.upgrade /\ Len(stream) + 1 - at <= q.content_length
     \/ node \in {"start", "closed"} /\ at = Len(stream) + 1

Reading(node, at, q, r, h, n) ==
  /\ q.error = "OK"
  /\ \/ InLine(node, at, q, r, h, n)
     \/ \E k \in 1 .. Count + 1 : InHeader(node, at, q, r, h, n, k)
     \/ InBody(node, at, q, r, h, n)

-----------------------------------------------------------------------------
(* The channel.                                                            *)

LineUnit ==
  [kind |-> "line", method |-> Wanted.method, url |-> Wanted.url,
   version |-> Wanted.version]
Sent(f, n) ==
  /\ Len(f) = n + 1 /\ f[1] = LineUnit
  /\ {f[i] : i \in 2 .. n + 1} = {Header(Overridden(Nth(j))) : j \in 1 .. n}

LoopInv ==
  /\ Reading(cur, p, parser, request, Heard, Taken)
  /\ ~executing => p = endp
  /\ IF line_sent THEN Sent(Forwarded, Taken) ELSE Forwarded = <<>>
  /\ phase \in {"write_headers", "head_end"} => request.headers = {}

(* The head is sent, and of what is behind it as much as was read.         *)
HeadSent(f) ==
  \E head \in Seq(Unit) :
    /\ Sent(head, Count) /\ BodyAt <= endp
    /\ f = Append(head, Crlf) \o Data(From(BodyAt, endp))

RequestInv ==
  stream \in DOMAIN Requests =>
    /\ parser.error = "OK"
    /\ phase \in Loop => LoopInv
    /\ phase \in {"flush_local", "flush_remote", "copy"} => HeadSent(Forwarded)

-----------------------------------------------------------------------------
(* The parts of the request, by their places.                              *)

(* A sequence lies in the stream from a on.                                *)
Lies(s, a) == \A i \in 1 .. Len(s) : stream[a - 1 + i] = s[i]

LEMMA LiesConcat ==
  ASSUME NEW S, NEW s \in Seq(S), NEW t \in Seq(S), NEW a \in Nat, Lies(s \o t, a)
  PROVE  Lies(s, a) /\ Lies(t, a + Len(s))
<1>1. /\ Len(s) \in Nat /\ Len(t) \in Nat /\ Len(s \o t) = Len(s) + Len(t)
      /\ \A i \in 1 .. Len(s) + Len(t) :
           (s \o t)[i] = IF i <= Len(s) THEN s[i] ELSE t[i - Len(s)]
  BY LenProperties, ConcatProperties
<1>2. Lies(s, a)
  BY <1>1 DEF Lies
<1>3. ASSUME NEW i \in 1 .. Len(t) PROVE stream[(a + Len(s)) - 1 + i] = t[i]
  <2>1. /\ Len(s) + i \in 1 .. Len(s) + Len(t) /\ ~(Len(s) + i <= Len(s))
        /\ (Len(s) + i) - Len(s) = i
        /\ a - 1 + (Len(s) + i) = (a + Len(s)) - 1 + i
    BY <1>1
  <2>2. stream[a - 1 + (Len(s) + i)] = (s \o t)[Len(s) + i]
    BY <1>1, <2>1 DEF Lies
  <2> QED
    BY <1>1, <2>1, <2>2
<1> QED
  BY <1>2, <1>3 DEF Lies

(* What lies there can be read, and has been when it is behind.            *)
LEMMA LiesRead ==
  ASSUME NEW S, NEW s \in Seq(S), NEW a \in Nat, 1 <= a, Lies(s, a),
         stream \in Seq(S), a - 1 + Len(s) <= Len(stream), NEW n \in 0 .. Len(s)
  PROVE  /\ From(a, a + n) = SubSeq(s, 1, n) /\ From(a, a + n) \in Seq(S)
         /\ n = Len(s) => From(a, a + n) = s
         /\ Len(From(a, a + n)) = n
<1>1. /\ Len(s) \in Nat /\ \A i \in 1 .. Len(s) : s[i] \in S
      /\ Len(stream) \in Nat /\ \A i \in 1 .. Len(stream) : stream[i] \in S
  BY LenProperties, ElementOfSeq
<1>2. (a + n) - 1 \in Int /\ (a + n) - 1 <= Len(stream)
  BY <1>1
<1> DEFINE m == (a + n) - 1
<1>3. /\ SubSeq(stream, a, m) \in Seq(S)
      /\ Len(SubSeq(stream, a, m)) = n
      /\ \A i \in 1 .. n : SubSeq(stream, a, m)[i] = stream[a + i - 1]
  <2>1. \A i \in a .. m : stream[i] \in S
    BY <1>1, <1>2
  <2>2. /\ SubSeq(stream, a, m) \in Seq(S)
        /\ Len(SubSeq(stream, a, m)) = IF a <= m THEN m - a + 1 ELSE 0
        /\ \A i \in 1 .. (m - a + 1) : SubSeq(stream, a, m)[i] = stream[a + i - 1]
    BY <1>2, <2>1, SubSeqProperties
  <2> QED
    BY <1>1, <2>2
<1>4. /\ SubSeq(s, 1, n) \in Seq(S)
      /\ Len(SubSeq(s, 1, n)) = n
      /\ \A i \in 1 .. n : SubSeq(s, 1, n)[i] = s[i]
  BY <1>1, SubSeqProperties
<1>5. \A i \in 1 .. n : stream[a + i - 1] = s[i]
  <2>1. \A i \in 1 .. n : i \in 1 .. Len(s) /\ a + i - 1 = a - 1 + i
    BY <1>1
  <2> QED
    BY <2>1 DEF Lies
<1>6. SubSeq(stream, a, m) = SubSeq(s, 1, n)
  BY <1>3, <1>4, <1>5, SeqEqual
<1>7. n = Len(s) => SubSeq(s, 1, n) = s
  BY SubSeqFull
<1> QED
  BY <1>3, <1>6, <1>7 DEF From

(* Its bytes, one by one.                                                  *)
LEMMA LiesByte ==
  ASSUME NEW s, NEW a \in Nat, Lies(s, a), NEW b \in Int, a <= b, b < a + Len(s),
         Len(s) \in Nat
  PROVE  b - a + 1 \in 1 .. Len(s) /\ stream[b] = s[b - a + 1]
<1>1. b - a + 1 \in 1 .. Len(s) /\ a - 1 + (b - a + 1) = b
  OBVIOUS
<1> QED
  BY <1>1 DEF Lies

(* The parts are sequences of bytes.                                       *)
LEMMA SpellTyped ==
  /\ TokenByte \subseteq Bytes /\ Printable \subseteq Bytes /\ Text \subseteq Bytes
  /\ TokenByte \subseteq Text /\ Printable \subseteq Text /\ Digit \subseteq Text
  /\ UrlServerByte \subseteq Printable
  /\ \A w \in HttpMethods \cap DOMAIN Spell : Spell[w] \in Seq(TokenByte) \ {<<>>}
  /\ Spell["HTTP/"] \in Seq(Printable) \ {<<>>} /\ Spell["HTTP/"] \in Seq(Bytes)
<1>1. /\ TokenByte \subseteq Bytes /\ Printable \subseteq Bytes /\ Text \subseteq Bytes
      /\ TokenByte \subseteq Text /\ Printable \subseteq Text /\ Digit \subseteq Text
      /\ UrlServerByte \subseteq Printable
  BY DEF TokenByte, Printable, Text, Bytes, Ascii, UrlServerByte
<1>2. \A w \in HttpMethods \cap DOMAIN Spell : Spell[w] \in Seq(TokenByte) \ {<<>>}
  BY SpellAssumption DEF SpellAssumption, Methods
<1>3. Spell["HTTP/"] \in Seq(Printable) \ {<<>>}
  BY SpellAssumption DEF SpellAssumption, Protocols
<1>4. Spell["HTTP/"] \in Seq(Bytes)
  BY <1>1, <1>3
<1> QED
  BY <1>1, <1>2, <1>3, <1>4

Described == stream \in DOMAIN Requests

LEMMA Parts ==
  ASSUME Described
  PROVE  /\ stream \in Seq(Bytes) /\ Len(stream) \in Nat
         /\ Wanted.method \in Seq(TokenByte) \ {<<>>} /\ Wanted.method \in Seq(Bytes)
         /\ Wanted.url \in Seq(Bytes) \ {<<>>}
         /\ Wanted.version \in Seq(Bytes) /\ Len(Wanted.version) = 3
         /\ Wanted.headers \in Seq([name : Seq(Bytes), value : Seq(Bytes)])
         /\ Count \in Nat /\ DOMAIN Wanted.headers = 1 .. Count
         /\ \A k \in 1 .. Count : Nth(k) \in [name : Seq(Bytes), value : Seq(Bytes)]
<1>1. WellFormed(stream, Wanted)
  BY RequestsAssumption DEF RequestsAssumption, Described, Wanted
<1>2. stream \in Seq(Bytes)
  BY HttpAssumption, Alphabet DEF HttpAssumption, Described
<1>3. Wanted.method \in Seq(TokenByte) \ {<<>>}
  <2>1. PICK m \in HttpMethods : m \in DOMAIN Spell /\ Wanted.method = Spell[m]
    BY <1>1 DEF WellFormed
  <2> QED
    BY <2>1, SpellTyped
<1>4. Wanted.method \in Seq(Bytes)
  BY <1>3, SpellTyped
<1>5. Wanted.url \in Seq(Bytes) \ {<<>>}
  BY <1>1 DEF WellFormed
<1>6. Wanted.version \in Seq(Bytes) /\ Len(Wanted.version) = 3
  <2>1. PICK a \in Digit, b \in Digit : Wanted.version = <<a, ".", b>>
    BY <1>1 DEF WellFormed
  <2>2. a \in Bytes /\ b \in Bytes /\ "." \in Bytes
    BY Alphabet DEF Bytes, Ascii, Printable, Punctuation
  <2> QED
    BY <2>1, <2>2
<1>7. Wanted.headers \in Seq([name : Seq(Bytes), value : Seq(Bytes)])
  BY <1>1 DEF WellFormed
<1>8. /\ Count \in Nat /\ DOMAIN Wanted.headers = 1 .. Count
      /\ \A k \in 1 .. Count : Nth(k) \in [name : Seq(Bytes), value : Seq(Bytes)]
  BY <1>7, LenProperties, ElementOfSeq DEF Count, Nth
<1> QED
  BY <1>2, <1>3, <1>4, <1>5, <1>6, <1>7, <1>8, LenProperties

LEMMA HeadersAreBytes ==
  ASSUME Described
  PROVE  /\ Headers \in Seq(Seq(Bytes)) /\ Len(Headers) = Count
         /\ \A k \in 1 .. Count : /\ Headers[k] = HeaderBytes(Nth(k))
                                  /\ HeaderBytes(Nth(k)) \in Seq(Bytes)
<1>1. {":", "SP", "CR", "LF"} \subseteq Bytes
  BY DEF Bytes, Ascii, Printable, Punctuation
<1>2. ASSUME NEW k \in 1 .. Count PROVE HeaderBytes(Nth(k)) \in Seq(Bytes)
  <2>1. Nth(k).name \in Seq(Bytes) /\ Nth(k).value \in Seq(Bytes)
    BY Parts
  <2>2. <<":", "SP">> \in Seq(Bytes) /\ <<"CR", "LF">> \in Seq(Bytes)
    BY <1>1
  <2> QED
    BY <2>1, <2>2, ConcatProperties DEF HeaderBytes
<1>3. Headers = [k \in 1 .. Count |-> HeaderBytes(Nth(k))]
  BY Parts DEF Headers, Nth
<1> DEFINE B(k) == HeaderBytes(Nth(k))
<1>4. /\ Count \in Nat /\ \A k \in 1 .. Count : B(k) \in Seq(Bytes)
      /\ Headers = [k \in 1 .. Count |-> B(k)]
  BY <1>2, <1>3, Parts
<1> HIDE DEF B
<1>5. /\ Headers \in Seq(Seq(Bytes)) /\ Len(Headers) = Count
      /\ \A k \in 1 .. Count : Headers[k] = B(k)
  BY <1>4
<1> QED
  BY <1>2, <1>5 DEF B

(* The whole of it.                                                        *)
LEMMA RenderedLies ==
  ASSUME Described
  PROVE  /\ Lies(Rendered(Wanted), 1) /\ Rendered(Wanted) \in Seq(Bytes)
         /\ Len(Rendered(Wanted)) <= Len(stream)
<1>1. WellFormed(stream, Wanted) /\ stream \in Seq(Bytes) /\ Len(stream) \in Nat
  BY Parts, RequestsAssumption DEF RequestsAssumption, Described, Wanted
<1> DEFINE s == Rendered(Wanted)
           n == Len(s)
<1>2. s \in Seq(Bytes)
  <2>1. <<"CR", "LF">> \in Seq(Bytes) /\ <<"SP">> \in Seq(Bytes)
    BY DEF Bytes, Ascii
  <2>2. FlattenSeq(Headers) \in Seq(Bytes)
    BY HeadersAreBytes, FlattenType
  <2>3. /\ Wanted.method \in Seq(Bytes) /\ Wanted.url \in Seq(Bytes)
        /\ Wanted.version \in Seq(Bytes) /\ Spell["HTTP/"] \in Seq(Bytes)
    BY Parts, SpellTyped
  <2> QED
    BY <2>1, <2>2, <2>3, ConcatProperties DEF Rendered, Headers
<1>3. SubSeq(stream, 1, n) = s /\ n \in Nat
  BY <1>1, <1>2, LenProperties DEF WellFormed
<1>4. n <= Len(stream)
  <2>1. CASE Len(stream) = n
    BY <2>1, <1>3
  <2>2. CASE \E i \in DOMAIN Wanted.headers :
               Len(stream) \in n .. n + Number(Wanted.headers[i].value)
    BY <1>1, <1>3, <2>2
  <2> QED
    BY <1>1, <2>1, <2>2 DEF WellFormed
<1> HIDE DEF s, n
<1>5. ASSUME NEW i \in 1 .. n PROVE stream[1 - 1 + i] = s[i]
  <2>1. 1 - 1 + i = i /\ i \in 1 .. Len(stream)
    BY <1>1, <1>3, <1>4
  <2>2. \A j \in 1 .. n : stream[j] \in Bytes
    BY <1>1, <1>3, <1>4, ElementOfSeq
  <2>3. SubSeq(stream, 1, n)[i] = stream[1 + i - 1]
    BY <1>3, <2>2, SubSeqProperties
  <2> QED
    BY <1>3, <2>1, <2>3
<1> QED
  BY <1>2, <1>4, <1>5 DEF Lies, s, n

LEMMA ConcatBytes ==
  ASSUME NEW s \in Seq(Bytes), NEW t \in Seq(Bytes)
  PROVE  s \o t \in Seq(Bytes) /\ Len(s \o t) = Len(s) + Len(t) /\ Len(s) \in Nat
  BY ConcatProperties, LenProperties

(* A byte, and an end of line, that lies somewhere.                        *)
LEMMA EndsLie ==
  ASSUME NEW n \in Nat
  PROVE  /\ Lies(<<"SP">>, n) => stream[n] = "SP"
         /\ Lies(<<":", "SP">>, n) => stream[n] = ":" /\ stream[n + 1] = "SP"
         /\ Lies(<<"CR", "LF">>, n) => stream[n] = "CR" /\ stream[n + 1] = "LF"
<1>1. n - 1 + 1 = n /\ n - 1 + 2 = n + 1 /\ 1 \in 1 .. 1 /\ 1 \in 1 .. 2 /\ 2 \in 1 .. 2
  OBVIOUS
<1>2. ASSUME Lies(<<"SP">>, n) PROVE stream[n] = "SP"
  <2>1. stream[n - 1 + 1] = <<"SP">>[1]
    BY <1>1, <1>2 DEF Lies
  <2> QED
    BY <1>1, <2>1
<1>3. ASSUME NEW b, NEW c, Lies(<<b, c>>, n) PROVE stream[n] = b /\ stream[n + 1] = c
  <2>1. stream[n - 1 + 1] = <<b, c>>[1] /\ stream[n - 1 + 2] = <<b, c>>[2]
    BY <1>1, <1>3 DEF Lies
  <2> QED
    BY <1>1, <2>1
<1> QED
  BY <1>2, <1>3

(* The request line, and the blank line behind the headers.                *)
LEMMA LineLaid ==
  ASSUME Described
  PROVE  /\ UrlAt \in Nat /\ UrlAt = Len(Wanted.method) + 2
         /\ ProtocolAt \in Nat /\ ProtocolAt = UrlAt + Len(Wanted.url) + 1
         /\ VersionAt \in Nat /\ VersionAt = ProtocolAt + Len(Spell["HTTP/"])
         /\ Lies(Wanted.method, 1) /\ stream[UrlAt - 1] = "SP"
         /\ Lies(Wanted.url, UrlAt) /\ stream[ProtocolAt - 1] = "SP"
         /\ Lies(Spell["HTTP/"], ProtocolAt) /\ Lies(Wanted.version, VersionAt)
         /\ stream[VersionAt + 3] = "CR" /\ stream[VersionAt + 4] = "LF"
         /\ Lies(FlattenSeq(Headers), VersionAt + 5)
         /\ HeaderAt(Count + 1) = VersionAt + 5 + Len(FlattenSeq(Headers))
         /\ HeaderAt(Count + 1) \in Nat /\ VersionAt + 5 <= HeaderAt(Count + 1)
         /\ stream[HeaderAt(Count + 1)] = "CR" /\ stream[HeaderAt(Count + 1) + 1] = "LF"
         /\ BodyAt = HeaderAt(Count + 1) + 2 /\ BodyAt = Len(Rendered(Wanted)) + 1
         /\ BodyAt <= Len(stream) + 1
<1> DEFINE a == Wanted.method
           b == Wanted.url
           c == Spell["HTTP/"]
           d == Wanted.version
           f == FlattenSeq(Headers)
           s == <<"SP">>
           e == <<"CR", "LF">>
           x1 == a \o s
           x2 == x1 \o b
           x3 == x2 \o s
           x4 == x3 \o c
           x5 == x4 \o d
           x6 == x5 \o e
           x7 == x6 \o f
           x8 == x7 \o e
<1>1. x8 = Rendered(Wanted)
  BY DEF Rendered, Headers
<1>2. /\ a \in Seq(Bytes) /\ b \in Seq(Bytes) /\ c \in Seq(Bytes) /\ d \in Seq(Bytes)
      /\ s \in Seq(Bytes) /\ e \in Seq(Bytes) /\ f \in Seq(Bytes)
  <2>1. s \in Seq(Bytes) /\ e \in Seq(Bytes)
    BY DEF Bytes, Ascii
  <2>2. f \in Seq(Bytes)
    BY HeadersAreBytes, FlattenType
  <2> QED
    BY <2>1, <2>2, Parts, SpellTyped
<1>3. /\ Len(a) \in Nat /\ Len(b) \in Nat /\ Len(c) \in Nat /\ Len(d) = 3 /\ Len(f) \in Nat
      /\ Len(s) = 1 /\ s[1] = "SP" /\ Len(e) = 2 /\ e[1] = "CR" /\ e[2] = "LF"
  BY <1>2, LenProperties, Parts
<1>4. Lies(x8, 1) /\ Len(x8) <= Len(stream)
  BY <1>1, RenderedLies
<1>5. HeaderAt(Count + 1) = VersionAt + 5 + Len(f)
  <2>1. (Count + 1) - 1 = Len(Headers)
    BY Parts, HeadersAreBytes
  <2>2. SubSeq(Headers, 1, (Count + 1) - 1) = Headers
    BY <2>1, HeadersAreBytes, SubSeqFull
  <2> QED
    BY <2>2 DEF HeaderAt
<1>6. /\ UrlAt = Len(a) + 2 /\ ProtocolAt = UrlAt + Len(b) + 1
      /\ VersionAt = ProtocolAt + Len(c) /\ BodyAt = HeaderAt(Count + 1) + 2
  BY DEF UrlAt, ProtocolAt, VersionAt, BodyAt
<1> HIDE DEF a, b, c, d, e, f, s, x1, x2, x3, x4, x5, x6, x7, x8
<1>7. /\ x1 \in Seq(Bytes) /\ x2 \in Seq(Bytes) /\ x3 \in Seq(Bytes) /\ x4 \in Seq(Bytes)
      /\ x5 \in Seq(Bytes) /\ x6 \in Seq(Bytes) /\ x7 \in Seq(Bytes)
      /\ Len(x1) = Len(a) + 1 /\ Len(x2) = Len(x1) + Len(b) /\ Len(x3) = Len(x2) + 1
      /\ Len(x4) = Len(x3) + Len(c) /\ Len(x5) = Len(x4) + 3 /\ Len(x6) = Len(x5) + 2
      /\ Len(x7) = Len(x6) + Len(f) /\ Len(x8) = Len(x7) + 2
  <2>1. x1 \in Seq(Bytes) /\ Len(x1) = Len(a) + 1
    <3>1. a \o s \in Seq(Bytes) /\ Len(a \o s) = Len(a) + Len(s)
      BY <1>2, ConcatBytes
    <3> QED
      BY <1>3, <3>1 DEF x1
  <2>2. x2 \in Seq(Bytes) /\ Len(x2) = Len(x1) + Len(b)
    BY <1>2, <1>3, <2>1, ConcatBytes DEF x2
  <2>3. x3 \in Seq(Bytes) /\ Len(x3) = Len(x2) + 1
    BY <1>2, <1>3, <2>2, ConcatBytes DEF x3
  <2>4. x4 \in Seq(Bytes) /\ Len(x4) = Len(x3) + Len(c)
    BY <1>2, <1>3, <2>3, ConcatBytes DEF x4
  <2>5. x5 \in Seq(Bytes) /\ Len(x5) = Len(x4) + 3
    BY <1>2, <1>3, <2>4, ConcatBytes DEF x5
  <2>6. x6 \in Seq(Bytes) /\ Len(x6) = Len(x5) + 2
    BY <1>2, <1>3, <2>5, ConcatBytes DEF x6
  <2>7. x7 \in Seq(Bytes) /\ Len(x7) = Len(x6) + Len(f)
    BY <1>2, <1>3, <2>6, ConcatBytes DEF x7
  <2>8. Len(x8) = Len(x7) + 2
    BY <1>2, <1>3, <2>7, ConcatBytes DEF x8
  <2> QED
    BY <2>1, <2>2, <2>3, <2>4, <2>5, <2>6, <2>7, <2>8
<1>77. /\ Len(x1) = Len(a) + 1 /\ Len(x2) = Len(x1) + Len(b) /\ Len(x3) = Len(x2) + 1
       /\ Len(x4) = Len(x3) + Len(c) /\ Len(x5) = Len(x4) + 3 /\ Len(x6) = Len(x5) + 2
       /\ Len(x7) = Len(x6) + Len(f) /\ Len(x8) = Len(x7) + 2
  BY <1>7
<1>8. Lies(x7, 1) /\ Lies(e, 1 + Len(x7))
  BY <1>2, <1>4, <1>7, LiesConcat DEF x8
<1>9. Lies(x6, 1) /\ Lies(f, 1 + Len(x6))
  BY <1>2, <1>7, <1>8, LiesConcat DEF x7
<1>10. Lies(x5, 1) /\ Lies(e, 1 + Len(x5))
  BY <1>2, <1>7, <1>9, LiesConcat DEF x6
<1>11. Lies(x4, 1) /\ Lies(d, 1 + Len(x4))
  BY <1>2, <1>7, <1>10, LiesConcat DEF x5
<1>12. Lies(x3, 1) /\ Lies(c, 1 + Len(x3))
  BY <1>2, <1>7, <1>11, LiesConcat DEF x4
<1>13. Lies(x2, 1) /\ Lies(s, 1 + Len(x2))
  BY <1>2, <1>7, <1>12, LiesConcat DEF x3
<1>14. Lies(x1, 1) /\ Lies(b, 1 + Len(x1))
  BY <1>2, <1>7, <1>13, LiesConcat DEF x2
<1>15. Lies(a, 1) /\ Lies(s, 1 + Len(a))
  BY <1>2, <1>7, <1>14, LiesConcat DEF x1
<1>16. /\ 1 + Len(a) = UrlAt - 1 /\ 1 + Len(x1) = UrlAt /\ 1 + Len(x2) = ProtocolAt - 1
       /\ 1 + Len(x3) = ProtocolAt /\ 1 + Len(x4) = VersionAt /\ 1 + Len(x5) = VersionAt + 3
       /\ 1 + Len(x6) = VersionAt + 5 /\ 1 + Len(x7) = HeaderAt(Count + 1)
       /\ Len(x8) + 1 = BodyAt
       /\ UrlAt \in Nat /\ ProtocolAt \in Nat /\ VersionAt \in Nat /\ HeaderAt(Count + 1) \in Nat
       /\ Len(x8) \in Nat /\ VersionAt + 5 <= HeaderAt(Count + 1)
  <2>1. UrlAt \in Nat /\ 1 + Len(a) = UrlAt - 1 /\ Len(x1) \in Nat /\ 1 + Len(x1) = UrlAt
    BY <1>3, <1>6, <1>77
  <2>2. /\ ProtocolAt \in Nat /\ Len(x2) \in Nat /\ 1 + Len(x2) = ProtocolAt - 1
        /\ Len(x3) \in Nat /\ 1 + Len(x3) = ProtocolAt
    BY <1>3, <1>6, <1>77, <2>1
  <2>3. VersionAt \in Nat /\ Len(x4) \in Nat /\ 1 + Len(x4) = VersionAt
    BY <1>3, <1>6, <1>77, <2>2
  <2>4. Len(x5) \in Nat /\ 1 + Len(x5) = VersionAt + 3 /\ Len(x6) \in Nat /\ 1 + Len(x6) = VersionAt + 5
    <3>1. Len(x5) = Len(x4) + 3 /\ Len(x6) = Len(x5) + 2
      BY <1>77
    <3> QED
      BY <2>3, <3>1
  <2>5. /\ Len(x7) \in Nat /\ 1 + Len(x7) = HeaderAt(Count + 1) /\ HeaderAt(Count + 1) \in Nat
        /\ VersionAt + 5 <= HeaderAt(Count + 1)
    <3>1. Len(x7) = Len(x6) + Len(f) /\ Len(f) \in Nat
      BY <1>3, <1>77
    <3> QED
      BY <1>5, <2>3, <2>4, <3>1
  <2>6. Len(x8) \in Nat /\ Len(x8) + 1 = BodyAt
    BY <1>6, <1>77, <2>5
  <2> QED
    BY <2>1, <2>2, <2>3, <2>4, <2>5, <2>6
<1>17. ASSUME NEW n \in Nat, Lies(s, n) PROVE stream[n] = "SP"
  BY <1>17, EndsLie DEF s
<1>18. ASSUME NEW n \in Nat, Lies(e, n) PROVE stream[n] = "CR" /\ stream[n + 1] = "LF"
  BY <1>18, EndsLie DEF e
<1>19. UrlAt - 1 \in Nat /\ ProtocolAt - 1 \in Nat /\ VersionAt + 3 \in Nat
       /\ (VersionAt + 3) + 1 = VersionAt + 4
  <2>1. UrlAt >= 2 /\ ProtocolAt >= UrlAt + 1
    <3>1. Len(a) \in Nat /\ Len(b) \in Nat
      BY <1>3
    <3> QED
      BY <1>6, <3>1
  <2> QED
    BY <1>16, <2>1
<1>20. /\ stream[UrlAt - 1] = "SP" /\ stream[ProtocolAt - 1] = "SP"
       /\ stream[VersionAt + 3] = "CR" /\ stream[VersionAt + 4] = "LF"
       /\ stream[HeaderAt(Count + 1)] = "CR" /\ stream[HeaderAt(Count + 1) + 1] = "LF"
  BY <1>8, <1>10, <1>13, <1>15, <1>16, <1>17, <1>18, <1>19
<1>21. BodyAt = Len(Rendered(Wanted)) + 1 /\ BodyAt <= Len(stream) + 1
  <2>1. Len(stream) \in Nat
    BY Parts
  <2> QED
    BY <1>1, <1>4, <1>16, <2>1
<1> QED
  BY <1>5, <1>6, <1>9, <1>11, <1>12, <1>14, <1>15, <1>16, <1>20, <1>21 DEF a, b, c, d, f

(* The headers, one behind the other.                                      *)
Cumulated(k) == FlattenSeq(SubSeq(Headers, 1, k))

LEMMA HeadersFlatten ==
  ASSUME Described, NEW k \in 1 .. Count
  PROVE  /\ Cumulated(k - 1) \in Seq(Bytes) /\ HeaderBytes(Nth(k)) \in Seq(Bytes)
         /\ Cumulated(k) = Cumulated(k - 1) \o HeaderBytes(Nth(k))
         /\ \E rest \in Seq(Bytes) : FlattenSeq(Headers) = Cumulated(k) \o rest
<1>1. /\ Headers \in Seq(Seq(Bytes)) /\ Len(Headers) = Count /\ Count \in Nat
      /\ Headers[k] = HeaderBytes(Nth(k)) /\ HeaderBytes(Nth(k)) \in Seq(Bytes)
  BY Parts, HeadersAreBytes
<1> DEFINE pre == SubSeq(Headers, 1, k - 1)
           upto == SubSeq(Headers, 1, k)
           post == SubSeq(Headers, k + 1, Len(Headers))
<1>2. /\ pre \in Seq(Seq(Bytes)) /\ upto \in Seq(Seq(Bytes)) /\ post \in Seq(Seq(Bytes))
      /\ upto \o post = Headers
  <2>1. k \in 0 .. Len(Headers) /\ k - 1 \in 0 .. Len(Headers)
    BY <1>1
  <2> QED
    BY <1>1, <2>1, CutAndJoined
<1>3. upto = Append(pre, Headers[k])
  <2>1. k \in 1 .. Len(Headers)
    BY <1>1
  <2>2. /\ Len(pre) = k - 1 /\ Len(upto) = k
        /\ \A i \in 1 .. k - 1 : pre[i] = Headers[i]
        /\ \A i \in 1 .. k : upto[i] = Headers[i]
    <3>1. k - 1 \in 0 .. Len(Headers) /\ k \in 0 .. Len(Headers)
      BY <1>1
    <3>2. \A i \in 1 .. Len(Headers) : Headers[i] \in Seq(Bytes)
      BY <1>1, ElementOfSeq
    <3> HIDE DEF pre, upto
    <3>3. ASSUME NEW n \in 0 .. Len(Headers)
          PROVE  /\ Len(SubSeq(Headers, 1, n)) = n
                 /\ \A i \in 1 .. n : SubSeq(Headers, 1, n)[i] = Headers[i]
      <4>1. \A i \in 1 .. n : Headers[i] \in Seq(Bytes)
        BY <3>2, <1>1
      <4>2. /\ Len(SubSeq(Headers, 1, n)) = IF 1 <= n THEN n - 1 + 1 ELSE 0
            /\ \A i \in 1 .. n - 1 + 1 : SubSeq(Headers, 1, n)[i] = Headers[1 + i - 1]
        BY <4>1, SubSeqProperties
      <4>3. n \in Nat
        BY <1>1
      <4> QED
        BY <4>2, <4>3
    <3> QED
      BY <3>1, <3>3 DEF pre, upto
  <2> HIDE DEF pre, upto
  <2>3. /\ Append(pre, Headers[k]) \in Seq(Seq(Bytes))
        /\ Len(Append(pre, Headers[k])) = k
        /\ Append(pre, Headers[k])[k] = Headers[k]
        /\ \A i \in 1 .. k - 1 : Append(pre, Headers[k])[i] = pre[i]
    <3>1. (k - 1) + 1 = k
      BY <1>1
    <3> QED
      BY <1>1, <1>2, <2>2, <3>1, AppendProperties
  <2>4. ASSUME NEW i \in 1 .. k PROVE upto[i] = Append(pre, Headers[k])[i]
    <3>1. i = k \/ i \in 1 .. k - 1
      BY <1>1
    <3> QED
      BY <2>2, <2>3, <3>1
  <2> QED
    BY <1>2, <2>2, <2>3, <2>4, SeqEqual
<1> HIDE DEF pre, upto, post
<1>4. FlattenSeq(upto) = FlattenSeq(pre) \o Headers[k]
  BY <1>1, <1>2, <1>3, FlattenAppend
<1>5. FlattenSeq(Headers) = FlattenSeq(upto) \o FlattenSeq(post)
  BY <1>2, FlattenConcat
<1>6. FlattenSeq(pre) \in Seq(Bytes) /\ FlattenSeq(post) \in Seq(Bytes)
  BY <1>2, FlattenType
<1> QED
  BY <1>1, <1>4, <1>5, <1>6 DEF Cumulated, pre, upto

(* How a header lies.                                                      *)
HeaderLies(k) ==
  /\ Lies(Nth(k).name, HeaderAt(k)) /\ Lies(Nth(k).value, ValueAt(k))
  /\ stream[ColonAt(k)] = ":" /\ stream[ColonAt(k) + 1] = "SP"
  /\ stream[ValueEnd(k)] = "CR" /\ stream[ValueEnd(k) + 1] = "LF"

LEMMA HeaderLaid ==
  ASSUME Described, NEW k \in 1 .. Count
  PROVE  /\ HeaderAt(k) \in Nat /\ 1 <= HeaderAt(k) /\ HeaderAt(k) <= HeaderAt(Count + 1)
         /\ ColonAt(k) \in Nat /\ ColonAt(k) = HeaderAt(k) + Len(Nth(k).name)
         /\ ValueAt(k) \in Nat /\ ValueAt(k) = ColonAt(k) + 2
         /\ ValueEnd(k) \in Nat /\ ValueEnd(k) = ValueAt(k) + Len(Nth(k).value)
         /\ HeaderAt(k + 1) = ValueEnd(k) + 2 /\ HeaderAt(k + 1) <= HeaderAt(Count + 1)
         /\ HeaderLies(k)
<1> DEFINE name == Nth(k).name
           value == Nth(k).value
           c == <<":", "SP">>
           e == <<"CR", "LF">>
           u == name \o c
           v == u \o value
           b == v \o e
           f == Cumulated(k - 1)
           g == Cumulated(k)
           h == VersionAt + 5
<1>1. /\ f \in Seq(Bytes) /\ b \in Seq(Bytes) /\ b = HeaderBytes(Nth(k)) /\ g = f \o b
  BY HeadersFlatten DEF HeaderBytes
<1>2. PICK rest \in Seq(Bytes) : FlattenSeq(Headers) = g \o rest
  BY HeadersFlatten
<1>3. name \in Seq(Bytes) /\ value \in Seq(Bytes) /\ c \in Seq(Bytes) /\ e \in Seq(Bytes)
  <2>1. c \in Seq(Bytes) /\ e \in Seq(Bytes)
    <3>1. {":", "SP", "CR", "LF"} \subseteq Bytes
      BY DEF Bytes, Ascii, Printable, Punctuation
    <3> QED
      BY <3>1
  <2> QED
    BY <2>1, Parts
<1>4. Len(c) = 2 /\ Len(e) = 2
  OBVIOUS
<1>5. HeaderAt(k) = h + Len(f) /\ HeaderAt(k + 1) = h + Len(g)
  <2>1. (k + 1) - 1 = k
    BY Parts
  <2> QED
    BY <2>1 DEF HeaderAt, Cumulated
<1>6. /\ HeaderAt(Count + 1) = h + Len(FlattenSeq(Headers)) /\ h \in Nat /\ 1 <= h
      /\ Lies(FlattenSeq(Headers), h)
  <2>1. VersionAt \in Nat
    BY LineLaid
  <2> QED
    BY <2>1, LineLaid
<1> HIDE DEF name, value, c, e, u, v, b, f, g, h
<1>7. Len(f) \in Nat /\ g \in Seq(Bytes) /\ Len(g) = Len(f) + Len(b)
  BY <1>1, ConcatBytes
<1>8. Len(rest) \in Nat /\ Len(FlattenSeq(Headers)) = Len(g) + Len(rest)
  <2>1. Len(g \o rest) = Len(g) + Len(rest)
    BY <1>7, ConcatBytes
  <2> QED
    BY <1>2, <2>1, LenProperties
<1>9. u \in Seq(Bytes) /\ Len(u) = Len(name) + 2 /\ Len(name) \in Nat
  <2>1. name \o c \in Seq(Bytes) /\ Len(name \o c) = Len(name) + Len(c)
    BY <1>3, ConcatBytes
  <2> QED
    BY <1>3, <1>4, <2>1, LenProperties DEF u
<1>10. v \in Seq(Bytes) /\ Len(v) = Len(u) + Len(value) /\ Len(value) \in Nat
  BY <1>3, <1>9, ConcatBytes, LenProperties DEF v
<1>11. Len(b) = Len(v) + 2
  <2>1. Len(v \o e) = Len(v) + Len(e)
    BY <1>3, <1>10, ConcatBytes
  <2> QED
    BY <1>4, <2>1 DEF b
<1>12. /\ HeaderAt(k) \in Nat /\ 1 <= HeaderAt(k)
       /\ HeaderAt(k) <= HeaderAt(k + 1) /\ HeaderAt(k + 1) <= HeaderAt(Count + 1)
       /\ HeaderAt(k) <= HeaderAt(Count + 1)
  <2>1. Len(b) \in Nat
    BY <1>1, LenProperties
  <2>2. HeaderAt(k) \in Nat /\ 1 <= HeaderAt(k) /\ HeaderAt(k) <= HeaderAt(k + 1)
    BY <1>5, <1>6, <1>7, <2>1
  <2>3. HeaderAt(k + 1) <= HeaderAt(Count + 1) /\ HeaderAt(k + 1) \in Nat
    BY <1>5, <1>6, <1>7, <1>8, <2>1
  <2>4. HeaderAt(Count + 1) \in Nat
    BY LineLaid
  <2> QED
    BY <2>2, <2>3, <2>4
<1>13. /\ ColonAt(k) = HeaderAt(k) + Len(name) /\ ValueAt(k) = ColonAt(k) + 2
       /\ ValueEnd(k) = ValueAt(k) + Len(value)
  BY DEF ColonAt, ValueAt, ValueEnd, name, value
<1>14. /\ ColonAt(k) \in Nat /\ ValueAt(k) \in Nat /\ ValueEnd(k) \in Nat
       /\ ValueAt(k) = HeaderAt(k) + Len(u) /\ ValueEnd(k) = HeaderAt(k) + Len(v)
  <2>1. ColonAt(k) \in Nat /\ ValueAt(k) \in Nat /\ ValueAt(k) = HeaderAt(k) + Len(u)
    BY <1>9, <1>12, <1>13
  <2>2. ValueEnd(k) \in Nat /\ ValueEnd(k) = HeaderAt(k) + Len(v)
    <3>1. Len(u) \in Nat /\ Len(value) \in Nat /\ Len(v) = Len(u) + Len(value)
      BY <1>9, <1>10
    <3>2. HeaderAt(k) \in Nat /\ ValueEnd(k) = ValueAt(k) + Len(value)
      BY <1>12, <1>13
    <3> QED
      BY <2>1, <3>1, <3>2
  <2> QED
    BY <2>1, <2>2
<1>15. HeaderAt(k + 1) = ValueEnd(k) + 2
  <2>1. HeaderAt(k + 1) = HeaderAt(k) + Len(b)
    <3>1. Len(b) \in Nat
      BY <1>1, LenProperties
    <3> QED
      BY <1>5, <1>6, <1>7, <3>1
  <2>2. Len(v) \in Nat
    BY <1>10, LenProperties
  <2> QED
    BY <1>11, <1>12, <1>14, <2>1, <2>2
<1>16. Lies(g, h)
  BY <1>2, <1>6, <1>7, LiesConcat
<1>17. Lies(b, HeaderAt(k))
  BY <1>1, <1>5, <1>6, <1>16, LiesConcat
<1>18. Lies(v, HeaderAt(k)) /\ Lies(e, ValueEnd(k))
  <2>1. Lies(v \o e, HeaderAt(k)) /\ HeaderAt(k) \in Nat /\ v \in Seq(Bytes) /\ e \in Seq(Bytes)
    BY <1>3, <1>10, <1>12, <1>17 DEF b
  <2>2. Lies(v, HeaderAt(k)) /\ Lies(e, HeaderAt(k) + Len(v))
    BY <2>1, LiesConcat
  <2> QED
    BY <1>14, <2>2
<1>19. Lies(u, HeaderAt(k)) /\ Lies(value, ValueAt(k))
  <2>1. /\ Lies(u \o value, HeaderAt(k)) /\ HeaderAt(k) \in Nat /\ u \in Seq(Bytes)
        /\ value \in Seq(Bytes)
    BY <1>3, <1>9, <1>12, <1>18 DEF v
  <2>2. Lies(u, HeaderAt(k)) /\ Lies(value, HeaderAt(k) + Len(u))
    BY <2>1, LiesConcat
  <2> QED
    BY <1>14, <2>2
<1>20. Lies(name, HeaderAt(k)) /\ Lies(c, ColonAt(k))
  BY <1>3, <1>12, <1>13, <1>19, LiesConcat DEF u
<1>21. HeaderLies(k)
  BY <1>14, <1>18, <1>19, <1>20, EndsLie DEF HeaderLies, name, value, c, e
<1> QED
  BY <1>12, <1>13, <1>14, <1>15, <1>21 DEF name, value

(* The first is behind the request line.                                   *)
LEMMA FirstHeader == Described => HeaderAt(1) = VersionAt + 5
<1> SUFFICES ASSUME Described PROVE HeaderAt(1) = VersionAt + 5
  OBVIOUS
<1>1. SubSeq(Headers, 1, 1 - 1) = <<>>
  BY SubSeqEmpty
<1>2. Len(FlattenSeq(SubSeq(Headers, 1, 1 - 1))) = 0
  <2>1. Len(FlattenSeq(<<>>)) = 0
    BY FlattenEmpty
  <2> QED
    BY <1>1, <2>1, Zenon
<1>3. VersionAt \in Nat
  BY LineLaid
<1> QED
  BY <1>2, <1>3 DEF HeaderAt

(* What they say is as a client says it.                                   *)
LEMMA HeadersAreOK ==
  ASSUME Described, NEW k \in 1 .. Count
  PROVE  /\ HeaderOK(Nth(k))
         /\ \A j \in 1 .. Count : LowerAll(Nth(j).name) = LowerAll(Nth(k).name) => j = k
<1>1. WellFormed(stream, Wanted)
  BY RequestsAssumption DEF RequestsAssumption, Described, Wanted
<1>2. DOMAIN Wanted.headers = 1 .. Count
  BY Parts
<1> QED
  BY <1>1, <1>2 DEF WellFormed, Nth

-----------------------------------------------------------------------------
(* What the callbacks have got, when a step goes on to `at` with q and r.  *)
HeardBy(q, r, at) ==
  [c \in Callbacks |->
     r.buf[c] \o (IF q.span.cb = c THEN From(q.span.from, at) ELSE <<>>)]

LEMMA HeardNow == executing => Heard = HeardBy(parser, request, p)
  BY DEF Heard, Open, HeardBy

(* Stretches of the stream, one behind the other.                          *)
LEMMA FromEmpty == \A a \in Int : From(a, a) = <<>>
  BY SubSeqEmpty DEF From

LEMMA FromJoins ==
  ASSUME stream \in Seq(Bytes), NEW a \in Nat, NEW b \in Nat, NEW c \in Nat,
         1 <= a, a <= b, b <= c, c <= Len(stream) + 1
  PROVE  /\ From(a, b) \in Seq(Bytes) /\ From(b, c) \in Seq(Bytes) /\ From(a, c) \in Seq(Bytes)
         /\ From(a, b) \o From(b, c) = From(a, c)
<1>1. Len(stream) \in Nat
  BY LenProperties
<1>2. /\ From(a, b) \in Seq(Bytes) /\ From(b, c) \in Seq(Bytes) /\ From(a, c) \in Seq(Bytes)
  <2>1. b - 1 \in Int /\ c - 1 \in Int /\ b - 1 <= Len(stream) /\ c - 1 <= Len(stream) /\ 1 <= b
    BY <1>1
  <2> QED
    BY <2>1, StretchTyped DEF From
<1>3. /\ a \in 1 .. Len(stream) + 1 /\ b - 1 \in a - 1 .. Len(stream) /\ c - 1 \in b - 1 .. Len(stream)
      /\ (b - 1) + 1 = b
  BY <1>1
<1>4. SubSeq(stream, a, b - 1) \o SubSeq(stream, (b - 1) + 1, c - 1) = SubSeq(stream, a, c - 1)
  BY <1>3, ConcatAdjacentSubSeq
<1> QED
  BY <1>2, <1>3, <1>4 DEF From

LEMMA FromMore ==
  ASSUME stream \in Seq(Bytes), NEW a \in Nat, NEW b \in Nat, 1 <= a, a <= b, b <= Len(stream)
  PROVE  /\ From(a, b) \in Seq(Bytes) /\ Len(From(a, b)) = b - a
         /\ From(a, b + 1) = Append(From(a, b), stream[b])
<1>1. (b + 1) - 1 = b /\ Len(stream) \in Nat
  BY LenProperties
<1>2. From(a, b) \in Seq(Bytes) /\ From(a, b + 1) = Append(From(a, b), stream[b])
  BY <1>1, StretchGrows DEF From
<1>3. Len(From(a, b)) = b - a
  <2>1. \A i \in 1 .. Len(stream) : stream[i] \in Bytes
    BY ElementOfSeq
  <2>2. b - 1 \in Int /\ \A i \in a .. b - 1 : stream[i] \in Bytes
    BY <1>1, <2>1
  <2>3. Len(SubSeq(stream, a, b - 1)) = IF a <= b - 1 THEN (b - 1) - a + 1 ELSE 0
    BY <2>2, SubSeqProperties
  <2> QED
    BY <2>3 DEF From
<1> QED
  BY <1>2, <1>3

-----------------------------------------------------------------------------
(* Steps, and what is heard by them.                                       *)

LEMMA HearSame ==
  ASSUME NEW q, NEW r, q.span = parser.span, r.buf = request.buf
  PROVE  \A at : HeardBy(q, r, at) = HeardBy(parser, request, at)
  BY DEF HeardBy

LEMMA HearNone ==
  ASSUME NEW q, NEW r, NEW v, q.span.cb = "none", v.buf = r.buf
  PROVE  \A a, b : HeardBy(q, r, a) = HeardBy(q, v, b)
<1>1. \A c \in Callbacks : q.span.cb # c
  BY DEF Callbacks
<1> QED
  BY <1>1 DEF HeardBy

(* No span is open, so the buffers are all there is.                       *)
LEMMA HearBuffers ==
  ASSUME Typed, NEW q, q.span.cb = "none", NEW at
  PROVE  HeardBy(q, request, at) = request.buf
<1>1. \A c \in Callbacks : q.span.cb # c
  BY DEF Callbacks
<1>2. request.buf \in [Callbacks -> Seq(Bytes)]
  BY DEF Typed, RequestOK, RequestType
<1>3. \A c \in Callbacks : request.buf[c] \o <<>> = request.buf[c]
  BY <1>2, ConcatEmptySeq
<1>4. HeardBy(q, request, at) = [c \in Callbacks |-> request.buf[c]]
  BY <1>1, <1>3 DEF HeardBy
<1> QED
  BY <1>2, <1>4

LEMMA HearBegin ==
  ASSUME Typed, parser.span.cb = "none", NEW at \in Int, NEW c \in Callbacks,
         NEW q, q.span = [cb |-> c, from |-> at], NEW r, r.buf = request.buf
  PROVE  \A b : HeardBy(q, r, at) = HeardBy(parser, request, b)
<1>1. request.buf \in [Callbacks -> Seq(Bytes)]
  BY DEF Typed, RequestOK, RequestType
<1>2. \A d \in Callbacks : request.buf[d] \o <<>> = request.buf[d]
  BY <1>1, ConcatEmptySeq
<1>3. HeardBy(q, r, at) = [d \in Callbacks |-> request.buf[d]]
  <2>1. From(q.span.from, at) = <<>>
    BY FromEmpty
  <2> QED
    BY <1>2, <2>1 DEF HeardBy
<1>4. \A b : HeardBy(parser, request, b) = request.buf
  BY HearBuffers
<1> QED
  BY <1>1, <1>3, <1>4

(* The bytes behind a stretch that has been heard are heard as well.       *)
LEMMA HearOn ==
  ASSUME Typed, NEW c \in Callbacks, parser.span.cb = c,
         NEW a \in Nat, 1 <= a, a <= p, HeardBy(parser, request, p)[c] = From(a, p),
         NEW at \in Nat, p <= at, at <= endp
  PROVE  HeardBy(parser, request, at) = [HeardBy(parser, request, p) EXCEPT ![c] = From(a, at)]
<1>1. /\ stream \in Seq(Bytes) /\ p \in Nat /\ 1 <= p /\ endp \in Nat
      /\ Len(stream) \in Nat /\ endp <= Len(stream) + 1
  BY Alphabet, LenProperties DEF Typed, Within
<1> DEFINE s == request.buf[c]
           f == parser.span.from
<1>2. s \in Seq(Bytes)
  BY DEF Typed, RequestOK, RequestType
<1>3. f \in Nat /\ 1 <= f /\ f <= p
  <2>1. parser.span # NoSpan
    BY DEF NoSpan, Callbacks
  <2> QED
    BY <1>1, <2>1 DEF Typed, FieldsOK
<1>4. s \o From(f, p) = From(a, p)
  BY DEF HeardBy
<1> HIDE DEF s, f
<1>5. /\ From(f, p) \in Seq(Bytes) /\ From(p, at) \in Seq(Bytes)
      /\ From(f, p) \o From(p, at) = From(f, at) /\ From(a, p) \o From(p, at) = From(a, at)
  <2>1. at <= Len(stream) + 1
    BY <1>1
  <2>2. \A m \in Nat : 1 <= m /\ m <= p =>
          /\ From(m, p) \in Seq(Bytes) /\ From(p, at) \in Seq(Bytes)
          /\ From(m, p) \o From(p, at) = From(m, at)
    BY <1>1, <2>1, FromJoins
  <2> QED
    BY <1>3, <2>2
<1>6. (s \o From(f, p)) \o From(p, at) = s \o (From(f, p) \o From(p, at))
  <2>1. \A x, y, z \in Seq(Bytes) : (x \o y) \o z = x \o (y \o z)
    <3>1. Associative(Bytes)
      BY Associates, Zenon
    <3> QED
      BY <3>1, Zenon DEF Associative
  <2> QED
    BY <1>2, <1>5, <2>1, Zenon
<1>7. s \o From(f, at) = From(a, at)
  BY <1>4, <1>5, <1>6
<1>8. ASSUME NEW d \in Callbacks
      PROVE  HeardBy(parser, request, at)[d]
               = [HeardBy(parser, request, p) EXCEPT ![c] = From(a, at)][d]
  <2>1. CASE d = c
    BY <1>7, <2>1 DEF HeardBy, s, f
  <2>2. CASE d # c
    BY <2>2 DEF HeardBy
  <2> QED
    BY <2>1, <2>2
<1> QED
  BY <1>8 DEF HeardBy

(* A span that ends is delivered.                                          *)
LEMMA HearEnd ==
  ASSUME Typed, parser.span.cb \in Callbacks, NEW at \in Int, at <= Len(stream) + 1,
         NEW q, q.span.cb = "none"
  PROVE  /\ Delivered(at).buf = HeardBy(parser, request, at)
         /\ \A b, r : r.buf = Delivered(at).buf =>
                        HeardBy(q, r, b) = HeardBy(parser, request, at)
<1>1. request.buf \in [Callbacks -> Seq(Bytes)]
  BY DEF Typed, RequestOK, RequestType
<1>2. request \in RequestType
  BY DEF Typed, RequestOK
<1> DEFINE c == parser.span.cb
           piece == From(parser.span.from, at)
<1>3. /\ Delivered(at).buf = [request.buf EXCEPT ![c] = @ \o piece]
  BY <1>2 DEF Delivered, From, RequestType
<1>4. parser.span.from \in Nat /\ 1 <= parser.span.from /\ stream \in Seq(Bytes)
  <2>1. parser.span # NoSpan
    BY DEF NoSpan, Callbacks
  <2> QED
    BY <2>1, Alphabet DEF Typed, FieldsOK, Within
<1>5. piece \in Seq(Bytes)
  <2>1. at - 1 \in Int /\ at - 1 <= Len(stream)
    BY <1>4, LenProperties
  <2> QED
    BY <1>4, <2>1, StretchTyped DEF From
<1> HIDE DEF piece
<1>6. \A d \in Callbacks : request.buf[d] \o <<>> = request.buf[d]
  BY <1>1, ConcatEmptySeq
<1>7. HeardBy(parser, request, at) = [request.buf EXCEPT ![c] = @ \o piece]
  <2>1. HeardBy(parser, request, at)
          = [d \in Callbacks |-> request.buf[d] \o (IF c = d THEN piece ELSE <<>>)]
    BY DEF HeardBy, piece
  <2> QED
    BY <1>1, <1>6, <2>1
<1>8. \A d \in Callbacks : q.span.cb # d
  BY DEF Callbacks
<1>9. ASSUME NEW b, NEW r, r.buf = Delivered(at).buf
      PROVE  HeardBy(q, r, b) = HeardBy(parser, request, at)
  <2> DEFINE v == [request.buf EXCEPT ![c] = @ \o piece]
  <2>1. r.buf = v /\ v \in [Callbacks -> Seq(Bytes)]
    <3>1. request.buf[c] \o piece \in Seq(Bytes)
      BY <1>1, <1>5, ConcatProperties
    <3> QED
      BY <1>1, <1>3, <1>9, <3>1
  <2> HIDE DEF v
  <2>2. \A d \in Callbacks : v[d] \o <<>> = v[d]
    BY <2>1, ConcatEmptySeq
  <2>3. HeardBy(q, r, b) = [d \in Callbacks |-> v[d]]
    BY <1>8, <2>1, <2>2 DEF HeardBy
  <2> QED
    BY <1>7, <2>1, <2>3 DEF v
<1> QED
  BY <1>3, <1>7, <1>9

-----------------------------------------------------------------------------
(* The places depend on the stream only.                                   *)
LEMMA SamePlaces ==
  ASSUME stream' = stream
  PROVE  /\ Wanted' = Wanted /\ Count' = Count /\ UrlAt' = UrlAt /\ ProtocolAt' = ProtocolAt
         /\ VersionAt' = VersionAt /\ BodyAt' = BodyAt
         /\ \A a, at : From(a, at)' = From(a, at)
         /\ \A k : Nth(k)' = Nth(k) /\ HeaderAt(k)' = HeaderAt(k)
         /\ \A k : /\ ColonAt(k)' = ColonAt(k) /\ ValueAt(k)' = ValueAt(k)
                   /\ ValueEnd(k)' = ValueEnd(k)
<1>1. Wanted' = Wanted
  BY DEF Wanted
<1>2. Count' = Count /\ UrlAt' = UrlAt /\ \A k : Nth(k)' = Nth(k)
  BY <1>1 DEF Count, UrlAt, Nth
<1>3. ProtocolAt' = ProtocolAt
  BY <1>1, <1>2 DEF ProtocolAt
<1>4. VersionAt' = VersionAt
  BY <1>3 DEF VersionAt
<1>5. Headers' = Headers
  BY <1>1 DEF Headers
<1>6. \A k : HeaderAt(k)' = HeaderAt(k)
  BY <1>4, <1>5 DEF HeaderAt
<1>7. BodyAt' = BodyAt
  BY <1>2, <1>6 DEF BodyAt
<1>8. \A k : ColonAt(k)' = ColonAt(k)
  BY <1>2, <1>6 DEF ColonAt
<1>9. \A k : ValueAt(k)' = ValueAt(k)
  BY <1>8 DEF ValueAt
<1>10. \A k : ValueEnd(k)' = ValueEnd(k)
  BY <1>2, <1>9 DEF ValueEnd
<1>11. \A a, at : From(a, at)' = From(a, at)
  BY DEF From
<1> QED
  BY <1>1, <1>2, <1>3, <1>4, <1>6, <1>7, <1>8, <1>9, <1>10, <1>11

LEMMA SameSayings ==
  /\ Silent' = Silent
  /\ \A c, s : Saying(c, s)' = Saying(c, s)
  /\ \A m, s : Valuing(m, s)' = Valuing(m, s)
  BY DEF Silent, Saying, Valuing

LEMMA SameLine ==
  ASSUME stream' = stream, NEW node, NEW at, NEW q, NEW r, NEW h, NEW n
  PROVE  InLine(node, at, q, r, h, n)' <=> InLine(node, at, q, r, h, n)
<1> USE SamePlaces, SameSayings
<1>1. /\ MethodRead(q, r)' <=> MethodRead(q, r)
  BY DEF MethodRead
<1>2. UrlRead(q, r)' <=> UrlRead(q, r)
  BY <1>1 DEF UrlRead
<1>3. LineRead(q, r)' <=> LineRead(q, r)
  BY <1>2 DEF LineRead
<1>4. OnStart(node, at, r, h)' <=> OnStart(node, at, r, h)
  BY DEF OnStart
<1>5. OnMethod(node, at, q, r, h)' <=> OnMethod(node, at, q, r, h)
  BY DEF OnMethod
<1>6. OnSpace(node, at, q, r, h)' <=> OnSpace(node, at, q, r, h)
  BY <1>1 DEF OnSpace
<1>7. \A i : UrlPlace(node, i)' <=> UrlPlace(node, i)
  <2>1. \A i : PathPlace(node, i)' <=> PathPlace(node, i)
    BY DEF PathPlace
  <2>2. \A i, a, b : ServerPlace(node, i, a, b)' <=> ServerPlace(node, i, a, b)
    BY DEF ServerPlace
  <2> QED
    BY <2>1, <2>2 DEF UrlPlace
<1>8. OnUrl(node, at, q, r, h)' <=> OnUrl(node, at, q, r, h)
  BY <1>1, <1>7 DEF OnUrl
<1>9. BehindUrl(node, at, q, r, h)' <=> BehindUrl(node, at, q, r, h)
  BY <1>1 DEF BehindUrl
<1>10. OnProtocol(node, at, q, r, h)' <=> OnProtocol(node, at, q, r, h)
  BY <1>2 DEF OnProtocol
<1>11. OnVersion(node, at, q, r, h)' <=> OnVersion(node, at, q, r, h)
  BY <1>2 DEF OnVersion
<1>12. OnLineEnd(node, at, q, r, h)' <=> OnLineEnd(node, at, q, r, h)
  BY <1>3 DEF OnLineEnd
<1>13. HeadersRead(r, n, 0)' <=> HeadersRead(r, n, 0)
  BY DEF HeadersRead
<1> QED
  BY <1>4, <1>5, <1>6, <1>8, <1>9, <1>10, <1>11, <1>12, <1>13 DEF InLine

LEMMA SameFields ==
  ASSUME stream' = stream, NEW q, NEW r, NEW n, NEW k
  PROVE  /\ LineRead(q, r)' <=> LineRead(q, r)
         /\ HeadersRead(r, n, k)' <=> HeadersRead(r, n, k)
         /\ Lengths(q, k)' <=> Lengths(q, k)
         /\ Labelled(q, k)' <=> Labelled(q, k)
  BY SamePlaces DEF LineRead, UrlRead, MethodRead, HeadersRead, Lengths, Labelled

LEMMA SameHeader ==
  ASSUME stream' = stream, NEW node, NEW at, NEW q, NEW r, NEW h, NEW n, NEW k
  PROVE  InHeader(node, at, q, r, h, n, k)' <=> InHeader(node, at, q, r, h, n, k)
<1> USE SamePlaces, SameSayings
<1>1. OnFieldStart(node, at, q, h, k)' <=> OnFieldStart(node, at, q, h, k)
  BY SameFields DEF OnFieldStart
<1>2. OnName(node, at, q, h, k)' <=> OnName(node, at, q, h, k)
  <2>1. NamePlace(node, at, q, k)' <=> NamePlace(node, at, q, k)
    BY DEF NamePlace
  <2> QED
    BY <2>1, SameFields DEF OnName
<1>3. OnBlanks(node, at, q, h, k)' <=> OnBlanks(node, at, q, h, k)
  BY SameFields DEF OnBlanks
<1>4. OnValue(node, at, q, h, k)' <=> OnValue(node, at, q, h, k)
  <2>1. ValuePlace(node, at, q, k)' <=> ValuePlace(node, at, q, k)
    BY SameFields DEF ValuePlace
  <2> QED
    BY <2>1, SameFields DEF OnValue
<1>5. BehindValue(node, at, q, h, k)' <=> BehindValue(node, at, q, h, k)
  BY SameFields DEF BehindValue
<1> QED
  BY <1>1, <1>2, <1>3, <1>4, <1>5, SameFields DEF InHeader

LEMMA SameReading ==
  ASSUME stream' = stream, NEW node, NEW at, NEW q, NEW r, NEW h, NEW n
  PROVE  Reading(node, at, q, r, h, n)' <=> Reading(node, at, q, r, h, n)
<1>1. InBody(node, at, q, r, h, n)' <=> InBody(node, at, q, r, h, n)
  BY SamePlaces, SameSayings, SameFields DEF InBody
<1>2. InLine(node, at, q, r, h, n)' <=> InLine(node, at, q, r, h, n)
  BY SameLine
<1>3. \A k : InHeader(node, at, q, r, h, n, k)' <=> InHeader(node, at, q, r, h, n, k)
  BY SameHeader
<1> QED
  BY <1>1, <1>2, <1>3, SamePlaces DEF Reading

(* A step of the parser, and where it leads.                               *)
Goes ==
  \E node, k, q, r : /\ Move(node, k, q, r)
                     /\ Reading(node, p + k, q, r, HeardBy(q, r, p + k), Taken)

LEMMA GoesOn ==
  ASSUME executing, Goes, UNCHANGED channelVars
  PROVE  Reading(cur, p, parser, request, Heard, Taken)'
<1>1. PICK node, k, q, r : /\ Move(node, k, q, r)
                           /\ Reading(node, p + k, q, r, HeardBy(q, r, p + k), Taken)
  BY DEF Goes
<1>2. /\ stream' = stream /\ executing' = executing /\ cur' = node /\ p' = p + k
      /\ parser' = q /\ request' = r
  BY <1>1 DEF Move
<1>3. Taken' = Taken
  BY DEF Taken, Forwarded, channelVars
<1>4. Heard' = HeardBy(q, r, p + k)
  <2>1. \A c : Open(c)' = IF q.span.cb = c THEN From(q.span.from, p + k) ELSE <<>>
    BY <1>2, SamePlaces DEF Open
  <2>2. Heard' = [c \in Callbacks |-> r.buf[c] \o Open(c)']
    BY <1>2 DEF Heard
  <2> QED
    BY <2>1, <2>2 DEF HeardBy
<1>5. Reading(cur', p', parser', request', Heard', Taken')
  BY <1>1, <1>2, <1>3, <1>4
<1> QED
  BY <1>2, <1>5, SameReading

-----------------------------------------------------------------------------
(* Kinds of bytes.                                                         *)
Controls == {"HT", "SP", "CR", "LF", "FF", "NUL"}

LEMMA ByteKinds ==
  /\ \A b \in Controls : b \notin Printable /\ b \notin TokenByte /\ LowerOf(b) = b
  /\ \A b \in Controls : b \notin Letter /\ b \notin Digit /\ b \notin UrlServerByte
                         /\ b \notin UrlPathByte /\ b \notin UrlQueryByte
  /\ \A b \in {"CR", "LF"} : b \notin Text
  /\ \A b \in Punctuation : b \notin Letter /\ LowerOf(b) = b /\ b \in Printable /\ b \in Text
  /\ ":" \notin TokenByte /\ "@" \notin UrlServerByte /\ "/" \notin UrlServerByte
  /\ "?" \notin UrlServerByte
  /\ Letter \subseteq Printable /\ UrlServerByte \subseteq Printable
<1>1. /\ \A b \in Controls : b \notin Letter /\ b \notin Punctuation /\ b \notin Digit
      /\ \A b \in Punctuation : b \notin Letter
  <2>1. \A b \in Controls : b \notin Digit /\ b \notin Punctuation
    <3>1. \A i \in 1 .. 10 :
            DigitOf[i] \in {"0", "1", "2", "3", "4", "5", "6", "7", "8", "9"}
      <4>1. \A i \in 1 .. 10 : \/ i = 1 \/ i = 2 \/ i = 3 \/ i = 4 \/ i = 5 \/ i = 6
                              \/ i = 7 \/ i = 8 \/ i = 9 \/ i = 10
        OBVIOUS
      <4> QED
        BY <4>1 DEF DigitOf
    <3>2. Digit \subseteq {"0", "1", "2", "3", "4", "5", "6", "7", "8", "9"}
      BY <3>1 DEF Digit
    <3> QED
      BY <3>2 DEF Controls, Punctuation
  <2> QED
    BY <2>1, SpellAssumption DEF SpellAssumption, Controls
<1>2. \A b \in Controls : b \notin Printable
  BY <1>1 DEF Printable
<1>3. \A b \in Controls : b \notin TokenByte /\ b \notin UrlServerByte /\ b \notin UrlPathByte
                          /\ b \notin UrlQueryByte
  BY <1>2 DEF TokenByte, UrlServerByte, UrlPathByte, UrlQueryByte
<1>4. \A b : b \notin Letter => LowerOf(b) = b
  BY DEF LowerOf
<1>5. \A b \in {"CR", "LF"} : b \notin Text
  <2>1. \A b \in {"CR", "LF"} : b \in Controls /\ b \notin Lead /\ b \notin Cont
    BY LlHttpAssumption DEF LlHttpAssumption, Ascii, Controls
  <2> QED
    BY <1>2, <2>1 DEF Text
<1>6. \A b \in Punctuation : b \in Printable /\ b \in Text
  BY DEF Printable, Text
<1>7. ":" \notin TokenByte /\ "@" \notin UrlServerByte /\ "/" \notin UrlServerByte
      /\ "?" \notin UrlServerByte
  BY DEF TokenByte, UrlServerByte
<1>8. Letter \subseteq Printable /\ UrlServerByte \subseteq Printable
  BY DEF Printable, UrlServerByte
<1> QED
  BY <1>1, <1>2, <1>3, <1>4, <1>5, <1>6, <1>7, <1>8

(* What the callbacks say.                                                 *)
LEMMA Sayings ==
  /\ \A c \in Callbacks : Silent[c] = <<>> /\ Saying(c, <<>>) = Silent
  /\ \A c \in Callbacks : \A s : Saying(c, s)[c] = s
  /\ \A c \in Callbacks : \A s, t : [Saying(c, s) EXCEPT ![c] = t] = Saying(c, t)
  /\ \A s, t : Valuing(s, t)["on_header_field"] = s /\ Valuing(s, t)["on_header_value"] = t
  /\ \A s, t, u : [Valuing(s, t) EXCEPT !["on_header_value"] = u] = Valuing(s, u)
  /\ \A s : Valuing(s, <<>>) = Saying("on_header_field", s)
  /\ \A s, t : [[Valuing(s, t) EXCEPT !["on_header_field"] = <<>>]
                  EXCEPT !["on_header_value"] = <<>>] = Silent
  /\ \A s : Saying("on_header_field", s)["on_header_value"] = <<>>
<1> USE DEF Silent, Saying, Valuing
<1>1. "on_header_field" \in Callbacks /\ "on_header_value" \in Callbacks
  BY DEF Callbacks
<1>2. \A c \in Callbacks : Silent[c] = <<>> /\ Saying(c, <<>>) = Silent
  OBVIOUS
<1>3. \A c \in Callbacks : \A s : Saying(c, s)[c] = s
  OBVIOUS
<1>4. \A c \in Callbacks : \A s, t : [Saying(c, s) EXCEPT ![c] = t] = Saying(c, t)
  OBVIOUS
<1>5. \A s, t : Valuing(s, t)["on_header_field"] = s /\ Valuing(s, t)["on_header_value"] = t
  BY <1>1
<1>6. \A s, t, u : [Valuing(s, t) EXCEPT !["on_header_value"] = u] = Valuing(s, u)
  BY <1>1
<1>7. \A s : Valuing(s, <<>>) = Saying("on_header_field", s)
  BY <1>1
<1>8. \A s, t : [[Valuing(s, t) EXCEPT !["on_header_field"] = <<>>]
                   EXCEPT !["on_header_value"] = <<>>] = Silent
  BY <1>1
<1>9. \A s : Saying("on_header_field", s)["on_header_value"] = <<>>
  BY <1>1
<1> QED
  BY <1>2, <1>3, <1>4, <1>5, <1>6, <1>7, <1>8, <1>9

-----------------------------------------------------------------------------
(* Which places a state has.                                               *)
SpaceNodes == {"req_first_space_before_url", "req_spaces_before_url", "url_entry_normal"}
BehindUrlNodes == {"url_skip_to_http", "url_to_http"}
LineEndNodes   == {"req_http_complete", "req_http_complete_crlf", "headers_start"}
BlankNodes ==
  {"header_value_discard_ws", "header_value_discard_ws_almost_done",
   "header_value_discard_lws"}
PlainValueNodes ==
  {"header_value", "header_value_content_length", "header_value_content_length_ws",
   "header_value_otherwise"} \cup OptionNodes
BehindNodes == {"header_value_almost_done", "header_value_lws"}

LEMMA PlacesOfNodes ==
  ASSUME NEW node, NEW at, NEW q, NEW r, NEW h, NEW k
  PROVE  /\ OnStart(node, at, r, h) => node = "start"
         /\ OnMethod(node, at, q, r, h) => node = "after_start_req"
         /\ OnSpace(node, at, q, r, h) => node \in SpaceNodes
         /\ OnUrl(node, at, q, r, h) => node \in UrlNodes
         /\ BehindUrl(node, at, q, r, h) => node \in BehindUrlNodes
         /\ OnProtocol(node, at, q, r, h) => node = "req_http_start"
         /\ OnVersion(node, at, q, r, h) => node \in VersionNodes
         /\ OnLineEnd(node, at, q, r, h) => node \in LineEndNodes
         /\ OnFieldStart(node, at, q, h, k) => node \in {"header_field_start", "headers_almost_done"}
         /\ OnName(node, at, q, h, k) => node \in FieldNodes
         /\ OnBlanks(node, at, q, h, k) => node \in BlankNodes
         /\ OnValue(node, at, q, h, k) => node \in PlainValueNodes
         /\ BehindValue(node, at, q, h, k) => node \in BehindNodes
<1>1. \A i : UrlPlace(node, i) => node \in UrlNodes
  BY DEF UrlPlace, PathPlace, ServerPlace, UrlNodes
<1>2. OnUrl(node, at, q, r, h) => node \in UrlNodes
  BY <1>1 DEF OnUrl
<1>3. /\ OnStart(node, at, r, h) => node = "start"
      /\ OnMethod(node, at, q, r, h) => node = "after_start_req"
      /\ OnSpace(node, at, q, r, h) => node \in SpaceNodes
      /\ BehindUrl(node, at, q, r, h) => node \in BehindUrlNodes
      /\ OnProtocol(node, at, q, r, h) => node = "req_http_start"
      /\ OnVersion(node, at, q, r, h) => node \in VersionNodes
      /\ OnLineEnd(node, at, q, r, h) => node \in LineEndNodes
  BY DEF OnStart, OnMethod, OnSpace, BehindUrl, OnProtocol, OnVersion, OnLineEnd, SpaceNodes,
         BehindUrlNodes, VersionNodes, LineEndNodes
<1>4. OnName(node, at, q, h, k) => node \in FieldNodes
  BY DEF OnName, NamePlace, FieldNodes
<1>5. OnValue(node, at, q, h, k) => node \in PlainValueNodes
  BY DEF OnValue, ValuePlace, PlainValueNodes
<1>6. /\ OnFieldStart(node, at, q, h, k) => node \in {"header_field_start", "headers_almost_done"}
      /\ OnBlanks(node, at, q, h, k) => node \in BlankNodes
      /\ BehindValue(node, at, q, h, k) => node \in BehindNodes
  BY DEF OnFieldStart, OnBlanks, BehindValue, BlankNodes, BehindNodes
<1> QED
  BY <1>2, <1>3, <1>4, <1>5, <1>6

BodyPlaces == {"consume_content_length_1", "start", "closed"}

(* A step of the parser is to be taken at `node`.                          *)
Ready(node) ==
  /\ Described /\ Typed /\ ParserInv /\ CountInv /\ At(node)
  /\ Reading(node, p, parser, request, HeardBy(parser, request, p), Taken)

LineKept(q, r) ==
  /\ q.error = "OK" /\ q.flags = {}
  /\ HeadersRead(r, Taken, 0) /\ ~r.is_header_complete

(* Which of the places the parser is at, by its state.                     *)
LEMMA Placed ==
  ASSUME NEW a, Ready(a)
  PROVE  LET h == HeardBy(parser, request, p)
         IN  /\ \/ /\ LineKept(parser, request)
                   /\ \/ a = "start" /\ OnStart(a, p, request, h)
                      \/ a = "after_start_req" /\ OnMethod(a, p, parser, request, h)
                      \/ a \in SpaceNodes /\ OnSpace(a, p, parser, request, h)
                      \/ a \in UrlNodes /\ OnUrl(a, p, parser, request, h)
                      \/ a \in BehindUrlNodes /\ BehindUrl(a, p, parser, request, h)
                      \/ a = "req_http_start" /\ OnProtocol(a, p, parser, request, h)
                      \/ a \in VersionNodes /\ OnVersion(a, p, parser, request, h)
                      \/ a \in LineEndNodes /\ OnLineEnd(a, p, parser, request, h)
                \/ \E k \in 1 .. Count + 1 :
                     /\ InHeader(a, p, parser, request, h, Taken, k)
                     /\ \/ /\ a \in {"header_field_start", "headers_almost_done"}
                           /\ OnFieldStart(a, p, parser, h, k)
                        \/ a \in FieldNodes /\ OnName(a, p, parser, h, k)
                        \/ a \in BlankNodes /\ OnBlanks(a, p, parser, h, k)
                        \/ a \in PlainValueNodes /\ OnValue(a, p, parser, h, k)
                        \/ a \in BehindNodes /\ BehindValue(a, p, parser, h, k)
                \/ /\ a = "consume_content_length_1"
                   /\ InBody(a, p, parser, request, h, Taken)
<1> DEFINE h == HeardBy(parser, request, p)
<1> HIDE DEF h
<1>1. Reading(a, p, parser, request, h, Taken)
  BY DEF Ready, h
<1>2. CASE InLine(a, p, parser, request, h, Taken)
  BY <1>1, <1>2, PlacesOfNodes DEF Reading, InLine, LineKept, h
<1>3. CASE \E k \in 1 .. Count + 1 : InHeader(a, p, parser, request, h, Taken, k)
  BY <1>3, PlacesOfNodes DEF InHeader, h
<1>4. CASE InBody(a, p, parser, request, h, Taken)
  <2>1. p + 1 <= Len(stream) + 1 /\ p \in Nat /\ Len(stream) \in Nat
    BY Here DEF Ready
  <2> QED
    BY <1>4, <2>1 DEF InBody, h
<1> QED
  BY <1>1, <1>2, <1>3, <1>4 DEF Reading

(* On in the line.                                                         *)
LineOn(node, at, q, r, h) ==
  \/ OnStart(node, at, r, h) \/ OnMethod(node, at, q, r, h)
  \/ OnSpace(node, at, q, r, h) \/ OnUrl(node, at, q, r, h)
  \/ BehindUrl(node, at, q, r, h) \/ OnProtocol(node, at, q, r, h)
  \/ OnVersion(node, at, q, r, h) \/ OnLineEnd(node, at, q, r, h)

LEMMA LineGoes ==
  ASSUME NEW node, NEW k, NEW q, NEW r, Move(node, k, q, r), LineKept(q, r),
         LineOn(node, p + k, q, r, HeardBy(q, r, p + k))
  PROVE  Goes
<1>1. InLine(node, p + k, q, r, HeardBy(q, r, p + k), Taken) /\ q.error = "OK"
  BY DEF LineKept, LineOn, InLine
<1> QED
  BY <1>1 DEF Goes, Reading

-----------------------------------------------------------------------------
(* Words, and their bytes.                                                 *)

LEMMA PrefixIs ==
  ASSUME NEW S, NEW s \in Seq(S), NEW n \in 0 .. Len(s)
  PROVE  /\ Len(SubSeq(s, 1, n)) = n
         /\ n < Len(s) => IsStrictPrefix(SubSeq(s, 1, n), s)
<1>1. /\ Len(s) \in Nat /\ n \in Nat /\ \A i \in 1 .. n : s[i] \in S
  BY LenProperties, ElementOfSeq
<1> DEFINE t == SubSeq(s, 1, n)
<1>2. t \in Seq(S) /\ Len(t) = n
  BY <1>1, SubSeqProperties
<1>3. SubSeq(t, 1, Len(t)) = t
  BY <1>2, SubSeqFull
<1>4. ASSUME n < Len(s) PROVE IsStrictPrefix(t, s)
  <2>1. IsPrefix(t, s)
    BY <1>1, <1>2, <1>3 DEF IsPrefix
  <2>2. t # s
    BY <1>1, <1>2, <1>4
  <2> QED
    BY <2>1, <2>2 DEF IsStrictPrefix
<1> QED
  BY <1>2, <1>4

LEMMA WordByte ==
  ASSUME NEW S, NEW T, NEW x \in Seq(T), NEW b, NEW v \in Seq(S),
         IsPrefix(Append(x, b), v) \/ IsStrictPrefix(Append(x, b), v) \/ v = Append(x, b)
  PROVE  b \in S
<1> DEFINE t == Append(x, b)
           n == Len(x) + 1
<1>1. Len(x) \in Nat /\ Len(t) = n /\ t[n] = b /\ DOMAIN t = 1 .. n
  BY LenProperties
<1> HIDE DEF t
<1>2. CASE v = t
  <2>1. n \in 1 .. Len(v) /\ v[n] = b
    BY <1>1, <1>2
  <2> QED
    BY <2>1, ElementOfSeq
<1>3. CASE IsPrefix(t, v)
  <2>1. Len(t) <= Len(v) /\ Len(v) \in Nat /\ SubSeq(t, 1, Len(t)) = SubSeq(v, 1, Len(t))
    BY <1>3, LenProperties DEF IsPrefix
  <2>2. n \in 1 .. Len(v) /\ v[n] \in S
    BY <1>1, <2>1, ElementOfSeq
  <2>3. SubSeq(t, 1, n)[n] = t[n] /\ SubSeq(v, 1, n)[n] = v[n]
    BY <1>1, <2>1, <2>2
  <2> QED
    BY <1>1, <2>1, <2>2, <2>3
<1> QED
  BY <1>2, <1>3 DEF t, IsStrictPrefix

LEMMA NonEmpty ==
  ASSUME NEW S, NEW s \in Seq(S), s # <<>>
  PROVE  Len(s) \in Nat /\ 1 <= Len(s)
<1>1. Len(s) \in Nat /\ Len(s) # 0
  BY LenProperties, EmptySeq
<1> QED
  BY <1>1

(* A byte within a part of the request.                                    *)
LEMMA PartByte ==
  ASSUME NEW S, NEW s \in Seq(S), NEW a \in Nat, Lies(s, a), NEW b \in Int,
         a <= b, b < a + Len(s)
  PROVE  stream[b] \in S /\ stream[b] = s[b - a + 1] /\ b - a + 1 \in 1 .. Len(s)
<1>1. Len(s) \in Nat
  BY LenProperties
<1>2. b - a + 1 \in 1 .. Len(s) /\ stream[b] = s[b - a + 1]
  BY <1>1, LiesByte
<1> QED
  BY <1>2, ElementOfSeq

(* The line is within the stream.                                          *)
LEMMA LineWithin ==
  ASSUME Described
  PROVE  /\ Len(stream) \in Nat /\ 2 <= UrlAt /\ UrlAt < ProtocolAt /\ ProtocolAt < VersionAt
         /\ VersionAt + 5 <= HeaderAt(Count + 1) /\ BodyAt <= Len(stream) + 1
         /\ UrlAt <= Len(stream) /\ ProtocolAt <= Len(stream) /\ VersionAt + 4 <= Len(stream)
<1>1. Len(Wanted.method) \in Nat /\ 1 <= Len(Wanted.url) /\ Len(Wanted.url) \in Nat
  BY Parts, NonEmpty, LenProperties
<1>2. Len(Spell["HTTP/"]) \in Nat /\ 1 <= Len(Spell["HTTP/"])
  BY SpellTyped, NonEmpty
<1>3. /\ UrlAt \in Nat /\ ProtocolAt \in Nat /\ VersionAt \in Nat
      /\ UrlAt = Len(Wanted.method) + 2 /\ ProtocolAt = UrlAt + Len(Wanted.url) + 1
      /\ VersionAt = ProtocolAt + Len(Spell["HTTP/"])
  BY LineLaid
<1>4. /\ HeaderAt(Count + 1) \in Nat /\ VersionAt + 5 <= HeaderAt(Count + 1)
      /\ BodyAt = HeaderAt(Count + 1) + 2 /\ BodyAt <= Len(stream) + 1
  BY LineLaid
<1>5. Len(stream) \in Nat
  BY Parts
<1>6. 2 <= UrlAt
  <2>1. Len(Wanted.method) \in Nat /\ UrlAt = Len(Wanted.method) + 2
    BY <1>1, <1>3
  <2> QED
    BY <2>1
<1>7. UrlAt < ProtocolAt
  <2>1. /\ Len(Wanted.url) \in Nat /\ ProtocolAt = UrlAt + Len(Wanted.url) + 1
        /\ UrlAt \in Nat
    BY <1>1, <1>3
  <2> QED
    BY <2>1
<1>8. ProtocolAt < VersionAt
  <2>1. ProtocolAt \in Nat /\ VersionAt = ProtocolAt + Len(Spell["HTTP/"])
    BY <1>3
  <2> QED
    BY <1>2, <2>1
<1>9. UrlAt \in Nat /\ ProtocolAt \in Nat /\ VersionAt \in Nat
  BY <1>3
<1>10. VersionAt + 5 <= Len(stream)
  BY <1>4, <1>5, <1>9
<1> QED
  BY <1>4, <1>5, <1>6, <1>7, <1>8, <1>9, <1>10

-----------------------------------------------------------------------------
(* What an update of the fields keeps.                                     *)
LEMMA KeptOn ==
  ASSUME LineKept(parser, request), NEW q, q.error = parser.error, q.flags = parser.flags,
         NEW r, r.headers = request.headers, r.is_header_complete = request.is_header_complete
  PROVE  LineKept(q, r)
  BY DEF LineKept, HeadersRead

LEMMA Buffers ==
  /\ Silent \in [Callbacks -> Seq(Bytes)]
  /\ \A q, v, at : q.span.cb = "none" /\ v.buf \in [Callbacks -> Seq(Bytes)]
                     => HeardBy(q, v, at) = v.buf
<1>1. Silent \in [Callbacks -> Seq(Bytes)]
  <2>1. <<>> \in Seq(Bytes)
    BY EmptySeq
  <2> QED
    BY <2>1 DEF Silent
<1>2. ASSUME NEW q, NEW v, NEW at, q.span.cb = "none", v.buf \in [Callbacks -> Seq(Bytes)]
      PROVE  HeardBy(q, v, at) = v.buf
  <2>1. \A c \in Callbacks : q.span.cb # c
    BY <1>2 DEF Callbacks
  <2>2. \A c \in Callbacks : v.buf[c] \o <<>> = v.buf[c]
    BY <1>2, ConcatEmptySeq
  <2>3. HeardBy(q, v, at) = [c \in Callbacks |-> v.buf[c]]
    BY <2>1, <2>2 DEF HeardBy
  <2> QED
    BY <1>2, <2>3
<1> QED
  BY <1>1, <1>2

(* What is there where a step is taken.                                    *)
LEMMA ReadyHere ==
  ASSUME NEW a, Ready(a)
  PROVE  /\ Described /\ Typed /\ ParserInv /\ At(a)
         /\ p \in Nat /\ 1 <= p /\ endp \in Nat /\ p + 1 <= endp
         /\ Len(stream) \in Nat /\ endp <= Len(stream) + 1 /\ stream \in Seq(Bytes)
         /\ Byte \in Bytes /\ Byte = stream[p] /\ p + 0 = p
         /\ parser \in ParserType /\ request \in RequestType
         /\ parser.error = "OK" /\ parser.span.cb = SpanOf(a)
  BY Here DEF Ready, At, Byte, FieldsOK, RequestOK, ParserInv, Good, Fits

(* A step that changes no field but these, nor the span.                   *)
SameSpan(q, r) ==
  /\ q.span = parser.span /\ q.error = parser.error /\ q.flags = parser.flags
  /\ q.method = parser.method
  /\ r.buf = request.buf /\ r.headers = request.headers
  /\ r.is_header_complete = request.is_header_complete

LEMMA MatchedSame ==
  ASSUME Typed
  PROVE  /\ SameSpan(parser, request)
         /\ \A s : SameSpan(Matched(s), request) /\ Matched(s).matched = s
         /\ \A s : Matched(s).header_state = parser.header_state
                   /\ Matched(s).content_length = parser.content_length
<1>1. parser \in ParserType
  BY DEF Typed, FieldsOK
<1> QED
  BY <1>1 DEF SameSpan, Matched, ParserType

(* The next byte, behind what was heard.                                   *)
LEMMA HearByte ==
  ASSUME NEW a, Ready(a), NEW c \in Callbacks, SpanOf(a) = c,
         NEW m \in Nat, 1 <= m, m <= p,
         HeardBy(parser, request, p)[c] = From(m, p),
         NEW q, NEW r, SameSpan(q, r)
  PROVE  HeardBy(q, r, p + 1) = [HeardBy(parser, request, p) EXCEPT ![c] = From(m, p + 1)]
<1>1. HeardBy(parser, request, p + 1) = [HeardBy(parser, request, p) EXCEPT ![c] = From(m, p + 1)]
  <2>1. p + 1 \in Nat /\ p <= p + 1 /\ p + 1 <= endp /\ Typed /\ parser.span.cb = c
    BY ReadyHere
  <2> QED
    BY <2>1, HearOn
<1> QED
  BY <1>1, HearSame DEF SameSpan

-----------------------------------------------------------------------------
(* The method.                                                             *)
LEMMA TheMethod ==
  ASSUME Described
  PROVE  \E m \in HttpMethods \ {"CONNECT"} :
           /\ m \in Methods \cap DOMAIN Spell /\ Wanted.method = Spell[m]
           /\ \A w \in Methods \cap DOMAIN Spell : Spell[w] = Wanted.method => w = m
<1>1. PICK m \in HttpMethods \ {"CONNECT"} : m \in DOMAIN Spell /\ Wanted.method = Spell[m]
  BY RequestsAssumption DEF RequestsAssumption, Described, Wanted, WellFormed
<1>2. m \in Methods
  BY DEF Methods
<1> QED
  BY <1>1, <1>2, SpellAssumption DEF SpellAssumption

LEMMA StartGoes ==
  ASSUME Ready("start"), Start PROVE Goes
<1> DEFINE h == HeardBy(parser, request, p)
           q == [Spanned("on_method", p) EXCEPT !.matched = <<>>]
<1>1. LineKept(parser, request) /\ OnStart("start", p, request, h)
  <2>1. "start" \notin SpaceNodes \cup UrlNodes \cup BehindUrlNodes \cup VersionNodes
                  \cup LineEndNodes \cup FieldNodes \cup BlankNodes \cup PlainValueNodes
                  \cup BehindNodes
    BY DEF SpaceNodes, UrlNodes, BehindUrlNodes, VersionNodes, LineEndNodes, FieldNodes,
           BlankNodes, PlainValueNodes, OptionNodes, BehindNodes
  <2> QED
    BY <2>1, Placed
<1>2. p = 1 /\ request.version = {} /\ h = Silent
  BY <1>1 DEF OnStart
<1>3. Byte \in TokenByte
  <2>1. Wanted.method \in Seq(TokenByte) /\ Len(Wanted.method) >= 1 /\ Lies(Wanted.method, 1)
    <3>1. Described
      BY ReadyHere
    <3>2. Wanted.method \in Seq(TokenByte) /\ Wanted.method # <<>> /\ Lies(Wanted.method, 1)
      BY <3>1, LineLaid, Parts
    <3> QED
      BY <3>2, NonEmpty
  <2>2. 1 <= p /\ p < 1 + Len(Wanted.method) /\ 1 \in Nat /\ p \in Int
    BY <1>2, <2>1, LenProperties
  <2> QED
    BY <2>1, <2>2, PartByte, ReadyHere
<1>4. Byte \notin {"CR", "LF"}
  BY <1>3, ByteKinds DEF Controls
<1>5. Move("after_start_req", 0, q, request)
  BY <1>4 DEF Start
<1>6. /\ q.span = [cb |-> "on_method", from |-> p] /\ q.matched = <<>>
      /\ q.error = parser.error /\ q.flags = parser.flags
  BY ReadyHere DEF Spanned, ParserType
<1> HIDE DEF q
<1>7. HeardBy(q, request, p + 0) = Silent
  <2>1. parser.span.cb = "none"
    BY ReadyHere, BetweenSpans DEF Between
  <2>2. HeardBy(q, request, p) = h
    <3>1. Typed /\ p \in Int /\ "on_method" \in Callbacks
      BY ReadyHere DEF Callbacks
    <3> QED
      BY <1>6, <2>1, <3>1, HearBegin
  <2> QED
    BY <1>2, <2>2, ReadyHere
<1>8. LineKept(q, request)
  BY <1>1, <1>6, KeptOn
<1>9. OnMethod("after_start_req", p + 0, q, request, Silent)
  <2>1. p + 0 = 1 /\ 1 \in 1 .. Len(Wanted.method) + 1 /\ From(1, 1) = <<>>
    BY <1>2, ReadyHere, Parts, LenProperties, FromEmpty
  <2>2. Silent = Saying("on_method", <<>>)
    BY Sayings DEF Callbacks
  <2> QED
    BY <1>2, <1>6, <2>1, <2>2 DEF OnMethod
<1> QED
  BY <1>5, <1>7, <1>8, <1>9, LineGoes DEF LineOn

(* Some fields have no span open.                                          *)
LEMMA ClosedSpan == NoSpan.cb = "none"
  BY DEF NoSpan

LEMMA MethodGoes ==
  ASSUME Ready("after_start_req"), LineKept(parser, request), request.version = {},
         NEW m \in HttpMethods \ {"CONNECT"}, NEW k \in {0, 1}, MethodComplete(m, k),
         p + k = UrlAt - 1,
         HeardBy(parser, request, p + k) = Saying("on_method", Wanted.method)
  PROVE  Goes
<1> DEFINE d == Delivered(p + k)
           q == [Unspanned EXCEPT !.method = m, !.matched = <<>>]
           r == [d EXCEPT !.method = {d.buf["on_method"]}, !.buf["on_method"] = <<>>]
<1>1. Move("req_first_space_before_url", k, q, r)
  BY DEF MethodComplete
<1>2. /\ parser.span.cb = "on_method" /\ "on_method" \in Callbacks
      /\ p + k \in Int /\ p + k <= Len(stream) + 1
  BY ReadyHere, SpanTable DEF Callbacks
<1>3. d.buf = Saying("on_method", Wanted.method)
  <2>1. [span |-> NoSpan].span.cb = "none"
    BY ClosedSpan
  <2>2. Delivered(p + k).buf = HeardBy(parser, request, p + k)
    BY <1>2, <2>1, ReadyHere, HearEnd
  <2> QED
    BY <2>2
<1>4. d \in RequestType /\ SameHead(request, d)
  BY <1>2, ReadyHere, SpanTable, DeliveredOK
<1>5. /\ r.buf = [d.buf EXCEPT !["on_method"] = <<>>] /\ r.method = {d.buf["on_method"]}
      /\ r.headers = request.headers /\ r.version = request.version
      /\ r.is_header_complete = request.is_header_complete
  BY <1>4 DEF RequestType, SameHead
<1>6. /\ q.span.cb = "none" /\ q.method = m /\ q.error = parser.error /\ q.flags = parser.flags
  BY ReadyHere DEF Unspanned, NoSpan, ParserType
<1> HIDE DEF d, q, r
<1>7. HeardBy(q, r, p + k) = Silent
  <2>1. r.buf = Silent
    BY <1>2, <1>3, <1>5, Sayings
  <2> QED
    BY <1>6, <2>1, Buffers
<1>8. LineKept(q, r)
  BY <1>5, <1>6, KeptOn
<1>9. MethodRead(q, r)
  BY <1>2, <1>3, <1>5, <1>6, Sayings DEF MethodRead
<1>10. OnSpace("req_first_space_before_url", p + k, q, r, Silent)
  BY <1>5, <1>9 DEF OnSpace
<1> QED
  BY <1>1, <1>7, <1>8, <1>10, LineGoes DEF LineOn

LEMMA PlaceKinds ==
  ASSUME NEW a
  PROVE  /\ a \in {"after_start_req", "start", "req_http_start"} =>
              a \notin SpaceNodes \cup UrlNodes \cup BehindUrlNodes \cup VersionNodes
                         \cup LineEndNodes \cup FieldNodes \cup BlankNodes
                         \cup PlainValueNodes \cup BehindNodes
         /\ a \in SpaceNodes => a \notin UrlNodes \cup BehindUrlNodes \cup VersionNodes \cup LineEndNodes
         /\ a \in UrlNodes => a \notin BehindUrlNodes \cup VersionNodes \cup LineEndNodes
         /\ a \in BehindUrlNodes => a \notin VersionNodes \cup LineEndNodes
         /\ a \in VersionNodes => a \notin LineEndNodes
         /\ a \in SpaceNodes \cup UrlNodes \cup BehindUrlNodes \cup VersionNodes \cup LineEndNodes =>
              /\ a \notin FieldNodes \cup BlankNodes \cup PlainValueNodes \cup BehindNodes
              /\ a \notin {"after_start_req", "start", "req_http_start", "header_field_start",
                           "headers_almost_done", "consume_content_length_1"}
         /\ a \in FieldNodes => a \notin BlankNodes \cup PlainValueNodes \cup BehindNodes
         /\ a \in BlankNodes => a \notin PlainValueNodes \cup BehindNodes
         /\ a \in PlainValueNodes => a \notin BehindNodes
         /\ a \in FieldNodes \cup BlankNodes \cup PlainValueNodes \cup BehindNodes =>
              a \notin {"after_start_req", "start", "req_http_start", "header_field_start",
                        "headers_almost_done", "consume_content_length_1"}
  BY DEF SpaceNodes, UrlNodes, BehindUrlNodes, VersionNodes, LineEndNodes, FieldNodes,
         BlankNodes, PlainValueNodes, OptionNodes, BehindNodes

LEMMA PlacedInLine ==
  ASSUME NEW a, Ready(a)
  PROVE  LET h == HeardBy(parser, request, p)
         IN  /\ a = "after_start_req" =>
                  LineKept(parser, request) /\ OnMethod(a, p, parser, request, h)
             /\ a \in SpaceNodes => LineKept(parser, request) /\ OnSpace(a, p, parser, request, h)
             /\ a \in UrlNodes => LineKept(parser, request) /\ OnUrl(a, p, parser, request, h)
             /\ a \in BehindUrlNodes =>
                  LineKept(parser, request) /\ BehindUrl(a, p, parser, request, h)
             /\ a = "req_http_start" =>
                  LineKept(parser, request) /\ OnProtocol(a, p, parser, request, h)
             /\ a \in VersionNodes =>
                  LineKept(parser, request) /\ OnVersion(a, p, parser, request, h)
             /\ a \in LineEndNodes =>
                  LineKept(parser, request) /\ OnLineEnd(a, p, parser, request, h)
<1> DEFINE h == HeardBy(parser, request, p)
<1> HIDE DEF h
<1>1. a = "after_start_req" =>
        LineKept(parser, request) /\ OnMethod(a, p, parser, request, h)
  BY PlaceKinds, Placed DEF h
<1>2. a \in SpaceNodes => LineKept(parser, request) /\ OnSpace(a, p, parser, request, h)
  BY PlaceKinds, Placed DEF h
<1>3. a \in UrlNodes => LineKept(parser, request) /\ OnUrl(a, p, parser, request, h)
  BY PlaceKinds, Placed DEF h
<1>4. a \in BehindUrlNodes => LineKept(parser, request) /\ BehindUrl(a, p, parser, request, h)
  BY PlaceKinds, Placed DEF h
<1>5. a = "req_http_start" => LineKept(parser, request) /\ OnProtocol(a, p, parser, request, h)
  BY PlaceKinds, Placed DEF h
<1>6. a \in VersionNodes => LineKept(parser, request) /\ OnVersion(a, p, parser, request, h)
  BY PlaceKinds, Placed DEF h
<1>7. a \in LineEndNodes => LineKept(parser, request) /\ OnLineEnd(a, p, parser, request, h)
  BY PlaceKinds, Placed DEF h
<1> QED
  BY <1>1, <1>2, <1>3, <1>4, <1>5, <1>6, <1>7 DEF h

LEMMA AfterStartReqGoes ==
  ASSUME Ready("after_start_req"), AfterStartReq PROVE Goes
<1> DEFINE h == HeardBy(parser, request, p)
           words == Methods \cap DOMAIN Spell
           s == Append(parser.matched, Byte)
           n == Len(Wanted.method)
<1>1. LineKept(parser, request) /\ OnMethod("after_start_req", p, parser, request, h)
  BY PlacedInLine
<1>2. /\ p \in 1 .. n + 1 /\ parser.matched = From(1, p) /\ request.version = {}
      /\ h = Saying("on_method", From(1, p))
  BY <1>1 DEF OnMethod
<1>3. /\ Described /\ stream \in Seq(Bytes) /\ p \in Nat /\ p <= Len(stream)
      /\ Len(stream) \in Nat /\ Byte = stream[p]
  BY ReadyHere
<1>4. /\ s = From(1, p + 1) /\ From(1, p) \in Seq(Bytes) /\ Len(From(1, p)) = p - 1
  <2>1. 1 \in Nat /\ 1 <= p
    BY <1>2
  <2> QED
    BY <1>2, <1>3, <2>1, FromMore
<1>5. /\ Wanted.method \in Seq(TokenByte) /\ Wanted.method \in Seq(Bytes) /\ n \in Nat
      /\ Lies(Wanted.method, 1) /\ UrlAt = n + 2 /\ stream[UrlAt - 1] = "SP"
  BY <1>3, Parts, LineLaid, LenProperties
<1>6. PICK m \in HttpMethods \ {"CONNECT"} :
        /\ m \in words /\ Wanted.method = Spell[m]
        /\ \A w \in words : Spell[w] = Wanted.method => w = m
  BY <1>3, TheMethod
<1>7. \A k \in 0 .. n : /\ From(1, 1 + k) = SubSeq(Wanted.method, 1, k)
                        /\ k = n => From(1, 1 + k) = Wanted.method
  <2>1. n <= Len(stream)
    <3>1. UrlAt <= Len(stream)
      BY <1>3, LineWithin
    <3>2. UrlAt = n + 2 /\ n \in Nat
      BY <1>5
    <3> HIDE DEF n
    <3> QED
      BY <1>3, <3>1, <3>2
  <2>2. 1 \in Nat /\ 1 - 1 + n <= Len(stream)
    BY <1>5, <2>1
  <2> QED
    <3>1. /\ Wanted.method \in Seq(Bytes) /\ Lies(Wanted.method, 1) /\ stream \in Seq(Bytes)
          /\ 1 - 1 + Len(Wanted.method) <= Len(stream)
      BY <1>3, <1>5, <2>2
    <3>2. \A k \in 0 .. Len(Wanted.method) :
            /\ From(1, 1 + k) = SubSeq(Wanted.method, 1, k)
            /\ k = Len(Wanted.method) => From(1, 1 + k) = Wanted.method
      BY <2>2, <3>1, LiesRead
    <3> QED
      BY <3>2
<1>8. HeardBy(parser, request, p + 1) = Saying("on_method", From(1, p + 1))
  <2>1. "on_method" \in Callbacks /\ SpanOf("after_start_req") = "on_method"
    BY SpanTable DEF Callbacks
  <2>2. h["on_method"] = From(1, p) /\ 1 \in Nat /\ 1 <= p /\ SameSpan(parser, request)
    BY <1>2, <2>1, Sayings, ReadyHere, MatchedSame
  <2>3. HeardBy(parser, request, p + 1) = [h EXCEPT !["on_method"] = From(1, p + 1)]
    BY <2>1, <2>2, HearByte
  <2> QED
    BY <1>2, <2>1, <2>3, Sayings
<1> HIDE DEF h, words, s, n
<1>9. ASSUME p <= n, Move("after_start_req", 1, Matched(s), request) PROVE Goes
  <2>1. SameSpan(Matched(s), request) /\ Matched(s).matched = s
    BY MatchedSame, ReadyHere
  <2>2. HeardBy(Matched(s), request, p + 1) = Saying("on_method", From(1, p + 1))
    BY <1>8, <2>1, HearSame DEF SameSpan
  <2>3. OnMethod("after_start_req", p + 1, Matched(s), request, Saying("on_method", From(1, p + 1)))
    <3>1. p + 1 \in 1 .. Len(Wanted.method) + 1
      BY <1>3, <1>5, <1>9 DEF n
    <3> QED
      BY <1>2, <1>4, <2>1, <3>1 DEF OnMethod
  <2>4. LineKept(Matched(s), request)
    BY <1>1, <2>1, KeptOn DEF SameSpan
  <2> QED
    BY <1>9, <2>2, <2>3, <2>4, LineGoes DEF LineOn
<1>10. CASE p < n
  <2>1. Extends(s, words)
    <3>1. p \in 0 .. n /\ 1 + p = p + 1
      BY <1>3, <1>5, <1>10
    <3>2. s = SubSeq(Wanted.method, 1, p)
      BY <1>4, <1>7, <3>1
    <3>3. IsStrictPrefix(SubSeq(Wanted.method, 1, p), Wanted.method)
      BY <1>5, <1>10, <3>1, PrefixIs DEF n
    <3> QED
      BY <1>6, <3>2, <3>3 DEF Extends
  <2> QED
    BY <1>5, <1>9, <1>10, <2>1, <1>3 DEF AfterStartReq, s, words
<1>11. CASE p = n
  <2>1. s = Wanted.method
    <3>1. n \in 0 .. n /\ 1 + n = p + 1
      BY <1>5, <1>11
    <3> QED
      BY <1>4, <1>7, <3>1
  <2>2. \A w \in Matches(s, words) : w = m
    BY <1>6, <2>1 DEF Matches
  <2>3. m \in Matches(s, words)
    BY <1>6, <2>1 DEF Matches
  <2>4. \/ Move("after_start_req", 1, Matched(s), request) \/ MethodComplete(m, 1)
    BY <2>2, <2>3 DEF AfterStartReq, s, words
  <2>5. HeardBy(parser, request, p + 1) = Saying("on_method", Wanted.method)
        /\ p + 1 = UrlAt - 1
    BY <1>4, <1>5, <1>8, <1>11, <2>1
  <2> QED
    BY <1>1, <1>2, <1>3, <1>9, <1>11, <2>4, <2>5, MethodGoes
<1>12. CASE p = n + 1
  <2>1. Byte = "SP" /\ p = UrlAt - 1
    BY <1>3, <1>5, <1>12
  <2>2. parser.matched = Wanted.method
    <3>1. n \in 0 .. n /\ 1 + n = p
      BY <1>5, <1>12
    <3> QED
      BY <1>2, <1>7, <3>1
  <2>3. ASSUME NEW w \in words, IsStrictPrefix(s, Spell[w]) \/ Spell[w] = s PROVE FALSE
    <3>1. Spell[w] \in Seq(TokenByte)
      BY SpellAssumption DEF SpellAssumption, words
    <3>2. parser.matched \in Seq(Bytes)
      BY <1>5, <2>2
    <3>3. "SP" \in TokenByte
      BY <2>1, <2>3, <3>1, <3>2, WordByte DEF s
    <3> QED
      BY <3>3, ByteKinds DEF Controls
  <2>4. ~Extends(s, words) /\ Matches(s, words) = {}
    BY <2>3 DEF Extends, Matches
  <2>5. m \in Matches(parser.matched, words) /\ \A w \in Matches(parser.matched, words) : w = m
    BY <1>6, <2>2 DEF Matches
  <2>6. MethodComplete(m, 0)
    BY <2>4, <2>5 DEF AfterStartReq, s, words
  <2>7. /\ HeardBy(parser, request, p + 0) = Saying("on_method", Wanted.method)
        /\ p + 0 = UrlAt - 1
    BY <1>2, <2>1, <2>2, ReadyHere DEF h
  <2> QED
    BY <1>1, <1>2, <2>6, <2>7, MethodGoes
<1> QED
  BY <1>2, <1>3, <1>5, <1>10, <1>11, <1>12

-----------------------------------------------------------------------------
(* The url.                                                                *)

(* "://" behind the scheme.                                                *)
ServerBytes(a) ==
  Wanted.url[a + 1] = ":" /\ Wanted.url[a + 2] = "/" /\ Wanted.url[a + 3] = "/"

LEMMA SchemeEnds ==
  ASSUME Wanted.url \in Seq(Bytes), NEW a \in Nat, NEW b \in Nat, b <= Len(Wanted.url),
         1 <= a, ServerParts(Wanted.url, a, b)
  PROVE  ServerBytes(a)
<1> DEFINE u == Wanted.url
           t == SubSeq(u, a + 1, a + 3)
<1>1. a + 3 <= b /\ t = <<":", "/", "/">>
  BY DEF ServerParts
<1>2. Len(u) \in Nat /\ \A i \in a + 1 .. a + 3 : u[i] \in Bytes
  BY <1>1, LenProperties, ElementOfSeq
<1>3. \A i \in 1 .. (a + 3) - (a + 1) + 1 : t[i] = u[(a + 1) + i - 1]
  BY <1>2, SubSeqProperties
<1>4. /\ (a + 3) - (a + 1) + 1 = 3 /\ (a + 1) + 1 - 1 = a + 1 /\ (a + 1) + 2 - 1 = a + 2
      /\ (a + 1) + 3 - 1 = a + 3
  OBVIOUS
<1>5. t[1] = u[a + 1] /\ t[2] = u[a + 2] /\ t[3] = u[a + 3]
  <2>1. 1 \in 1 .. 3 /\ 2 \in 1 .. 3 /\ 3 \in 1 .. 3
    OBVIOUS
  <2> HIDE DEF t, u
  <2> QED
    BY <1>3, <1>4, <2>1
<1>6. t[1] = ":" /\ t[2] = "/" /\ t[3] = "/"
  <2> HIDE DEF t
  <2> QED
    BY <1>1
<1> QED
  BY <1>5, <1>6 DEF ServerBytes

LEMMA UrlParts ==
  ASSUME Described
  PROVE  /\ Wanted.url \in Seq(Bytes) /\ Len(Wanted.url) \in Nat /\ 1 <= Len(Wanted.url)
         /\ DOMAIN Wanted.url = 1 .. Len(Wanted.url)
         /\ PathUrl(Wanted.url) \/ \E a, b \in DOMAIN Wanted.url : ServerParts(Wanted.url, a, b)
         /\ \A i \in 1 .. Len(Wanted.url) : Wanted.url[i] \in Printable
<1>1. /\ Wanted.url \in Seq(Bytes) /\ Len(Wanted.url) \in Nat /\ 1 <= Len(Wanted.url)
      /\ DOMAIN Wanted.url = 1 .. Len(Wanted.url)
  BY Parts, NonEmpty, LenProperties
<1>2. PathUrl(Wanted.url) \/ \E a, b \in DOMAIN Wanted.url : ServerParts(Wanted.url, a, b)
  BY RequestsAssumption DEF RequestsAssumption, Described, Wanted, WellFormed, ServerUrl
<1>3. CASE PathUrl(Wanted.url)
  BY <1>1, <1>2, <1>3 DEF PathUrl
<1>4. CASE \E a, b \in DOMAIN Wanted.url : ServerParts(Wanted.url, a, b)
  <2>1. PICK a \in DOMAIN Wanted.url, b \in DOMAIN Wanted.url : ServerParts(Wanted.url, a, b)
    BY <1>4
  <2>2. a \in Nat /\ b \in Nat /\ b <= Len(Wanted.url) /\ 1 <= a /\ a + 3 <= b
    BY <1>1, <2>1 DEF ServerParts
  <2>3. ServerBytes(a)
    BY <1>1, <2>1, <2>2, SchemeEnds
  <2>4. ASSUME NEW i \in 1 .. Len(Wanted.url) PROVE Wanted.url[i] \in Printable
    <3>1. CASE i \in 1 .. a
      BY <2>1, <3>1, ByteKinds DEF ServerParts
    <3>2. CASE i \in a + 1 .. a + 3
      <4>1. i = a + 1 \/ i = a + 2 \/ i = a + 3
        BY <2>2, <3>2
      <4>2. {":", "/"} \subseteq Punctuation
        BY DEF Punctuation
      <4> QED
        BY <2>3, <4>1, <4>2, ByteKinds DEF ServerBytes
    <3>3. CASE i \in a + 4 .. b
      <4>1. "@" \in Punctuation
        BY DEF Punctuation
      <4> QED
        BY <2>1, <3>3, <4>1, ByteKinds DEF ServerParts
    <3>4. CASE i \in b + 1 .. Len(Wanted.url)
      BY <2>1, <3>4 DEF ServerParts
    <3> QED
      BY <1>1, <2>2, <3>1, <3>2, <3>3, <3>4
  <2> QED
    BY <1>1, <1>2, <2>4
<1> QED
  BY <1>1, <1>2, <1>3, <1>4

LEMMA UrlFirst ==
  ASSUME Described
  PROVE  Wanted.url[1] \in Printable /\ Wanted.url[1] \notin Controls
<1>1. 1 \in 1 .. Len(Wanted.url)
  BY UrlParts
<1> QED
  BY <1>1, UrlParts, ByteKinds

(* Where the parser is in the url.                                         *)
InUrl(i) ==
  /\ i \in 0 .. Len(Wanted.url) /\ p = UrlAt + i
  /\ i < Len(Wanted.url) => Byte = Wanted.url[i + 1] /\ i + 1 \in 1 .. Len(Wanted.url)
  /\ i = Len(Wanted.url) => Byte = "SP" /\ p = ProtocolAt - 1

LEMMA UrlByte ==
  ASSUME Described, p \in UrlAt .. ProtocolAt - 1, Byte = stream[p]
  PROVE  InUrl(p - UrlAt)
<1>1. /\ UrlAt \in Nat /\ ProtocolAt = UrlAt + Len(Wanted.url) + 1
      /\ Lies(Wanted.url, UrlAt) /\ stream[ProtocolAt - 1] = "SP"
  BY LineLaid
<1> DEFINE n == Len(Wanted.url)
           i == p - UrlAt
<1>2. n \in Nat /\ Wanted.url \in Seq(Bytes)
  BY UrlParts
<1>3. ProtocolAt = UrlAt + n + 1 /\ ProtocolAt - 1 = UrlAt + n
  BY <1>1, <1>2
<1>4. i \in 0 .. n /\ p = UrlAt + i /\ p \in Int
  <2> HIDE DEF n
  <2> QED
    BY <1>1, <1>2, <1>3
<1>5. ASSUME i < n PROVE Byte = Wanted.url[i + 1] /\ i + 1 \in 1 .. n
  <2>1. UrlAt <= p /\ p < UrlAt + Len(Wanted.url) /\ p - UrlAt + 1 = i + 1
    BY <1>1, <1>2, <1>4, <1>5
  <2> QED
    BY <1>1, <1>2, <1>4, <2>1, PartByte
<1>6. ASSUME i = n PROVE Byte = "SP" /\ p = ProtocolAt - 1
  BY <1>1, <1>2, <1>3, <1>4, <1>6
<1> QED
  BY <1>4, <1>5, <1>6 DEF InUrl

-----------------------------------------------------------------------------
(* Blanks before the url.                                                  *)
LEMMA SpaceGoes ==
  ASSUME NEW a \in SpaceNodes, Ready(a),
         ReqFirstSpaceBeforeUrl \/ ReqSpacesBeforeUrl \/ UrlEntryNormal
  PROVE  Goes
<1> DEFINE h == HeardBy(parser, request, p)
<1>1. LineKept(parser, request) /\ OnSpace(a, p, parser, request, h)
  BY PlacedInLine
<1>2. MethodRead(parser, request) /\ request.version = {} /\ h = Silent
  BY <1>1 DEF OnSpace
<1>3. Described /\ At(a) /\ p \in Nat /\ Byte = stream[p] /\ p + 0 = p /\ cur = a
  BY ReadyHere DEF At
<1>4. /\ UrlAt \in Nat /\ stream[UrlAt - 1] = "SP" /\ Lies(Wanted.url, UrlAt)
  BY <1>3, LineLaid
<1>5. parser.span.cb = "none"
  <2>1. a \in Between
    BY DEF SpaceNodes, Between
  <2> QED
    BY <2>1, ReadyHere, BetweenSpans
<1>6. \A at : HeardBy(parser, request, at) = Silent
  BY <1>2, <1>5, HearNone
<1> HIDE DEF h
<1>7. CASE ReqFirstSpaceBeforeUrl
  <2>1. a = "req_first_space_before_url"
    BY <1>3, <1>7 DEF ReqFirstSpaceBeforeUrl, At
  <2>2. p = UrlAt - 1 /\ Byte = "SP"
    BY <1>1, <1>3, <1>4, <2>1 DEF OnSpace
  <2>3. Move("req_spaces_before_url", 1, parser, request)
    BY <1>7, <2>2 DEF ReqFirstSpaceBeforeUrl, Eat
  <2>4. OnSpace("req_spaces_before_url", p + 1, parser, request, Silent)
    BY <1>2, <1>4, <2>2 DEF OnSpace
  <2> QED
    BY <1>1, <1>6, <2>3, <2>4, LineGoes DEF LineOn
<1>8. ASSUME a # "req_first_space_before_url"
      PROVE  p = UrlAt /\ Byte \in Printable /\ Byte \notin Controls
  <2>1. p = UrlAt
    BY <1>1, <1>8 DEF OnSpace
  <2>2. Byte = Wanted.url[1]
    <3>1. Wanted.url \in Seq(Bytes) /\ 1 <= Len(Wanted.url) /\ Len(Wanted.url) \in Nat
      BY <1>3, UrlParts
    <3>2. UrlAt <= p /\ p < UrlAt + Len(Wanted.url) /\ p - UrlAt + 1 = 1
      BY <1>4, <2>1, <3>1
    <3> QED
      BY <1>3, <1>4, <3>1, <3>2, PartByte
  <2> QED
    BY <1>3, <2>1, <2>2, UrlFirst
<1>9. CASE ReqSpacesBeforeUrl
  <2>1. a = "req_spaces_before_url"
    BY <1>3, <1>9 DEF ReqSpacesBeforeUrl, At
  <2>2. p = UrlAt /\ Byte # "SP"
    BY <1>8, <2>1 DEF Controls
  <2>3. Move("url_entry_normal", 0, parser, request)
    BY <1>2, <1>9, <2>2 DEF ReqSpacesBeforeUrl, Goto, MethodRead
  <2>4. OnSpace("url_entry_normal", p + 0, parser, request, Silent)
    BY <1>2, <1>3, <2>2 DEF OnSpace
  <2> QED
    BY <1>1, <1>6, <2>3, <2>4, LineGoes DEF LineOn
<1>10. CASE UrlEntryNormal
  <2>1. a = "url_entry_normal"
    BY <1>3, <1>10 DEF UrlEntryNormal, UrlEntry, At
  <2>2. p = UrlAt /\ Byte \notin {"HT", "FF"}
    BY <1>8, <2>1 DEF Controls
  <2> DEFINE q == Spanned("on_url", p)
  <2>3. Move("url_start", 0, q, request)
    BY <1>10, <2>2 DEF UrlEntryNormal, UrlEntry
  <2>4. /\ q.span = [cb |-> "on_url", from |-> p] /\ q.error = parser.error
        /\ q.flags = parser.flags /\ q.method = parser.method
    BY ReadyHere DEF Spanned, ParserType
  <2> HIDE DEF q
  <2>5. HeardBy(q, request, p) = Silent
    <3>1. Typed /\ p \in Int /\ "on_url" \in Callbacks
      BY ReadyHere DEF Callbacks
    <3> QED
      BY <1>5, <1>6, <2>4, <3>1, HearBegin
  <2>6. OnUrl("url_start", p, q, request, Silent)
    <3>1. p \in UrlAt .. ProtocolAt - 1 /\ p - UrlAt = 0
      <4>1. UrlAt < ProtocolAt /\ ProtocolAt \in Nat
        BY <1>3, LineWithin, LineLaid
      <4> QED
        BY <1>4, <2>2, <4>1
    <3>2. UrlPlace("url_start", p - UrlAt)
      BY <3>1 DEF UrlPlace
    <3>3. Silent = Saying("on_url", From(UrlAt, p))
      <4>1. From(UrlAt, p) = <<>> /\ "on_url" \in Callbacks
        BY <1>4, <2>2, FromEmpty DEF Callbacks
      <4> QED
        BY <4>1, Sayings
    <3> QED
      BY <1>2, <2>4, <3>1, <3>2, <3>3 DEF OnUrl, MethodRead
  <2>7. LineKept(q, request)
    BY <1>1, <2>4, KeptOn
  <2> QED
    BY <1>3, <2>3, <2>5, <2>6, <2>7, LineGoes DEF LineOn
<1> QED
  BY <1>7, <1>9, <1>10

(* A callback is called with what was heard of its span.                   *)
LEMMA EndHears ==
  ASSUME NEW a, Ready(a), SpanOf(a) \in Callbacks, NEW n \in Int, n <= Len(stream) + 1
  PROVE  /\ Delivered(n).buf = HeardBy(parser, request, n)
         /\ Delivered(n).buf \in [Callbacks -> Seq(Bytes)]
         /\ Delivered(n) \in RequestType /\ SameHead(request, Delivered(n))
<1>1. /\ Typed /\ ParserInv /\ At(a) /\ parser.span.cb \in Callbacks /\ SpanOf(a) # "none"
      /\ NoSpan.cb = "none"
  BY ReadyHere, ClosedSpan DEF Callbacks
<1>2. Delivered(n) \in RequestType /\ SameHead(request, Delivered(n))
  BY <1>1, DeliveredOK
<1>3. Delivered(n).buf = HeardBy(parser, request, n)
  <2>1. [span |-> NoSpan].span.cb = "none"
    BY <1>1
  <2> QED
    BY <1>1, <2>1, HearEnd
<1> QED
  BY <1>2, <1>3 DEF RequestType

(* All of a part.                                                          *)
LEMMA AllRead ==
  ASSUME stream \in Seq(Bytes), NEW s \in Seq(Bytes), NEW a \in Nat, 1 <= a, Lies(s, a),
         a - 1 + Len(s) <= Len(stream)
  PROVE  From(a, a + Len(s)) = s
<1>1. Len(s) \in 0 .. Len(s)
  BY LenProperties
<1> QED
  BY <1>1, LiesRead

(* On in the url, and behind it.                                           *)
LEMMA UrlOn ==
  ASSUME NEW a \in UrlNodes, Ready(a)
  PROVE  LET i == p - UrlAt
         IN  /\ InUrl(i) /\ UrlPlace(a, i) /\ i \in Nat
             /\ \A node : Eat(node) /\ i < Len(Wanted.url) /\ UrlPlace(node, i + 1) => Goes
             /\ \A node : Goto(node) /\ UrlPlace(node, i) => Goes
             /\ i = Len(Wanted.url) /\ EndSpan("url_skip_to_http", 0) => Goes
<1> DEFINE h == HeardBy(parser, request, p)
           i == p - UrlAt
<1>1. LineKept(parser, request) /\ OnUrl(a, p, parser, request, h)
  BY PlacedInLine
<1>2. /\ p \in UrlAt .. ProtocolAt - 1 /\ UrlPlace(a, i) /\ MethodRead(parser, request)
      /\ request.version = {} /\ h = Saying("on_url", From(UrlAt, p))
  BY <1>1 DEF OnUrl
<1>3. /\ Described /\ Byte = stream[p] /\ p + 0 = p /\ p \in Nat /\ parser \in ParserType
      /\ SpanOf(a) = "on_url" /\ "on_url" \in Callbacks /\ p <= Len(stream) + 1
      /\ Len(stream) \in Nat /\ Typed
  BY ReadyHere, SpanTable DEF Callbacks
<1>4. InUrl(i)
  BY <1>2, <1>3, UrlByte
<1>5. /\ UrlAt \in Nat /\ ProtocolAt = UrlAt + Len(Wanted.url) + 1 /\ Len(Wanted.url) \in Nat
      /\ ProtocolAt \in Nat /\ 1 <= UrlAt /\ Lies(Wanted.url, UrlAt)
      /\ Wanted.url \in Seq(Bytes) /\ ProtocolAt <= Len(stream)
  <2>1. 2 <= UrlAt /\ UrlAt \in Nat
    BY <1>3, LineWithin, LineLaid
  <2> QED
    BY <1>3, <2>1, LineWithin, LineLaid, UrlParts
<1>6. i \in Nat /\ p = UrlAt + i
  BY <1>2, <1>3, <1>5
<1>7. ASSUME NEW node, Eat(node), i < Len(Wanted.url), UrlPlace(node, i + 1) PROVE Goes
  <2>1. HeardBy(parser, request, p + 1) = Saying("on_url", From(UrlAt, p + 1))
    <3>1. h["on_url"] = From(UrlAt, p) /\ SameSpan(parser, request)
      BY <1>2, <1>3, Sayings, MatchedSame
    <3>2. UrlAt <= p
      BY <1>2
    <3>3. HeardBy(parser, request, p + 1) = [h EXCEPT !["on_url"] = From(UrlAt, p + 1)]
      BY <1>3, <1>5, <3>1, <3>2, HearByte
    <3> QED
      BY <1>2, <1>3, <3>3, Sayings
  <2>2. p + 1 \in UrlAt .. ProtocolAt - 1 /\ (p + 1) - UrlAt = i + 1
    <3> DEFINE n == Len(Wanted.url)
    <3>1. ProtocolAt = UrlAt + n + 1 /\ n \in Nat /\ i < n
      BY <1>5, <1>7
    <3> HIDE DEF n
    <3> QED
      BY <1>5, <1>6, <3>1
  <2>3. OnUrl(node, p + 1, parser, request, Saying("on_url", From(UrlAt, p + 1)))
    BY <1>2, <1>7, <2>2 DEF OnUrl
  <2>4. Move(node, 1, parser, request)
    BY <1>7 DEF Eat
  <2> QED
    BY <1>1, <2>1, <2>3, <2>4, LineGoes DEF LineOn
<1>8. ASSUME NEW node, Goto(node), UrlPlace(node, i) PROVE Goes
  <2>1. OnUrl(node, p + 0, parser, request, HeardBy(parser, request, p + 0))
    BY <1>2, <1>3, <1>8 DEF OnUrl
  <2>2. Move(node, 0, parser, request)
    BY <1>8 DEF Goto
  <2> QED
    BY <1>1, <2>1, <2>2, LineGoes DEF LineOn
<1>9. ASSUME i = Len(Wanted.url), EndSpan("url_skip_to_http", 0) PROVE Goes
  <2>1. Move("url_skip_to_http", 0, Unspanned, Delivered(p))
    BY <1>9 DEF EndSpan
  <2>2. From(UrlAt, p) = Wanted.url /\ p = ProtocolAt - 1
    <3> DEFINE n == Len(Wanted.url)
    <3>1. ProtocolAt = UrlAt + n + 1 /\ n \in Nat /\ p = UrlAt + n
      BY <1>5, <1>6, <1>9
    <3>4. ProtocolAt <= Len(stream) /\ ProtocolAt \in Nat /\ Len(stream) \in Nat /\ UrlAt \in Nat
      BY <1>3, <1>5
    <3> HIDE DEF n, i
    <3>2. p = ProtocolAt - 1 /\ UrlAt - 1 + n <= Len(stream) /\ n \in 0 .. n
      BY <3>1, <3>4
    <3>3. From(UrlAt, UrlAt + n) = Wanted.url
      <4>1. stream \in Seq(Bytes)
        BY ReadyHere
      <4>2. UrlAt - 1 + Len(Wanted.url) <= Len(stream) /\ Lies(Wanted.url, UrlAt)
            /\ Wanted.url \in Seq(Bytes) /\ UrlAt \in Nat /\ 1 <= UrlAt
        BY <1>5, <3>2 DEF n
      <4> QED
        BY <4>1, <4>2, AllRead DEF n
    <3> QED
      BY <3>1, <3>2, <3>3
  <2> DEFINE r == Delivered(p)
  <2>3. r.buf = h /\ r.buf \in [Callbacks -> Seq(Bytes)] /\ SameHead(request, r)
    BY <1>3, EndHears
  <2>4. /\ Unspanned.span.cb = "none" /\ Unspanned.method = parser.method
        /\ Unspanned.error = parser.error /\ Unspanned.flags = parser.flags
    BY <1>3, ClosedSpan DEF Unspanned, ParserType
  <2> HIDE DEF r
  <2>5. HeardBy(Unspanned, r, p + 0) = Saying("on_url", Wanted.url)
    BY <1>2, <2>2, <2>3, <2>4, Buffers
  <2>6. LineKept(Unspanned, r)
    BY <1>1, <2>3, <2>4, KeptOn DEF SameHead
  <2>7. BehindUrl("url_skip_to_http", p + 0, Unspanned, r, Saying("on_url", Wanted.url))
    BY <1>2, <1>3, <2>2, <2>3, <2>4 DEF BehindUrl, MethodRead, SameHead
  <2> QED
    BY <2>1, <2>5, <2>6, <2>7, LineGoes DEF LineOn, r
<1> QED
  BY <1>2, <1>4, <1>6, <1>7, <1>8, <1>9

UrlStep ==
  \/ UrlStart \/ UrlSchema \/ UrlSchemaDelim \/ UrlSchemaDelim1 \/ UrlServer
  \/ UrlServerWithAt \/ UrlPath \/ UrlQueryOrFragment \/ UrlQuery \/ UrlFragment

(* In a path, a query and a fragment every printable byte goes on.         *)
LEMMA PathGoes ==
  ASSUME NEW a \in {"url_path", "url_query_or_fragment", "url_query", "url_fragment"},
         Ready(a), UrlPath \/ UrlQueryOrFragment \/ UrlQuery \/ UrlFragment
  PROVE  Goes
<1> DEFINE i == p - UrlAt
           n == Len(Wanted.url)
           z == Byte
<1>1. a \in UrlNodes /\ At(a) /\ Described
  BY ReadyHere DEF UrlNodes
<1>2. /\ InUrl(i) /\ UrlPlace(a, i) /\ i \in Nat
      /\ \A node : Eat(node) /\ i < n /\ UrlPlace(node, i + 1) => Goes
      /\ \A node : Goto(node) /\ UrlPlace(node, i) => Goes
      /\ i = n /\ EndSpan("url_skip_to_http", 0) => Goes
  BY <1>1, UrlOn
<1>3. n \in Nat
  BY <1>1, UrlParts
<1>4. PathPlace(a, i)
  BY <1>2 DEF UrlPlace, ServerPlace
<1>5. /\ i \in 0 .. n
      /\ i < n => z = Wanted.url[i + 1] /\ z \in Printable
      /\ i = n => z = "SP"
  <2>1. i + 1 \in 1 .. n => Wanted.url[i + 1] \in Printable
    BY <1>1, UrlParts
  <2> QED
    BY <1>2, <2>1 DEF InUrl
<1>6. \A node \in {"url_path", "url_query", "url_fragment"} : UrlPlace(node, i + 1)
  <2>1. \A j \in (i + 1) + 1 .. n : j \in i + 1 .. n
    BY <1>2, <1>3
  <2> HIDE DEF i
  <2> QED
    BY <1>4, <2>1 DEF UrlPlace, PathPlace
<1>7. (i < n => z \in {"#", "?"}) => UrlPlace("url_query_or_fragment", i)
  BY <1>4, <1>5 DEF UrlPlace, PathPlace
<1>8. cur = a /\ Byte = z
  BY <1>1 DEF At
<1> HIDE DEF i, n, z
<1>9. /\ z \in Printable => z \notin Controls
      /\ "SP" \notin UrlPathByte /\ "SP" \notin UrlQueryByte /\ "SP" \notin Printable
      /\ \A b \in Printable : b \in UrlPathByte \/ b \in {"#", "?"}
      /\ \A b \in Printable : b \in UrlQueryByte \/ b = "#"
  BY ByteKinds DEF Controls, UrlPathByte, UrlQueryByte
<1>10. CASE i < n
  <2>1. z \in Printable /\ z \notin {"HT", "SP", "CR", "LF", "FF"}
    BY <1>5, <1>9, <1>10 DEF Controls
  <2>2. ~UrlEnds
    BY <1>8, <2>1 DEF UrlEnds
  <2>3. CASE UrlPath
    BY <1>2, <1>6, <1>7, <1>8, <1>9, <1>10, <2>1, <2>3 DEF UrlPath
  <2>4. CASE UrlQueryOrFragment
    <3>1. z \in {"#", "?"}
      <4>1. a = "url_query_or_fragment"
        BY <1>8, <2>4 DEF UrlQueryOrFragment, At
      <4> QED
        BY <1>4, <1>5, <1>10, <4>1 DEF PathPlace, n
    <3> QED
      BY <1>2, <1>6, <1>8, <1>10, <2>2, <2>4, <3>1 DEF UrlQueryOrFragment
  <2>5. CASE UrlQuery
    BY <1>2, <1>6, <1>8, <1>9, <1>10, <2>1, <2>2, <2>5 DEF UrlQuery
  <2>6. CASE UrlFragment
    BY <1>2, <1>6, <1>8, <1>10, <2>1, <2>2, <2>6 DEF UrlFragment
  <2> QED
    BY <2>3, <2>4, <2>5, <2>6
<1>11. CASE i = n
  <2>1. z = "SP" /\ ~(i < n)
    BY <1>2, <1>3, <1>5, <1>11
  <2>2. UrlEnds => Goes
    BY <1>2, <1>8, <1>11, <2>1 DEF UrlEnds
  <2>3. CASE UrlPath
    BY <1>2, <1>7, <1>8, <1>9, <2>1, <2>3 DEF UrlPath
  <2>4. CASE UrlQueryOrFragment
    BY <1>8, <2>1, <2>2, <2>4 DEF UrlQueryOrFragment, UrlEnd
  <2>5. CASE UrlQuery
    BY <1>8, <1>9, <2>1, <2>2, <2>5 DEF UrlQuery, UrlEnd
  <2>6. CASE UrlFragment
    BY <1>8, <1>9, <2>1, <2>2, <2>6 DEF UrlFragment, UrlEnd
  <2> QED
    BY <2>3, <2>4, <2>5, <2>6
<1> QED
  BY <1>3, <1>5, <1>10, <1>11

(* A path, or a scheme and a server before it.                             *)
LEMMA UrlStartGoes ==
  ASSUME Ready("url_start"), UrlStart PROVE Goes
<1> DEFINE i == p - UrlAt
<1>1. "url_start" \in UrlNodes /\ Described
  BY ReadyHere DEF UrlNodes
<1>2. /\ InUrl(i) /\ UrlPlace("url_start", i) /\ i \in Nat
      /\ \A node : Eat(node) /\ i < Len(Wanted.url) /\ UrlPlace(node, i + 1) => Goes
      /\ \A node : Goto(node) /\ UrlPlace(node, i) => Goes
  BY <1>1, UrlOn
<1>3. /\ Len(Wanted.url) \in Nat /\ 1 <= Len(Wanted.url)
      /\ DOMAIN Wanted.url = 1 .. Len(Wanted.url)
      /\ PathUrl(Wanted.url) \/ \E a, b \in DOMAIN Wanted.url : ServerParts(Wanted.url, a, b)
      /\ \A j \in 1 .. Len(Wanted.url) : Wanted.url[j] \in Printable
  BY <1>1, UrlParts
<1>4. i = 0
  BY <1>2 DEF UrlPlace, PathPlace, ServerPlace
<1>5. Byte = Wanted.url[1] /\ 0 < Len(Wanted.url)
  BY <1>2, <1>3, <1>4 DEF InUrl
<1>6. {"*", "/"} \cap Letter = {}
  BY ByteKinds DEF Punctuation
<1> HIDE DEF i
<1>7. CASE PathUrl(Wanted.url)
  <2>1. Byte \in {"*", "/"} /\ Byte \notin Letter
    BY <1>5, <1>6, <1>7 DEF PathUrl
  <2>2. Eat("url_path")
    BY <2>1 DEF UrlStart
  <2>3. UrlPlace("url_path", i + 1)
    <3>1. \A j \in (0 + 1) + 1 .. Len(Wanted.url) : j \in 1 .. Len(Wanted.url)
      BY <1>3
    <3> QED
      BY <1>3, <1>4, <3>1 DEF UrlPlace, PathPlace
  <2> QED
    BY <1>2, <1>4, <1>5, <2>2, <2>3
<1>8. CASE \E a, b \in DOMAIN Wanted.url : ServerParts(Wanted.url, a, b)
  <2>1. PICK a \in DOMAIN Wanted.url, b \in DOMAIN Wanted.url : ServerParts(Wanted.url, a, b)
    BY <1>8
  <2>2. a \in Nat /\ 1 <= a
    BY <1>3
  <2>3. Byte \in Letter /\ Byte \notin {"*", "/"}
    <3>1. 1 \in 1 .. a
      BY <2>2
    <3> QED
      BY <1>5, <1>6, <2>1, <3>1 DEF ServerParts
  <2>4. Goto("url_schema")
    BY <2>3 DEF UrlStart
  <2>5. UrlPlace("url_schema", i)
    <3>1. i \in 0 .. a
      BY <1>4, <2>2
    <3> QED
      BY <2>1, <3>1 DEF UrlPlace, ServerPlace
  <2> QED
    BY <1>2, <2>4, <2>5
<1> QED
  BY <1>3, <1>7, <1>8

SchemeNodes == {"url_schema", "url_schema_delim", "url_schema_delim_1"}
ServerNodes == {"url_server", "url_server_with_at"}

LEMMA SchemeGoes ==
  ASSUME NEW c \in SchemeNodes, Ready(c), UrlSchema \/ UrlSchemaDelim \/ UrlSchemaDelim1
  PROVE  Goes
<1> DEFINE i == p - UrlAt
           n == Len(Wanted.url)
<1>1. c \in UrlNodes /\ Described /\ cur = c
  BY ReadyHere DEF UrlNodes, SchemeNodes, At
<1>2. /\ InUrl(i) /\ UrlPlace(c, i) /\ i \in Nat
      /\ \A node : Eat(node) /\ i < n /\ UrlPlace(node, i + 1) => Goes
  BY <1>1, UrlOn
<1>3. n \in Nat /\ DOMAIN Wanted.url = 1 .. n /\ Wanted.url \in Seq(Bytes)
  BY <1>1, UrlParts
<1>4. PICK a \in 1 .. n, b \in 1 .. n : ServerPlace(c, i, a, b)
  BY <1>2, <1>3 DEF UrlPlace, PathPlace, SchemeNodes
<1>5. ServerParts(Wanted.url, a, b) /\ a \in Nat /\ b \in Nat /\ b <= n /\ a + 3 <= b /\ 1 <= a
  BY <1>3, <1>4 DEF ServerPlace, ServerParts
<1>6. ServerBytes(a)
  BY <1>3, <1>5, SchemeEnds DEF n
<1> HIDE DEF i, n
<1>7. \A node, j : ServerPlace(node, j, a, b) => UrlPlace(node, j)
  BY <1>3 DEF UrlPlace
<1>8. i < n => Byte = Wanted.url[i + 1]
  BY <1>2 DEF InUrl, n
<1>9. ":" \notin Letter
  BY ByteKinds DEF Punctuation
<1>10. CASE c = "url_schema"
  <2>1. i \in 0 .. a /\ i < n
    BY <1>4, <1>5, <1>3, <1>10 DEF ServerPlace
  <2>2. UrlSchema
    BY <1>1, <1>10 DEF UrlSchemaDelim, UrlSchemaDelim1, At
  <2>3. CASE i < a
    <3>1. i + 1 \in 1 .. a /\ i + 1 \in 0 .. a
      BY <1>5, <2>1, <2>3
    <3>2. Byte \in Letter
      BY <1>5, <1>8, <2>1, <3>1 DEF ServerParts
    <3>3. Eat("url_schema")
      BY <1>9, <2>2, <3>2 DEF UrlSchema
    <3> QED
      BY <1>2, <1>5, <1>7, <2>1, <3>1, <3>3 DEF ServerPlace
  <2>4. CASE i = a
    <3>1. Byte = ":"
      BY <1>6, <1>8, <2>1, <2>4 DEF ServerBytes
    <3>2. Eat("url_schema_delim")
      BY <1>9, <2>2, <3>1 DEF UrlSchema
    <3> QED
      BY <1>2, <1>5, <1>7, <2>1, <2>4, <3>2 DEF ServerPlace
  <2> QED
    BY <1>5, <2>1, <2>3, <2>4
<1>11. CASE c = "url_schema_delim"
  <2>1. i = a + 1 /\ i < n /\ i + 1 = a + 2
    BY <1>3, <1>4, <1>5, <1>11 DEF ServerPlace
  <2>2. UrlSchemaDelim
    BY <1>1, <1>11 DEF UrlSchema, UrlSchemaDelim1, At
  <2>3. Byte = "/"
    BY <1>6, <1>8, <2>1 DEF ServerBytes
  <2>4. Eat("url_schema_delim_1")
    BY <2>2, <2>3 DEF UrlSchemaDelim
  <2> QED
    BY <1>2, <1>5, <1>7, <2>1, <2>4 DEF ServerPlace
<1>12. CASE c = "url_schema_delim_1"
  <2>1. i = a + 2 /\ i < n /\ i + 1 = a + 3 /\ i + 1 \in a + 3 .. b
    BY <1>3, <1>4, <1>5, <1>12 DEF ServerPlace
  <2>2. UrlSchemaDelim1
    BY <1>1, <1>12 DEF UrlSchema, UrlSchemaDelim, At
  <2>3. Byte = "/"
    BY <1>6, <1>8, <2>1 DEF ServerBytes
  <2>4. Eat("url_server")
    BY <2>2, <2>3 DEF UrlSchemaDelim1
  <2> QED
    BY <1>2, <1>5, <1>7, <2>1, <2>4 DEF ServerPlace
<1> QED
  BY <1>10, <1>11, <1>12 DEF SchemeNodes

LEMMA ServerGoes ==
  ASSUME NEW c \in ServerNodes, Ready(c), UrlServer \/ UrlServerWithAt
  PROVE  Goes
<1> DEFINE i == p - UrlAt
           n == Len(Wanted.url)
<1>1. c \in UrlNodes /\ Described /\ cur = c
  BY ReadyHere DEF UrlNodes, ServerNodes, At
<1>2. /\ InUrl(i) /\ UrlPlace(c, i) /\ i \in Nat
      /\ \A node : Eat(node) /\ i < n /\ UrlPlace(node, i + 1) => Goes
      /\ i = n /\ EndSpan("url_skip_to_http", 0) => Goes
  BY <1>1, UrlOn
<1>3. n \in Nat /\ DOMAIN Wanted.url = 1 .. n /\ Wanted.url \in Seq(Bytes)
  BY <1>1, UrlParts
<1>4. PICK a \in 1 .. n, b \in 1 .. n : ServerPlace(c, i, a, b)
  BY <1>2, <1>3 DEF UrlPlace, PathPlace, ServerNodes
<1>5. ServerParts(Wanted.url, a, b) /\ a \in Nat /\ b \in Nat /\ b <= n /\ a + 3 <= b /\ 1 <= a
  BY <1>3, <1>4 DEF ServerPlace, ServerParts
<1>6. /\ i \in a + 3 .. b
      /\ c = "url_server_with_at" => Wanted.url[i] = "@"
  BY <1>4, <1>5 DEF ServerPlace, ServerNodes
<1>7. /\ i < n => Byte = Wanted.url[i + 1]
      /\ i = n => Byte = "SP"
  BY <1>2 DEF InUrl, n
<1> HIDE DEF i, n
<1>8. \A node, j : ServerPlace(node, j, a, b) => UrlPlace(node, j)
  BY <1>3 DEF UrlPlace
<1>9. /\ UrlServerByte \cap ({"/", "?", "@"} \cup Controls) = {}
      /\ UrlEnd \subseteq Controls
      /\ {"/", "?", "@"} \cap UrlEnd = {}
  BY ByteKinds DEF UrlEnd, Controls
<1>10. CASE i < b
  <2>1. i < n /\ i + 1 \in a + 4 .. b /\ i + 1 \in a + 3 .. b
    BY <1>3, <1>5, <1>6, <1>10
  <2>2. Byte \in UrlServerByte \/ (Byte = "@" /\ c = "url_server")
    <3>1. (i + 1) - 1 = i
      BY <1>6, <1>2
    <3>2. Wanted.url[i + 1] \in UrlServerByte
            \/ (Wanted.url[i + 1] = "@" /\ Wanted.url[(i + 1) - 1] # "@")
      BY <1>5, <2>1 DEF ServerParts
    <3> QED
      BY <1>6, <1>7, <2>1, <3>1, <3>2 DEF ServerNodes
  <2>3. ~UrlEnds
    BY <1>9, <2>2 DEF UrlEnds, UrlEnd
  <2>4. CASE Byte \in UrlServerByte
    <3>1. Eat("url_server")
      BY <1>9, <2>3, <2>4 DEF UrlServer, UrlServerWithAt
    <3>2. ServerPlace("url_server", i + 1, a, b)
      BY <1>5, <2>1 DEF ServerPlace
    <3> QED
      BY <1>2, <1>8, <2>1, <3>1, <3>2
  <2>5. CASE Byte = "@" /\ c = "url_server"
    <3>1. UrlServer
      BY <1>1, <2>5 DEF UrlServerWithAt, At
    <3>2. Eat("url_server_with_at")
      BY <1>9, <2>3, <2>5, <3>1 DEF UrlServer
    <3>3. ServerPlace("url_server_with_at", i + 1, a, b)
      BY <1>5, <1>7, <2>1, <2>5 DEF ServerPlace
    <3> QED
      BY <1>2, <1>8, <2>1, <3>2, <3>3
  <2> QED
    BY <2>2, <2>4, <2>5
<1>11. CASE i = b /\ i < n
  <2>1. Byte \in {"/", "?"}
    BY <1>5, <1>7, <1>11 DEF ServerParts, n
  <2>2. ~UrlEnds /\ Byte \notin UrlServerByte
    BY <1>9, <2>1 DEF UrlEnds, UrlEnd
  <2>3. Eat("url_path") \/ Eat("url_query")
    BY <2>1, <2>2 DEF UrlServer, UrlServerWithAt
  <2>4. \A node \in {"url_path", "url_query"} : UrlPlace(node, i + 1)
    <3>1. \A j \in (i + 1) + 1 .. n : j \in b + 1 .. n
      BY <1>3, <1>5, <1>11
    <3> QED
      BY <1>5, <3>1 DEF UrlPlace, PathPlace, ServerParts, n
  <2> QED
    BY <1>2, <1>11, <2>3, <2>4
<1>12. CASE i = n
  <2>1. Byte = "SP"
    BY <1>7, <1>12
  <2>2. UrlEnds
    BY <1>9, <2>1 DEF UrlServer, UrlServerWithAt, UrlEnd, Controls
  <2>3. EndSpan("url_skip_to_http", 0)
    BY <2>1, <2>2 DEF UrlEnds
  <2> QED
    BY <1>2, <1>12, <2>3
<1> QED
  BY <1>3, <1>5, <1>6, <1>10, <1>11, <1>12

LEMMA UrlGoes ==
  ASSUME NEW a \in UrlNodes, Ready(a), UrlStep PROVE Goes
<1>1. cur = a
  BY ReadyHere DEF At
<1>2. CASE UrlStart
  <2>1. a = "url_start"
    BY <1>1, <1>2 DEF UrlStart, At
  <2> QED
    BY <1>2, <2>1, UrlStartGoes
<1>3. CASE UrlSchema \/ UrlSchemaDelim \/ UrlSchemaDelim1
  <2>1. a \in SchemeNodes
    BY <1>1, <1>3 DEF UrlSchema, UrlSchemaDelim, UrlSchemaDelim1, At, SchemeNodes
  <2> QED
    BY <1>3, <2>1, SchemeGoes
<1>4. CASE UrlServer \/ UrlServerWithAt
  <2>1. a \in ServerNodes
    BY <1>1, <1>4 DEF UrlServer, UrlServerWithAt, At, ServerNodes
  <2> QED
    BY <1>4, <2>1, ServerGoes
<1>5. CASE UrlPath \/ UrlQueryOrFragment \/ UrlQuery \/ UrlFragment
  <2>1. a \in {"url_path", "url_query_or_fragment", "url_query", "url_fragment"}
    BY <1>1, <1>5 DEF UrlPath, UrlQueryOrFragment, UrlQuery, UrlFragment, At
  <2> QED
    BY <1>5, <2>1, PathGoes
<1> QED
  BY <1>2, <1>3, <1>4, <1>5 DEF UrlStep

(* The beginnings of a part.                                               *)
LEMMA AllBegin ==
  ASSUME stream \in Seq(Bytes), NEW s \in Seq(Bytes), NEW a \in Nat, 1 <= a, Lies(s, a),
         a - 1 + Len(s) <= Len(stream)
  PROVE  \A j \in 0 .. Len(s) : /\ From(a, a + j) = SubSeq(s, 1, j)
                                /\ j = Len(s) => From(a, a + j) = s
<1> TAKE j \in 0 .. Len(s)
<1> QED
  BY LiesRead

(* Behind the url.                                                         *)
LEMMA BehindUrlGoes ==
  ASSUME NEW a \in BehindUrlNodes, Ready(a), UrlSkipToHttp \/ UrlToHttp
  PROVE  Goes
<1> DEFINE h == HeardBy(parser, request, p)
           word == Spell["HTTP/"]
<1>1. LineKept(parser, request) /\ BehindUrl(a, p, parser, request, h)
  BY PlacedInLine
<1>2. MethodRead(parser, request) /\ request.version = {} /\ h = Saying("on_url", Wanted.url)
  BY <1>1 DEF BehindUrl
<1>3. /\ Described /\ Typed /\ cur = a /\ p \in Nat /\ Byte = stream[p] /\ p + 0 = p
      /\ parser \in ParserType /\ request \in RequestType
  BY ReadyHere DEF At
<1>4. /\ ProtocolAt \in Nat /\ stream[ProtocolAt - 1] = "SP" /\ Lies(word, ProtocolAt)
      /\ VersionAt = ProtocolAt + Len(word) /\ ProtocolAt < VersionAt
      /\ VersionAt \in Nat
  BY <1>3, LineLaid, LineWithin
<1>5. parser.span.cb = "none"
  <2>1. a \in Between
    BY DEF BehindUrlNodes, Between
  <2> QED
    BY <2>1, ReadyHere, BetweenSpans
<1>6. request.buf = Saying("on_url", Wanted.url)
  BY <1>2, <1>3, <1>5, HearBuffers
<1> HIDE DEF h
<1>7. CASE UrlSkipToHttp
  <2>1. p = ProtocolAt - 1
    BY <1>1, <1>3, <1>7 DEF BehindUrl, UrlSkipToHttp, At
  <2>2. Move("url_to_http", 1, parser, request)
    BY <1>3, <1>4, <1>7, <2>1 DEF UrlSkipToHttp, Eat
  <2>3. BehindUrl("url_to_http", p + 1, parser, request, h)
    BY <1>2, <1>4, <2>1 DEF BehindUrl
  <2>4. HeardBy(parser, request, p + 1) = h
    BY <1>5, HearNone DEF h
  <2> QED
    BY <1>1, <2>2, <2>3, <2>4, LineGoes DEF LineOn
<1>8. CASE UrlToHttp
  <2>1. p = ProtocolAt
    BY <1>1, <1>3, <1>8 DEF BehindUrl, UrlToHttp, At
  <2>2. Byte \in Printable
    BY <1>3, <1>4, <2>1, SpellTyped, PartByte
  <2>3. Byte \notin {"HT", "FF"}
    BY <2>2, ByteKinds DEF Controls
  <2> DEFINE q == Matched(<<>>)
             r == UrlComplete
  <2>4. Move("req_http_start", 0, q, r)
    BY <1>8, <2>3 DEF UrlToHttp
  <2>5. SameSpan(q, request) /\ q.matched = <<>>
    BY <1>3, MatchedSame
  <2>6. /\ r.url = {request.buf["on_url"]} /\ r.buf = [request.buf EXCEPT !["on_url"] = <<>>]
        /\ r.method = request.method /\ r.headers = request.headers
        /\ r.version = request.version /\ r.is_header_complete = request.is_header_complete
    BY <1>3 DEF UrlComplete, RequestType
  <2> HIDE DEF q, r
  <2>7. "on_url" \in Callbacks
    BY DEF Callbacks
  <2>8. r.buf = Silent /\ r.url = {Wanted.url}
    BY <1>6, <2>6, <2>7, Sayings
  <2>9. HeardBy(q, r, p + 0) = Silent
    BY <1>5, <2>5, <2>8, Buffers DEF SameSpan
  <2>10. LineKept(q, r)
    BY <1>1, <2>5, <2>6, KeptOn DEF SameSpan
  <2>11. UrlRead(q, r)
    BY <1>2, <2>5, <2>6, <2>8 DEF UrlRead, MethodRead, SameSpan
  <2>12. OnProtocol("req_http_start", p + 0, q, r, Silent)
    <3>1. p \in ProtocolAt .. VersionAt - 1 /\ From(ProtocolAt, p) = <<>>
      BY <1>4, <2>1, FromEmpty
    <3> QED
      BY <1>2, <1>3, <2>5, <2>6, <2>11, <3>1 DEF OnProtocol
  <2> QED
    BY <2>4, <2>9, <2>10, <2>12, LineGoes DEF LineOn
<1> QED
  BY <1>7, <1>8

-----------------------------------------------------------------------------
(* The protocol.                                                           *)
LEMMA ProtocolGoes ==
  ASSUME Ready("req_http_start"), ReqHttpStart PROVE Goes
<1> DEFINE h == HeardBy(parser, request, p)
           word == Spell["HTTP/"]
           s == Append(parser.matched, Byte)
           n == Len(word)
           k == p + 1 - ProtocolAt
<1>1. /\ LineKept(parser, request)
      /\ OnProtocol("req_http_start", p, parser, request, h)
  BY PlacedInLine
<1>2. /\ p \in ProtocolAt .. VersionAt - 1 /\ parser.matched = From(ProtocolAt, p)
      /\ UrlRead(parser, request) /\ request.version = {} /\ h = Silent
  BY <1>1 DEF OnProtocol
<1>3. /\ Described /\ Typed /\ stream \in Seq(Bytes) /\ p \in Nat /\ p <= Len(stream)
      /\ Len(stream) \in Nat /\ Byte = stream[p] /\ parser \in ParserType
  BY ReadyHere
<1>4. /\ ProtocolAt \in Nat /\ Lies(word, ProtocolAt) /\ word \in Seq(Bytes)
      /\ word \in Seq(Printable) /\ n \in Nat /\ VersionAt = ProtocolAt + n
      /\ 1 <= ProtocolAt /\ VersionAt \in Nat /\ VersionAt <= Len(stream)
  <2>1. 2 <= UrlAt /\ UrlAt < ProtocolAt /\ UrlAt \in Nat /\ ProtocolAt \in Nat
        /\ VersionAt + 4 <= Len(stream) /\ VersionAt \in Nat
    BY <1>3, LineLaid, LineWithin
  <2>2. 1 <= ProtocolAt /\ VersionAt <= Len(stream)
    BY <1>3, <2>1
  <2>3. Lies(word, ProtocolAt) /\ VersionAt = ProtocolAt + n
    BY <1>3, LineLaid
  <2>4. word \in Seq(Bytes) /\ word \in Seq(Printable) /\ n \in Nat
    BY SpellTyped, LenProperties
  <2> QED
    BY <2>1, <2>2, <2>3, <2>4
<1>5. parser.span.cb = "none"
  <2>1. "req_http_start" \in Between
    BY DEF Between
  <2> QED
    BY <2>1, ReadyHere, BetweenSpans
<1>6. s = From(ProtocolAt, p + 1)
  BY <1>2, <1>3, <1>4, FromMore
<1>7. k \in 1 .. n /\ ProtocolAt + k = p + 1
  <2> HIDE DEF n
  <2> QED
    BY <1>2, <1>3, <1>4
<1>9. Byte # "SP"
  <2>1. ProtocolAt <= p /\ p < ProtocolAt + Len(word) /\ p \in Int
    BY <1>2, <1>4
  <2>2. Byte \in Printable
    BY <1>3, <1>4, <2>1, PartByte
  <2> QED
    BY <2>2, ByteKinds DEF Controls
<1>10. \A at : HeardBy(parser, request, at) = Silent
  BY <1>2, <1>5, HearNone
<1>11. "HTTP/" \in Protocols /\ \A v, w \in Protocols : ~IsStrictPrefix(Spell[v], Spell[w])
  BY SpellAssumption DEF SpellAssumption, Protocols, Begins
<1>12. s = SubSeq(word, 1, k) /\ (k = n => s = word)
  <2>1. k \in 0 .. n
    BY <1>7
  <2>2. ProtocolAt - 1 + Len(word) <= Len(stream)
    BY <1>4
  <2>3. \A j \in 0 .. Len(word) :
          /\ From(ProtocolAt, ProtocolAt + j) = SubSeq(word, 1, j)
          /\ j = Len(word) => From(ProtocolAt, ProtocolAt + j) = word
    BY <1>3, <1>4, <2>2, AllBegin
  <2> QED
    BY <1>6, <1>7, <2>1, <2>3
<1> HIDE DEF h, s, n, k
<1>13. CASE k < n
  <2>1. IsStrictPrefix(s, word)
    <3>1. k \in 0 .. Len(word) /\ k < Len(word)
      BY <1>4, <1>7, <1>13 DEF n
    <3> QED
      BY <1>4, <1>12, <3>1, PrefixIs
  <2>2. Extends(s, Protocols)
    BY <1>11, <2>1 DEF Extends
  <2>3. Matches(s, Protocols) = {}
    BY <1>11, <2>1 DEF Matches
  <2>4. Move("req_http_start", 1, Matched(s), request)
    BY <1>9, <2>2, <2>3 DEF ReqHttpStart, s
  <2>5. SameSpan(Matched(s), request) /\ Matched(s).matched = s
    BY <1>3, MatchedSame
  <2>6. HeardBy(Matched(s), request, p + 1) = Silent
    BY <1>10, <2>5, HearSame DEF SameSpan
  <2>7. OnProtocol("req_http_start", p + 1, Matched(s), request, Silent)
    <3>1. p + 1 \in ProtocolAt .. VersionAt - 1
      BY <1>2, <1>3, <1>4, <1>7, <1>13
    <3> QED
      BY <1>2, <1>6, <2>5, <3>1 DEF OnProtocol, UrlRead, MethodRead, SameSpan
  <2>8. LineKept(Matched(s), request)
    BY <1>1, <2>5, KeptOn DEF SameSpan
  <2> QED
    BY <2>4, <2>6, <2>7, <2>8, LineGoes DEF LineOn
<1>14. CASE k = n
  <2>1. s = word
    BY <1>12, <1>14
  <2>2. ~Extends(s, Protocols)
    BY <1>11, <2>1 DEF Extends
  <2>3. "HTTP/" \in Matches(s, Protocols)
    BY <1>11, <2>1 DEF Matches
  <2>4. parser.method \in MethodsOf("HTTP/")
    BY <1>2 DEF UrlRead, MethodRead, MethodsOf
  <2> DEFINE q == [Spanned("on_version", p + 1) EXCEPT !.matched = <<>>]
  <2>5. Move("req_http_major", 1, q, request)
    BY <1>9, <2>2, <2>3, <2>4 DEF ReqHttpStart, s
  <2>6. /\ q.span = [cb |-> "on_version", from |-> p + 1] /\ q.error = parser.error
        /\ q.flags = parser.flags /\ q.method = parser.method
    BY <1>3 DEF Spanned, ParserType
  <2> HIDE DEF q
  <2>7. HeardBy(q, request, p + 1) = Silent
    <3>1. p + 1 \in Int /\ "on_version" \in Callbacks
      BY <1>3 DEF Callbacks
    <3> QED
      BY <1>3, <1>5, <1>10, <2>6, <3>1, HearBegin
  <2>8. p + 1 = VersionAt
    BY <1>4, <1>7, <1>14
  <2>9. OnVersion("req_http_major", p + 1, q, request, Silent)
    <3>1. From(VersionAt, VersionAt) = <<>> /\ "on_version" \in Callbacks
      BY <1>4, FromEmpty DEF Callbacks
    <3>2. Silent = Saying("on_version", From(VersionAt, VersionAt))
      BY <3>1, Sayings
    <3> QED
      BY <1>2, <2>6, <2>8, <3>2 DEF OnVersion, UrlRead, MethodRead
  <2>10. LineKept(q, request)
    BY <1>1, <2>6, KeptOn
  <2> QED
    BY <2>5, <2>7, <2>9, <2>10, LineGoes DEF LineOn
<1> QED
  BY <1>4, <1>7, <1>13, <1>14

-----------------------------------------------------------------------------
(* The version.                                                            *)
LEMMA TheVersion ==
  ASSUME Described
  PROVE  /\ Wanted.version[1] \in Digit /\ Wanted.version[2] = "." /\ Wanted.version[3] \in Digit
         /\ Supported(Value(Wanted.version[1]), Value(Wanted.version[3]))
         /\ stream[VersionAt] = Wanted.version[1] /\ stream[VersionAt + 1] = Wanted.version[2]
         /\ stream[VersionAt + 2] = Wanted.version[3]
         /\ From(VersionAt, VersionAt + 3) = Wanted.version
<1>1. PICK a \in Digit, b \in Digit :
        Wanted.version = <<a, ".", b>> /\ Supported(Value(a), Value(b))
  BY RequestsAssumption DEF RequestsAssumption, Described, Wanted, WellFormed
<1>2. Wanted.version[1] = a /\ Wanted.version[2] = "." /\ Wanted.version[3] = b
  BY <1>1
<1> DEFINE v == Wanted.version
<1>3. /\ Lies(v, VersionAt) /\ VersionAt \in Nat /\ v \in Seq(Bytes) /\ Len(v) = 3
      /\ stream \in Seq(Bytes) /\ 1 <= VersionAt /\ VersionAt - 1 + 3 <= Len(stream)
  <2>1. /\ VersionAt \in Nat /\ UrlAt \in Nat /\ ProtocolAt \in Nat /\ 2 <= UrlAt
        /\ UrlAt < ProtocolAt /\ ProtocolAt < VersionAt /\ VersionAt + 4 <= Len(stream)
        /\ Len(stream) \in Nat
    BY LineLaid, LineWithin
  <2>2. 1 <= VersionAt /\ VersionAt - 1 + 3 <= Len(stream)
    BY <2>1
  <2> QED
    BY <2>1, <2>2, Parts, LineLaid
<1> HIDE DEF v
<1>4. /\ VersionAt - 1 + 1 = VersionAt /\ VersionAt - 1 + 2 = VersionAt + 1
      /\ VersionAt - 1 + 3 = VersionAt + 2
      /\ 1 \in 1 .. 3 /\ 2 \in 1 .. 3 /\ 3 \in 1 .. 3
  BY <1>3
<1>5. stream[VersionAt] = v[1] /\ stream[VersionAt + 1] = v[2] /\ stream[VersionAt + 2] = v[3]
  BY <1>3, <1>4 DEF Lies
<1>6. From(VersionAt, VersionAt + 3) = v
  BY <1>3, AllRead
<1> QED
  BY <1>1, <1>2, <1>5, <1>6 DEF v

LEMMA VersionGoes ==
  ASSUME NEW a \in VersionNodes, Ready(a), ReqHttpMajor \/ ReqHttpDot \/ ReqHttpMinor
  PROVE  Goes
<1> DEFINE h == HeardBy(parser, request, p)
<1>1. LineKept(parser, request) /\ OnVersion(a, p, parser, request, h)
  BY PlacedInLine
<1>2. /\ UrlRead(parser, request) /\ request.version = {}
      /\ h = Saying("on_version", From(VersionAt, p))
      /\ p # VersionAt => parser.http_major = Value(Wanted.version[1])
  BY <1>1 DEF OnVersion
<1>3. /\ Described /\ Typed /\ cur = a /\ p \in Nat /\ Byte = stream[p] /\ p + 1 <= Len(stream) + 1
      /\ parser \in ParserType /\ SpanOf(a) = "on_version" /\ "on_version" \in Callbacks
      /\ Len(stream) \in Nat
  <2>1. Len(stream) \in Nat /\ p \in Nat /\ p + 1 <= endp /\ endp <= Len(stream) + 1 /\ endp \in Nat
    BY ReadyHere
  <2>2. p + 1 <= Len(stream) + 1
    BY <2>1
  <2> QED
    BY <2>2, ReadyHere, SpanTable DEF At, Callbacks
<1>4. VersionAt \in Nat /\ 1 <= VersionAt
  <2>1. /\ VersionAt \in Nat /\ UrlAt \in Nat /\ ProtocolAt \in Nat /\ 2 <= UrlAt
        /\ UrlAt < ProtocolAt /\ ProtocolAt < VersionAt
    BY <1>3, LineLaid, LineWithin
  <2> QED
    BY <2>1
<1>5. VersionAt <= p
  BY <1>1, <1>4 DEF OnVersion
<1>6. ASSUME NEW q, NEW r, SameSpan(q, r)
      PROVE  HeardBy(q, r, p + 1) = Saying("on_version", From(VersionAt, p + 1))
  <2>1. h["on_version"] = From(VersionAt, p)
    BY <1>2, <1>3, Sayings
  <2>2. HeardBy(q, r, p + 1) = [h EXCEPT !["on_version"] = From(VersionAt, p + 1)]
    BY <1>3, <1>4, <1>5, <1>6, <2>1, HearByte
  <2> QED
    BY <1>2, <1>3, <2>2, Sayings
<1> HIDE DEF h
<1>7. CASE ReqHttpMajor
  <2>1. p = VersionAt
    BY <1>1, <1>3, <1>7 DEF OnVersion, ReqHttpMajor, At
  <2>2. Byte = Wanted.version[1] /\ Byte \in Digit
    BY <1>3, <2>1, TheVersion
  <2> DEFINE q == [parser EXCEPT !.http_major = Value(Byte)]
  <2>3. Move("req_http_dot", 1, q, request)
    BY <1>7, <2>2 DEF ReqHttpMajor
  <2>4. SameSpan(q, request) /\ q.http_major = Value(Byte)
    BY <1>3 DEF SameSpan, ParserType
  <2> HIDE DEF q
  <2>5. OnVersion("req_http_dot", p + 1, q, request, Saying("on_version", From(VersionAt, p + 1)))
    BY <1>2, <2>1, <2>2, <2>4 DEF OnVersion, UrlRead, MethodRead, SameSpan
  <2>6. LineKept(q, request)
    BY <1>1, <2>4, KeptOn DEF SameSpan
  <2> QED
    BY <1>6, <2>3, <2>4, <2>5, <2>6, LineGoes DEF LineOn
<1>8. CASE ReqHttpDot
  <2>1. p = VersionAt + 1
    BY <1>1, <1>3, <1>8 DEF OnVersion, ReqHttpDot, At
  <2>2. Byte = "."
    BY <1>3, <2>1, TheVersion
  <2>3. Move("req_http_minor", 1, parser, request)
    BY <1>8, <2>2 DEF ReqHttpDot, Eat
  <2>4. p + 1 = VersionAt + 2 /\ p # VersionAt
    BY <1>4, <2>1
  <2>5. OnVersion("req_http_minor", p + 1, parser, request,
                  Saying("on_version", From(VersionAt, p + 1)))
    BY <1>2, <2>4 DEF OnVersion
  <2>6. SameSpan(parser, request)
    BY <1>3, MatchedSame
  <2> QED
    BY <1>1, <1>6, <2>3, <2>5, <2>6, LineGoes DEF LineOn
<1>9. CASE ReqHttpMinor
  <2>1. p = VersionAt + 2
    BY <1>1, <1>3, <1>9 DEF OnVersion, ReqHttpMinor, At
  <2>2. p # VersionAt /\ p + 1 = VersionAt + 3
    BY <1>4, <2>1
  <2>3. Byte \in Digit /\ Supported(parser.http_major, Value(Byte))
    BY <1>2, <1>3, <2>1, <2>2, TheVersion
  <2>4. VersionComplete /\ parser.method # "PRI"
    BY <1>2, <1>9, <2>3 DEF ReqHttpMinor, UrlRead, MethodRead, HttpMethods
  <2> DEFINE d == Delivered(p + 1)
             q == [Unspanned EXCEPT !.http_minor = Value(Byte)]
             r == [d EXCEPT !.version = {d.buf["on_version"]}, !.buf["on_version"] = <<>>]
  <2>5. Move("req_http_complete", 1, q, r)
    BY <2>4 DEF VersionComplete
  <2>6. d.buf = Saying("on_version", Wanted.version) /\ d \in RequestType /\ SameHead(request, d)
    <3>1. p + 1 \in Int /\ SameSpan(parser, request)
      BY <1>3, MatchedSame
    <3>2. d.buf = HeardBy(parser, request, p + 1) /\ d \in RequestType /\ SameHead(request, d)
      BY <1>3, <3>1, EndHears
    <3> QED
      BY <1>3, <1>6, <2>2, <3>1, <3>2, TheVersion
  <2>7. /\ r.buf = [d.buf EXCEPT !["on_version"] = <<>>] /\ r.version = {d.buf["on_version"]}
        /\ r.headers = request.headers /\ r.method = request.method /\ r.url = request.url
        /\ r.is_header_complete = request.is_header_complete
    BY <2>6 DEF RequestType, SameHead
  <2>8. /\ q.span.cb = "none" /\ q.method = parser.method /\ q.error = parser.error
        /\ q.flags = parser.flags
    BY <1>3 DEF Unspanned, NoSpan, ParserType
  <2> HIDE DEF d, q, r
  <2>9. r.buf = Silent /\ r.version = {Wanted.version}
    BY <1>3, <2>6, <2>7, Sayings
  <2>10. HeardBy(q, r, p + 1) = Silent
    BY <2>8, <2>9, Buffers
  <2>11. OnLineEnd("req_http_complete", p + 1, q, r, Silent)
    BY <1>2, <2>2, <2>7, <2>8, <2>9 DEF OnLineEnd, LineRead, UrlRead, MethodRead
  <2>12. LineKept(q, r)
    BY <1>1, <2>7, <2>8, KeptOn
  <2> QED
    BY <2>5, <2>10, <2>11, <2>12, LineGoes DEF LineOn
<1> QED
  BY <1>7, <1>8, <1>9

-----------------------------------------------------------------------------
(* The end of the line.                                                    *)

(* A line behind it begins with a name, or is the blank one.               *)
LEMMA HeaderByte ==
  ASSUME Described, NEW k \in 1 .. Count + 1
  PROVE  /\ HeaderAt(k) \in Nat /\ 1 <= HeaderAt(k)
         /\ k = Count + 1 => stream[HeaderAt(k)] = "CR"
         /\ k <= Count => stream[HeaderAt(k)] \in TokenByte
         /\ stream[HeaderAt(k)] \notin {"HT", "SP", "LF"}
<1>1. Count \in Nat
  BY Parts
<1>2. CASE k = Count + 1
  <2>1. HeaderAt(k) \in Nat /\ stream[HeaderAt(k)] = "CR" /\ VersionAt + 5 <= HeaderAt(k)
        /\ VersionAt \in Nat
    BY <1>2, LineLaid
  <2>2. 1 <= HeaderAt(k)
    BY <2>1
  <2> QED
    BY <1>1, <1>2, <2>1, <2>2
<1>3. CASE k <= Count
  <2> DEFINE s == Nth(k).name
             at == HeaderAt(k)
  <2>1. k \in 1 .. Count
    BY <1>1, <1>3
  <2>2. s \in Seq(TokenByte) /\ s # <<>>
    BY <2>1, HeadersAreOK DEF HeaderOK
  <2>3. at \in Nat /\ 1 <= at /\ Lies(s, at)
    BY <2>1, HeaderLaid DEF HeaderLies
  <2>4. 1 <= Len(s) /\ Len(s) \in Nat
    BY <2>2, NonEmpty
  <2>5. at \in Int /\ at <= at /\ at < at + Len(s)
    BY <2>3, <2>4
  <2>6. stream[at] \in TokenByte
    BY <2>2, <2>3, <2>5, PartByte
  <2> QED
    BY <1>1, <1>3, <2>3, <2>6, ByteKinds DEF Controls
<1> QED
  BY <1>1, <1>2, <1>3

LEMMA LineEndGoes ==
  ASSUME NEW a \in LineEndNodes, Ready(a), ReqHttpComplete \/ ReqHttpCompleteCrlf \/ HeadersStart
  PROVE  Goes
<1> DEFINE h == HeardBy(parser, request, p)
<1>1. LineKept(parser, request) /\ OnLineEnd(a, p, parser, request, h)
  BY PlacedInLine
<1>2. LineRead(parser, request) /\ h = Silent
  BY <1>1 DEF OnLineEnd
<1>3. /\ Described /\ cur = a /\ p \in Nat /\ Byte = stream[p] /\ p + 0 = p
      /\ VersionAt \in Nat
      /\ stream[VersionAt + 3] = "CR" /\ stream[VersionAt + 4] = "LF"
  BY ReadyHere, LineLaid DEF At
<1>4. parser.span.cb = "none"
  <2>1. a \in Between
    BY DEF LineEndNodes, Between
  <2> QED
    BY <2>1, ReadyHere, BetweenSpans
<1>5. \A at : HeardBy(parser, request, at) = Silent
  BY <1>2, <1>4, HearNone
<1> HIDE DEF h
<1>6. CASE ReqHttpComplete
  <2>1. p = VersionAt + 3
    BY <1>1, <1>3, <1>6 DEF OnLineEnd, ReqHttpComplete, At
  <2>2. Move("req_http_complete_crlf", 1, parser, request)
    BY <1>3, <1>6, <2>1 DEF ReqHttpComplete, Eat
  <2>3. OnLineEnd("req_http_complete_crlf", p + 1, parser, request, Silent)
    BY <1>2, <1>3, <2>1 DEF OnLineEnd
  <2> QED
    BY <1>1, <1>5, <2>2, <2>3, LineGoes DEF LineOn
<1>7. CASE ReqHttpCompleteCrlf
  <2>1. p = VersionAt + 4
    BY <1>1, <1>3, <1>7 DEF OnLineEnd, ReqHttpCompleteCrlf, At
  <2>2. Move("headers_start", 1, parser, request)
    BY <1>3, <1>7, <2>1 DEF ReqHttpCompleteCrlf, Eat
  <2>3. OnLineEnd("headers_start", p + 1, parser, request, Silent)
    BY <1>2, <1>3, <2>1 DEF OnLineEnd
  <2> QED
    BY <1>1, <1>5, <2>2, <2>3, LineGoes DEF LineOn
<1>8. CASE HeadersStart
  <2>1. p = VersionAt + 5
    BY <1>1, <1>3, <1>8 DEF OnLineEnd, HeadersStart, At
  <2>2. Count \in Nat /\ 1 \in 1 .. Count + 1
    BY <1>3, Parts
  <2>3. p = HeaderAt(1) /\ Byte # "SP"
    BY <1>3, <2>1, <2>2, FirstHeader, HeaderByte
  <2>4. Move("header_field_start", 0, parser, request)
    BY <1>8, <2>3 DEF HeadersStart, Goto
  <2>5. OnFieldStart("header_field_start", p + 0, parser, Silent, 1)
    <3>1. Lengths(parser, 1 - 1)
      BY <1>1 DEF Lengths, LineKept
    <3> QED
      BY <1>3, <2>3, <3>1 DEF OnFieldStart
  <2>6. InHeader("header_field_start", p + 0, parser, request, Silent, Taken, 1)
    <3>1. HeadersRead(request, Taken, 1 - 1) /\ parser.flags \cap Untold = {}
      BY <1>1 DEF LineKept
    <3> QED
      BY <1>1, <1>2, <2>5, <3>1 DEF InHeader, LineKept
  <2>7. Reading("header_field_start", p + 0, parser, request, HeardBy(parser, request, p + 0), Taken)
    BY <1>1, <1>5, <2>2, <2>6 DEF Reading, LineKept
  <2> QED
    BY <2>4, <2>7 DEF Goes
<1> QED
  BY <1>6, <1>7, <1>8

-----------------------------------------------------------------------------
(* On in a header.                                                         *)
HeaderKept(q, r, k) ==
  /\ q.error = "OK" /\ LineRead(q, r) /\ HeadersRead(r, Taken, k - 1)
  /\ ~r.is_header_complete /\ q.flags \cap Untold = {}
HeaderOn(node, at, q, h, k) ==
  \/ OnFieldStart(node, at, q, h, k) \/ OnName(node, at, q, h, k)
  \/ OnBlanks(node, at, q, h, k) \/ OnValue(node, at, q, h, k)
  \/ BehindValue(node, at, q, h, k)

LEMMA HeaderGoes ==
  ASSUME NEW k \in 1 .. Count + 1, NEW node, NEW j, NEW q, NEW r, Move(node, j, q, r),
         HeaderKept(q, r, k), HeaderOn(node, p + j, q, HeardBy(q, r, p + j), k)
  PROVE  Goes
<1>1. InHeader(node, p + j, q, r, HeardBy(q, r, p + j), Taken, k) /\ q.error = "OK"
  BY DEF HeaderKept, HeaderOn, InHeader
<1> QED
  BY <1>1 DEF Goes, Reading

LEMMA PlacedInHeader ==
  ASSUME NEW a, Ready(a)
  PROVE  LET h == HeardBy(parser, request, p)
         IN  /\ a \in {"header_field_start", "headers_almost_done"} =>
                  \E k \in 1 .. Count + 1 :
                    HeaderKept(parser, request, k) /\ OnFieldStart(a, p, parser, h, k)
             /\ a \in FieldNodes =>
                  \E k \in 1 .. Count + 1 :
                    HeaderKept(parser, request, k) /\ OnName(a, p, parser, h, k)
             /\ a \in BlankNodes =>
                  \E k \in 1 .. Count + 1 :
                    HeaderKept(parser, request, k) /\ OnBlanks(a, p, parser, h, k)
             /\ a \in PlainValueNodes =>
                  \E k \in 1 .. Count + 1 :
                    HeaderKept(parser, request, k) /\ OnValue(a, p, parser, h, k)
             /\ a \in BehindNodes =>
                  \E k \in 1 .. Count + 1 :
                    HeaderKept(parser, request, k) /\ BehindValue(a, p, parser, h, k)
             /\ a = "consume_content_length_1" => InBody(a, p, parser, request, h, Taken)
<1> DEFINE h == HeardBy(parser, request, p)
<1> HIDE DEF h
<1>1. \A k : InHeader(a, p, parser, request, h, Taken, k) => HeaderKept(parser, request, k)
  BY ReadyHere DEF InHeader, HeaderKept
<1>2. a \in {"header_field_start", "headers_almost_done"} =>
        /\ a \notin FieldNodes \cup BlankNodes \cup PlainValueNodes \cup BehindNodes
        /\ a # "consume_content_length_1"
  BY DEF FieldNodes, BlankNodes, PlainValueNodes, BehindNodes, OptionNodes
<1>3. a \in FieldNodes \cup BlankNodes \cup PlainValueNodes \cup BehindNodes
               \cup {"header_field_start", "headers_almost_done", "consume_content_length_1"} =>
        /\ a \notin SpaceNodes \cup UrlNodes \cup BehindUrlNodes \cup VersionNodes \cup LineEndNodes
        /\ a \notin {"start", "after_start_req", "req_http_start"}
  BY PlaceKinds
<1>4. a = "consume_content_length_1" =>
        a \notin FieldNodes \cup BlankNodes \cup PlainValueNodes \cup BehindNodes
  BY DEF FieldNodes, BlankNodes, PlainValueNodes, BehindNodes, OptionNodes
<1>5. \/ a \in SpaceNodes \cup UrlNodes \cup BehindUrlNodes \cup VersionNodes \cup LineEndNodes
                 \cup {"start", "after_start_req", "req_http_start"}
      \/ \E k \in 1 .. Count + 1 :
           /\ HeaderKept(parser, request, k)
           /\ \/ /\ a \in {"header_field_start", "headers_almost_done"}
                 /\ OnFieldStart(a, p, parser, h, k)
              \/ a \in FieldNodes /\ OnName(a, p, parser, h, k)
              \/ a \in BlankNodes /\ OnBlanks(a, p, parser, h, k)
              \/ a \in PlainValueNodes /\ OnValue(a, p, parser, h, k)
              \/ a \in BehindNodes /\ BehindValue(a, p, parser, h, k)
      \/ a = "consume_content_length_1" /\ InBody(a, p, parser, request, h, Taken)
  BY <1>1, Placed DEF h
<1>6. /\ a \in FieldNodes => a \notin BlankNodes \cup PlainValueNodes \cup BehindNodes
      /\ a \in BlankNodes => a \notin PlainValueNodes \cup BehindNodes
      /\ a \in PlainValueNodes => a \notin BehindNodes
  BY PlaceKinds
<1>7. a \in {"header_field_start", "headers_almost_done"} =>
        \E k \in 1 .. Count + 1 :
          HeaderKept(parser, request, k) /\ OnFieldStart(a, p, parser, h, k)
  BY <1>2, <1>3, <1>5
<1>8. a \in FieldNodes =>
        \E k \in 1 .. Count + 1 : HeaderKept(parser, request, k) /\ OnName(a, p, parser, h, k)
  BY <1>2, <1>3, <1>4, <1>5, <1>6
<1>9. a \in BlankNodes =>
        \E k \in 1 .. Count + 1 : HeaderKept(parser, request, k) /\ OnBlanks(a, p, parser, h, k)
  BY <1>2, <1>3, <1>4, <1>5, <1>6
<1>10. a \in PlainValueNodes =>
        \E k \in 1 .. Count + 1 : HeaderKept(parser, request, k) /\ OnValue(a, p, parser, h, k)
  BY <1>2, <1>3, <1>4, <1>5, <1>6
<1>11. a \in BehindNodes =>
        \E k \in 1 .. Count + 1 : HeaderKept(parser, request, k) /\ BehindValue(a, p, parser, h, k)
  BY <1>2, <1>3, <1>4, <1>5, <1>6
<1>12. a = "consume_content_length_1" => InBody(a, p, parser, request, h, Taken)
  BY <1>2, <1>3, <1>4, <1>5
<1> QED
  BY <1>7, <1>8, <1>9, <1>10, <1>11, <1>12 DEF h

-----------------------------------------------------------------------------
(* What an update keeps of what is known of the headers.                   *)
SameHeaders(q, r) ==
  /\ q.error = parser.error /\ q.flags = parser.flags /\ q.method = parser.method
  /\ r.method = request.method /\ r.url = request.url /\ r.version = request.version
  /\ r.headers = request.headers /\ r.is_header_complete = request.is_header_complete

LEMMA HeaderKeptOn ==
  ASSUME NEW k, HeaderKept(parser, request, k), NEW q, NEW r, SameHeaders(q, r)
  PROVE  HeaderKept(q, r, k)
  BY DEF HeaderKept, SameHeaders, LineRead, UrlRead, MethodRead, HeadersRead

LEMMA LengthsKept ==
  ASSUME NEW k, NEW q, q.flags = parser.flags, q.content_length = parser.content_length,
         Lengths(parser, k)
  PROVE  Lengths(q, k)
  BY DEF Lengths

(* The updates there are.                                                  *)
Untouched(q) ==
  /\ q.error = parser.error /\ q.flags = parser.flags /\ q.method = parser.method
  /\ q.content_length = parser.content_length

LEMMA UpdatesTouch ==
  ASSUME parser \in ParserType
  PROVE  /\ Untouched(parser)
         /\ \A s : /\ Untouched(Matched(s)) /\ Matched(s).span = parser.span
                   /\ Matched(s).matched = s /\ Matched(s).header_state = parser.header_state
         /\ \A s : /\ Untouched(InState(s)) /\ InState(s).span = parser.span
                   /\ InState(s).matched = <<>> /\ InState(s).header_state = s
         /\ /\ Untouched(Unspanned) /\ Unspanned.span.cb = "none"
            /\ Unspanned.header_state = parser.header_state
         /\ \A c, from : LET q == [Spanned(c, from) EXCEPT !.matched = <<>>]
                         IN  /\ Untouched(q) /\ q.span = [cb |-> c, from |-> from]
                             /\ q.matched = <<>> /\ q.header_state = parser.header_state
<1> USE DEF Untouched, ParserType
<1>1. \A s : /\ Untouched(Matched(s)) /\ Matched(s).span = parser.span
             /\ Matched(s).matched = s /\ Matched(s).header_state = parser.header_state
  BY DEF Matched
<1>2. \A s : /\ Untouched(InState(s)) /\ InState(s).span = parser.span
             /\ InState(s).matched = <<>> /\ InState(s).header_state = s
  BY DEF InState
<1>3. /\ Untouched(Unspanned) /\ Unspanned.span.cb = "none"
      /\ Unspanned.header_state = parser.header_state
  BY ClosedSpan DEF Unspanned
<1>4. \A c, from : LET q == [Spanned(c, from) EXCEPT !.matched = <<>>]
                   IN  /\ Untouched(q) /\ q.span = [cb |-> c, from |-> from]
                       /\ q.matched = <<>> /\ q.header_state = parser.header_state
  BY DEF Spanned
<1> QED
  BY <1>1, <1>2, <1>3, <1>4

LEMMA UntouchedKeeps ==
  ASSUME NEW q, Untouched(q)
  PROVE  /\ SameHeaders(q, request)
         /\ \A r : SameHead(request, r) => SameHeaders(q, r)
         /\ \A k : Lengths(parser, k) => Lengths(q, k)
  BY LengthsKept DEF Untouched, SameHeaders, SameHead

-----------------------------------------------------------------------------
(* Names, without their case.                                              *)
LEMMA LowerLaws ==
  ASSUME NEW s \in Seq(Bytes)
  PROVE  /\ LowerAll(s) \in Seq(Bytes) /\ Len(LowerAll(s)) = Len(s)
         /\ LowerAll(<<>>) = <<>>
         /\ \A b \in Bytes : LowerAll(Append(s, b)) = Append(LowerAll(s), LowerOf(b))
         /\ \A n \in 0 .. Len(s) : LowerAll(SubSeq(s, 1, n)) = SubSeq(LowerAll(s), 1, n)
<1>1. Len(s) \in Nat /\ \A i \in 1 .. Len(s) : s[i] \in Bytes
  BY LenProperties, ElementOfSeq
<1>2. ASSUME NEW t \in Seq(Bytes)
      PROVE  /\ LowerAll(t) \in Seq(Bytes) /\ Len(LowerAll(t)) = Len(t)
             /\ \A i \in 1 .. Len(t) : LowerAll(t)[i] = LowerOf(t[i])
  <2>1. Len(t) \in Nat /\ \A i \in 1 .. Len(t) : LowerOf(t[i]) \in Bytes
    BY LenProperties, ElementOfSeq, Alphabet
  <2> DEFINE L(i) == LowerOf(t[i])
             m == Len(t)
  <2>2. LowerAll(t) = [i \in 1 .. m |-> L(i)]
    BY DEF LowerAll
  <2>3. m \in Nat /\ \A i \in 1 .. m : L(i) \in Bytes
    BY <2>1
  <2> HIDE DEF L, m
  <2>4. /\ LowerAll(t) \in Seq(Bytes) /\ Len(LowerAll(t)) = m
        /\ \A i \in 1 .. m : LowerAll(t)[i] = L(i)
    BY <2>2, <2>3
  <2> QED
    BY <2>4 DEF L, m
<1>3. LowerAll(<<>>) = <<>>
  <2>1. <<>> \in Seq(Bytes) /\ Len(<<>>) = 0
    BY EmptySeq
  <2>2. LowerAll(<<>>) \in Seq(Bytes) /\ Len(LowerAll(<<>>)) = 0
    BY <1>2, <2>1
  <2> QED
    BY <2>2, EmptySeq
<1>4. ASSUME NEW b \in Bytes PROVE LowerAll(Append(s, b)) = Append(LowerAll(s), LowerOf(b))
  <2> DEFINE t == Append(s, b)
             u == Append(LowerAll(s), LowerOf(b))
             m == Len(s)
  <2>1. t \in Seq(Bytes) /\ Len(t) = m + 1 /\ t[m + 1] = b /\ \A i \in 1 .. m : t[i] = s[i]
    BY AppendProperties
  <2>2. /\ u \in Seq(Bytes) /\ Len(u) = m + 1 /\ u[m + 1] = LowerOf(b)
        /\ \A i \in 1 .. m : u[i] = LowerAll(s)[i]
    <3>1. LowerAll(s) \in Seq(Bytes) /\ Len(LowerAll(s)) = m /\ LowerOf(b) \in Bytes
      BY <1>2, Alphabet
    <3> QED
      BY <3>1, AppendProperties
  <2>3. m \in Nat
    BY <1>1
  <2> HIDE DEF t, u, m
  <2>4. /\ LowerAll(t) \in Seq(Bytes) /\ Len(LowerAll(t)) = m + 1
        /\ \A i \in 1 .. m + 1 : LowerAll(t)[i] = LowerOf(t[i])
    BY <1>2, <2>1
  <2>5. \A i \in 1 .. m : LowerAll(s)[i] = LowerOf(s[i])
    BY <1>2 DEF m
  <2>6. ASSUME NEW i \in 1 .. m + 1 PROVE LowerAll(t)[i] = u[i]
    <3>1. i = m + 1 \/ i \in 1 .. m
      BY <2>3
    <3> QED
      BY <2>1, <2>2, <2>4, <2>5, <3>1
  <2> QED
    BY <2>2, <2>4, <2>6, SeqEqual DEF t, u
<1>5. ASSUME NEW n \in 0 .. Len(s) PROVE LowerAll(SubSeq(s, 1, n)) = SubSeq(LowerAll(s), 1, n)
  <2> DEFINE t == SubSeq(s, 1, n)
             u == SubSeq(LowerAll(s), 1, n)
  <2>1. n \in Nat /\ \A i \in 1 .. n : i \in 1 .. Len(s)
    BY <1>1
  <2>2. t \in Seq(Bytes) /\ Len(t) = n /\ \A i \in 1 .. n : t[i] = s[i]
    <3>1. \A i \in 1 .. n : s[i] \in Bytes
      BY <1>1, <2>1
    <3> QED
      BY <2>1, <3>1, SubSeqProperties
  <2>3. u \in Seq(Bytes) /\ Len(u) = n /\ \A i \in 1 .. n : u[i] = LowerAll(s)[i]
    <3>1. \A i \in 1 .. n : LowerAll(s)[i] \in Bytes
      BY <1>1, <1>2, <2>1, Alphabet
    <3> QED
      BY <2>1, <3>1, SubSeqProperties
  <2>4. \A i \in 1 .. Len(s) : LowerAll(s)[i] = LowerOf(s[i])
    BY <1>2
  <2> HIDE DEF t, u
  <2>5. /\ LowerAll(t) \in Seq(Bytes) /\ Len(LowerAll(t)) = n
        /\ \A i \in 1 .. n : LowerAll(t)[i] = LowerOf(t[i])
    BY <1>2, <2>2
  <2>6. \A i \in 1 .. n : LowerAll(t)[i] = u[i]
    BY <2>1, <2>2, <2>3, <2>4, <2>5
  <2> QED
    BY <2>3, <2>5, <2>6, SeqEqual DEF t, u
<1> QED
  BY <1>2, <1>3, <1>4, <1>5

-----------------------------------------------------------------------------
(* The beginning of a name that has been read.                             *)
LEMMA NameRead ==
  ASSUME Described, NEW k \in 1 .. Count, NEW at \in HeaderAt(k) .. ColonAt(k)
  PROVE  /\ From(HeaderAt(k), at) = SubSeq(Nth(k).name, 1, at - HeaderAt(k))
         /\ From(HeaderAt(k), at) \in Seq(Bytes)
         /\ at = ColonAt(k) => From(HeaderAt(k), at) = Nth(k).name
         /\ at < ColonAt(k) => stream[at] \in TokenByte
         /\ at - HeaderAt(k) \in 0 .. Len(Nth(k).name)
         /\ at < ColonAt(k) <=> at - HeaderAt(k) < Len(Nth(k).name)
<1> DEFINE s == Nth(k).name
           n == Len(s)
           lo == HeaderAt(k)
           j == at - lo
<1>1. s \in Seq(Bytes) /\ n \in Nat /\ s \in Seq(TokenByte)
  BY Parts, HeadersAreOK, LenProperties DEF HeaderOK
<1>2. /\ lo \in Nat /\ 1 <= lo /\ ColonAt(k) = lo + n /\ ColonAt(k) \in Nat /\ Lies(s, lo)
      /\ ValueEnd(k) \in Nat /\ ColonAt(k) <= ValueEnd(k) /\ ValueEnd(k) <= Len(stream)
  <2>1. /\ lo \in Nat /\ 1 <= lo /\ ColonAt(k) = lo + n /\ ColonAt(k) \in Nat /\ Lies(s, lo)
        /\ ValueEnd(k) \in Nat /\ ValueAt(k) = ColonAt(k) + 2 /\ ValueAt(k) \in Nat
        /\ ValueEnd(k) = ValueAt(k) + Len(Nth(k).value)
        /\ HeaderAt(k + 1) = ValueEnd(k) + 2 /\ HeaderAt(k + 1) <= HeaderAt(Count + 1)
    BY HeaderLaid DEF HeaderLies
  <2>2. Len(Nth(k).value) \in Nat
    BY Parts, LenProperties
  <2>3. ColonAt(k) <= ValueEnd(k)
    <3> DEFINE m == Len(Nth(k).value)
    <3>1. m \in Nat /\ ColonAt(k) \in Nat /\ ValueEnd(k) = (ColonAt(k) + 2) + m
      BY <2>1, <2>2
    <3> HIDE DEF m
    <3> QED
      BY <3>1
  <2>4. ValueEnd(k) <= Len(stream)
    <3>1. BodyAt = HeaderAt(Count + 1) + 2 /\ BodyAt <= Len(stream) + 1
          /\ HeaderAt(Count + 1) \in Nat /\ Len(stream) \in Nat
      BY LineLaid, Parts
    <3> QED
      BY <2>1, <3>1
  <2> QED
    BY <2>1, <2>3, <2>4
<1>3. stream \in Seq(Bytes) /\ Len(stream) \in Nat
  BY Parts
<1> HIDE DEF s, n, lo
<1>4. /\ j \in 0 .. n /\ lo + j = at /\ (at = ColonAt(k) <=> j = n) /\ (at < ColonAt(k) <=> j < n)
      /\ lo - 1 + n <= Len(stream)
  BY <1>1, <1>2, <1>3 DEF lo
<1>6. From(lo, at) \in Seq(Bytes)
  <2>1. at - 1 \in Int /\ at - 1 <= Len(stream)
    BY <1>2, <1>3, <1>4
  <2> QED
    BY <1>2, <1>3, <2>1, StretchTyped DEF From
<1>7. ASSUME at < ColonAt(k) PROVE stream[at] \in TokenByte
  <2>1. lo <= at /\ at < lo + Len(s) /\ at \in Int
    BY <1>2, <1>4, <1>7 DEF n
  <2> QED
    BY <1>1, <1>2, <2>1, PartByte
<1>8. From(lo, lo + j) = SubSeq(s, 1, j) /\ (j = n => From(lo, lo + j) = s)
  <2>1. \A i \in 0 .. Len(s) : /\ From(lo, lo + i) = SubSeq(s, 1, i)
                               /\ i = Len(s) => From(lo, lo + i) = s
    <3>1. lo - 1 + Len(s) <= Len(stream)
      BY <1>4 DEF n
    <3> QED
      BY <1>1, <1>2, <1>3, <3>1, AllBegin
  <2> QED
    BY <1>4, <2>1 DEF n
<1> QED
  BY <1>4, <1>6, <1>7, <1>8 DEF s, n, lo

(* The beginnings of the name of a length.                                 *)
LEMMA LengthName ==
  ASSUME Described, NEW k \in 1 .. Count, NEW at \in HeaderAt(k) .. ColonAt(k), IsLength(Nth(k))
  PROVE  LET s == LowerAll(From(HeaderAt(k), at))
         IN  /\ at < ColonAt(k) => IsStrictPrefix(s, Spell["content_length"])
             /\ at = ColonAt(k) => s = Spell["content_length"]
<1> DEFINE name == Nth(k).name
           j == at - HeaderAt(k)
           t == LowerAll(name)
<1>1. /\ From(HeaderAt(k), at) = SubSeq(name, 1, j) /\ j \in 0 .. Len(name)
      /\ at = ColonAt(k) => From(HeaderAt(k), at) = name
      /\ at < ColonAt(k) <=> j < Len(name)
  BY NameRead
<1>2. name \in Seq(Bytes) /\ t = Spell["content_length"]
  BY Parts DEF IsLength
<1> HIDE DEF j, name
<1>3. t \in Seq(Bytes) /\ Len(t) = Len(name) /\ LowerAll(SubSeq(name, 1, j)) = SubSeq(t, 1, j)
  BY <1>1, <1>2, LowerLaws
<1>4. at < ColonAt(k) => IsStrictPrefix(LowerAll(From(HeaderAt(k), at)), t)
  <2> HIDE DEF t
  <2>1. j \in 0 .. Len(t) /\ (at < ColonAt(k) <=> j < Len(t))
    BY <1>1, <1>3
  <2>2. ASSUME j < Len(t) PROVE IsStrictPrefix(SubSeq(t, 1, j), t)
    BY <1>3, <2>1, <2>2, PrefixIs
  <2>3. LowerAll(From(HeaderAt(k), at)) = SubSeq(t, 1, j)
    BY <1>1, <1>3
  <2> QED
    BY <2>1, <2>2, <2>3
<1> QED
  BY <1>1, <1>2, <1>4

(* The parser is in a name.                                                *)
InName(k) ==
  /\ k \in 1 .. Count /\ p \in HeaderAt(k) .. ColonAt(k)
  /\ HeaderAt(k) \in Nat /\ 1 <= HeaderAt(k) /\ ColonAt(k) \in Nat
  /\ LowerAll(From(HeaderAt(k), p)) \in Seq(Bytes)
  /\ LowerAll(From(HeaderAt(k), p + 1))
       = Append(LowerAll(From(HeaderAt(k), p)), LowerOf(Byte))
  /\ p < ColonAt(k) => Byte \in TokenByte /\ p + 1 \in HeaderAt(k) .. ColonAt(k)
  /\ p = ColonAt(k) => Byte = ":" /\ From(HeaderAt(k), p) = Nth(k).name

LEMMA NameHere ==
  ASSUME NEW a \in FieldNodes, Ready(a), NEW k \in 1 .. Count + 1,
         OnName(a, p, parser, HeardBy(parser, request, p), k)
  PROVE  InName(k)
<1>1. k \in 1 .. Count /\ p \in HeaderAt(k) .. ColonAt(k)
  BY ReadyHere, Parts DEF OnName
<1>2. /\ Described /\ stream \in Seq(Bytes) /\ p \in Nat /\ Byte = stream[p] /\ Byte \in Bytes
      /\ p <= Len(stream)
  BY ReadyHere
<1>3. /\ HeaderAt(k) \in Nat /\ 1 <= HeaderAt(k) /\ ColonAt(k) \in Nat
      /\ stream[ColonAt(k)] = ":"
  BY <1>1, <1>2, HeaderLaid DEF HeaderLies
<1>4. From(HeaderAt(k), p) \in Seq(Bytes) /\ From(HeaderAt(k), p + 1) = Append(From(HeaderAt(k), p), stream[p])
  <2>1. HeaderAt(k) <= p
    BY <1>1, <1>2, <1>3
  <2> QED
    BY <1>2, <1>3, <2>1, FromMore
<1>5. /\ LowerAll(From(HeaderAt(k), p)) \in Seq(Bytes)
      /\ LowerAll(From(HeaderAt(k), p + 1))
           = Append(LowerAll(From(HeaderAt(k), p)), LowerOf(Byte))
  BY <1>2, <1>4, LowerLaws
<1>6. p < ColonAt(k) => Byte \in TokenByte /\ p + 1 \in HeaderAt(k) .. ColonAt(k)
  BY <1>1, <1>2, <1>3, NameRead
<1>7. p = ColonAt(k) => Byte = ":" /\ From(HeaderAt(k), p) = Nth(k).name
  BY <1>1, <1>2, <1>3, NameRead
<1> QED
  BY <1>1, <1>3, <1>5, <1>6, <1>7 DEF InName

(* On in the name, over k bytes more.                                      *)
LEMMA NameOn ==
  ASSUME NEW a \in FieldNodes, Ready(a), NEW k \in 1 .. Count + 1,
         HeaderKept(parser, request, k),
         OnName(a, p, parser, HeardBy(parser, request, p), k),
         NEW node, NEW j \in {0, 1}, NEW q, Move(node, j, q, request),
         Untouched(q), q.span = parser.span,
         j = 1 => p < ColonAt(k), NamePlace(node, p + j, q, k)
  PROVE  Goes
<1> DEFINE h == HeardBy(parser, request, p)
<1>1. InName(k)
  BY NameHere
<1>2. h = Saying("on_header_field", From(HeaderAt(k), p)) /\ Lengths(parser, k - 1) /\ k <= Count
  BY DEF OnName
<1>3. SpanOf(a) = "on_header_field" /\ "on_header_field" \in Callbacks /\ p + 0 = p /\ p \in Nat
  BY ReadyHere, SpanTable DEF Callbacks
<1>4. SameSpan(q, request)
  BY DEF Untouched, SameSpan
<1>5. HeardBy(q, request, p + j) = Saying("on_header_field", From(HeaderAt(k), p + j))
  <2>1. CASE j = 0
    BY <1>2, <1>3, <1>4, <2>1, HearSame DEF SameSpan
  <2>2. CASE j = 1
    <3>1. h["on_header_field"] = From(HeaderAt(k), p)
      BY <1>2, <1>3, Sayings
    <3>2. HeaderAt(k) \in Nat /\ 1 <= HeaderAt(k) /\ HeaderAt(k) <= p
      BY <1>1 DEF InName
    <3>3. HeardBy(q, request, p + 1) = [h EXCEPT !["on_header_field"] = From(HeaderAt(k), p + 1)]
      BY <1>3, <1>4, <3>1, <3>2, HearByte
    <3> QED
      BY <1>2, <1>3, <2>2, <3>3, Sayings
  <2> QED
    BY <2>1, <2>2
<1> HIDE DEF h
<1>6. p + j \in HeaderAt(k) .. ColonAt(k)
  BY <1>1, <1>3 DEF InName
<1>7. Lengths(q, k - 1) /\ HeaderKept(q, request, k)
  BY <1>2, UntouchedKeeps, HeaderKeptOn
<1>8. OnName(node, p + j, q, Saying("on_header_field", From(HeaderAt(k), p + j)), k)
  BY <1>2, <1>6, <1>7 DEF OnName
<1> QED
  BY <1>5, <1>7, <1>8, HeaderGoes DEF HeaderOn

-----------------------------------------------------------------------------
(* A header begins.                                                        *)
LEMMA FieldStartGoes ==
  ASSUME Ready("header_field_start"), HeaderFieldStart PROVE Goes
<1> DEFINE h == HeardBy(parser, request, p)
<1>1. PICK k \in 1 .. Count + 1 :
        HeaderKept(parser, request, k) /\ OnFieldStart("header_field_start", p, parser, h, k)
  BY PlacedInHeader
<1>2. p = HeaderAt(k) /\ h = Silent /\ Lengths(parser, k - 1)
  BY <1>1 DEF OnFieldStart
<1>3. /\ Described /\ Typed /\ Byte = stream[p] /\ p \in Nat /\ p + 0 = p /\ Count \in Nat
      /\ parser \in ParserType
  BY ReadyHere, Parts
<1>4. parser.span.cb = "none"
  <2>1. "header_field_start" \in Between
    BY DEF Between
  <2> QED
    BY <2>1, ReadyHere, BetweenSpans
<1> HIDE DEF h
<1>5. CASE k = Count + 1
  <2>1. Byte = "CR"
    BY <1>2, <1>3, <1>5, HeaderByte
  <2>2. Move("headers_almost_done", 1, parser, request)
    BY <2>1 DEF HeaderFieldStart, Eat
  <2>3. HeardBy(parser, request, p + 1) = Silent
    BY <1>2, <1>4, HearNone DEF h
  <2>4. OnFieldStart("headers_almost_done", p + 1, parser, Silent, k)
    BY <1>2, <1>5 DEF OnFieldStart
  <2> QED
    BY <1>1, <2>2, <2>3, <2>4, HeaderGoes DEF HeaderOn
<1>6. CASE k <= Count
  <2>1. Byte \notin {"CR", "LF"}
    BY <1>2, <1>3, <1>6, HeaderByte, ByteKinds DEF Controls
  <2> DEFINE q == [Spanned("on_header_field", p) EXCEPT !.matched = <<>>]
  <2>2. Move("header_field", 0, q, request)
    BY <2>1 DEF HeaderFieldStart
  <2>3. Untouched(q) /\ q.span = [cb |-> "on_header_field", from |-> p] /\ q.matched = <<>>
    BY <1>3, UpdatesTouch
  <2> HIDE DEF q
  <2>4. "on_header_field" \in Callbacks /\ p \in Int
    BY <1>3 DEF Callbacks
  <2>5. HeardBy(q, request, p) = Silent
    BY <1>2, <1>3, <1>4, <2>3, <2>4, HearBegin DEF h
  <2>6. From(HeaderAt(k), p) = <<>> /\ LowerAll(<<>>) = <<>>
    <3>1. <<>> \in Seq(Bytes)
      BY EmptySeq
    <3> QED
      BY <1>2, <2>4, <3>1, FromEmpty, LowerLaws
  <2>7. Silent = Saying("on_header_field", From(HeaderAt(k), p))
    BY <2>4, <2>6, Sayings
  <2>8. p \in HeaderAt(k) .. ColonAt(k) /\ p < ColonAt(k)
    <3>1. k \in 1 .. Count
      BY <1>3, <1>6
    <3>2. Nth(k).name \in Seq(TokenByte) /\ Nth(k).name # <<>>
      BY <1>3, <3>1, HeadersAreOK DEF HeaderOK
    <3>3. 1 <= Len(Nth(k).name) /\ Len(Nth(k).name) \in Nat
      BY <3>2, NonEmpty
    <3>4. ColonAt(k) = HeaderAt(k) + Len(Nth(k).name) /\ ColonAt(k) \in Nat /\ HeaderAt(k) \in Nat
      BY <1>3, <3>1, HeaderLaid
    <3> QED
      BY <1>2, <1>3, <3>3, <3>4
  <2>9. OnName("header_field", p, q, Silent, k)
    <3>1. Lengths(q, k - 1)
      BY <1>2, <2>3, UntouchedKeeps
    <3>2. NamePlace("header_field", p, q, k)
      BY <2>3, <2>6, <2>8 DEF NamePlace
    <3> QED
      BY <1>6, <2>7, <2>8, <3>1, <3>2 DEF OnName
  <2>10. HeaderKept(q, request, k)
    BY <1>1, <2>3, UntouchedKeeps, HeaderKeptOn
  <2> QED
    BY <1>3, <2>2, <2>5, <2>9, <2>10, HeaderGoes DEF HeaderOn
<1> QED
  BY <1>3, <1>5, <1>6

-----------------------------------------------------------------------------
(* The names that the parser knows.                                        *)
LEMMA FieldWords ==
  LET words == DOMAIN FieldState \cap DOMAIN Spell
  IN  /\ words = DOMAIN FieldState /\ "content_length" \in words
      /\ \A w \in words : Spell[w] \in Seq(TokenByte)
      /\ \A v, w \in words : (Spell[v] = Spell[w] => v = w) /\ ~IsStrictPrefix(Spell[v], Spell[w])
      /\ FieldState["content_length"] = "CONTENT_LENGTH"
      /\ \A w \in words : w # "content_length" => FieldState[w] # "CONTENT_LENGTH"
      /\ \A w \in words : w \notin {"transfer_encoding", "upgrade"}
                            => FieldState[w] \in {"CONNECTION", "CONTENT_LENGTH"}
<1> DEFINE words == DOMAIN FieldState \cap DOMAIN Spell
<1>1. words = DOMAIN FieldState
  BY SpellAssumption DEF SpellAssumption
<1>2. /\ DOMAIN FieldState = {"connection", "proxy_connection", "content_length",
                              "transfer_encoding", "upgrade"}
      /\ FieldState["content_length"] = "CONTENT_LENGTH"
      /\ FieldState["connection"] = "CONNECTION" /\ FieldState["proxy_connection"] = "CONNECTION"
      /\ FieldState["transfer_encoding"] = "TRANSFER_ENCODING"
      /\ FieldState["upgrade"] = "UPGRADE"
  BY DEF FieldState
<1>3. \A w \in words : Spell[w] \in Seq(TokenByte)
  BY SpellAssumption DEF SpellAssumption
<1>4. \A v, w \in words : (Spell[v] = Spell[w] => v = w) /\ ~IsStrictPrefix(Spell[v], Spell[w])
  BY SpellAssumption DEF SpellAssumption, Begins
<1> HIDE DEF words
<1>5. /\ \A w \in words : w # "content_length" => FieldState[w] # "CONTENT_LENGTH"
      /\ \A w \in words : w \notin {"transfer_encoding", "upgrade"}
                            => FieldState[w] \in {"CONNECTION", "CONTENT_LENGTH"}
      /\ "content_length" \in words
  BY <1>1, <1>2
<1> QED
  BY <1>1, <1>2, <1>3, <1>4, <1>5 DEF words

(* A name ends before its colon.                                           *)
LEMMA NameEnds ==
  ASSUME NEW a \in FieldNodes, Ready(a), NEW k \in 1 .. Count + 1,
         HeaderKept(parser, request, k),
         OnName(a, p, parser, HeardBy(parser, request, p), k),
         p = ColonAt(k), Labelled(parser, k), FieldComplete
  PROVE  Goes
<1> DEFINE d == Delivered(p)
           q == Unspanned
           s == Saying("on_header_field", Nth(k).name)
<1>1. InName(k)
  BY NameHere
<1>2. /\ HeardBy(parser, request, p) = s /\ Lengths(parser, k - 1) /\ k <= Count
  BY <1>1 DEF OnName, InName
<1>3. /\ parser.header_state # "TRANSFER_ENCODING" /\ "F_TRANSFER_ENCODING" \notin parser.flags
  BY DEF Labelled, OptionStates, HeaderKept, Untold
<1>4. Move("header_value_discard_ws", 1, q, d)
  BY <1>3 DEF FieldComplete, EndSpan
<1>5. /\ parser \in ParserType /\ p \in Int /\ p <= Len(stream) + 1 /\ p \in Nat /\ Described
  BY ReadyHere
<1>6. SpanOf(a) \in Callbacks
  BY ReadyHere, SpanTable DEF Callbacks
<1>7. /\ d.buf = s /\ d.buf \in [Callbacks -> Seq(Bytes)] /\ SameHead(request, d)
  BY <1>2, <1>5, <1>6, EndHears
<1>8. Untouched(q) /\ q.span.cb = "none" /\ q.header_state = parser.header_state
  BY <1>5, UpdatesTouch
<1> HIDE DEF d, q, s
<1>9. HeardBy(q, d, p + 1) = s
  BY <1>7, <1>8, Buffers
<1>10. Lengths(q, k - 1) /\ HeaderKept(q, d, k)
  BY <1>2, <1>7, <1>8, UntouchedKeeps, HeaderKeptOn
<1>11. p + 1 = ValueAt(k) - 1 /\ ValueAt(k) \in Nat
  BY <1>1, <1>5, HeaderLaid DEF InName
<1>12. OnBlanks("header_value_discard_ws", p + 1, q, s, k)
  <2>1. Labelled(q, k)
    BY <1>8 DEF Labelled
  <2>2. p + 1 \in ValueAt(k) - 1 .. ValueAt(k)
    BY <1>5, <1>11
  <2> QED
    BY <1>2, <1>10, <2>1, <2>2 DEF OnBlanks, s
<1> QED
  BY <1>4, <1>9, <1>10, <1>12, HeaderGoes DEF HeaderOn

-----------------------------------------------------------------------------
LEMMA HeaderFieldGoes ==
  ASSUME Ready("header_field"), HeaderField PROVE Goes
<1> DEFINE words == DOMAIN FieldState \cap DOMAIN Spell
           s == Append(parser.matched, LowerOf(Byte))
           cl == "content_length"
<1>1. "header_field" \in FieldNodes
  BY DEF FieldNodes
<1>2. PICK k \in 1 .. Count + 1 :
        /\ HeaderKept(parser, request, k)
        /\ OnName("header_field", p, parser, HeardBy(parser, request, p), k)
  BY <1>1, PlacedInHeader
<1>3. InName(k)
  BY <1>1, <1>2, NameHere
<1>4. /\ parser.matched = LowerAll(From(HeaderAt(k), p))
      /\ IsLength(Nth(k)) => p < ColonAt(k)
  BY <1>2 DEF OnName, NamePlace
<1>5. /\ parser.matched \in Seq(Bytes) /\ s = LowerAll(From(HeaderAt(k), p + 1))
      /\ k \in 1 .. Count
  BY <1>3, <1>4 DEF InName
<1>6. /\ Described /\ parser \in ParserType /\ p + 0 = p /\ p \in Nat
  BY ReadyHere
<1>7. ASSUME NEW w \in words, IsStrictPrefix(s, Spell[w]) \/ Spell[w] = s
      PROVE  p < ColonAt(k)
  <2>1. Spell[w] \in Seq(TokenByte)
    BY FieldWords
  <2>2. LowerOf(Byte) \in TokenByte
    <3> HIDE DEF words
    <3> QED
      BY <1>5, <1>7, <2>1, WordByte
  <2>3. p # ColonAt(k)
    <3>1. LowerOf(":") \notin TokenByte
      BY ByteKinds DEF Punctuation
    <3> QED
      BY <1>3, <2>2, <3>1 DEF InName
  <2> QED
    BY <1>3, <1>6, <2>3 DEF InName
<1>8. /\ IsLength(Nth(k)) /\ p < ColonAt(k) =>
           \/ IsStrictPrefix(s, Spell[cl]) /\ p + 1 < ColonAt(k)
           \/ s = Spell[cl] /\ p + 1 = ColonAt(k)
  <2> SUFFICES ASSUME IsLength(Nth(k)), p < ColonAt(k)
               PROVE  \/ IsStrictPrefix(s, Spell[cl]) /\ p + 1 < ColonAt(k)
                      \/ s = Spell[cl] /\ p + 1 = ColonAt(k)
    OBVIOUS
  <2>1. p + 1 \in HeaderAt(k) .. ColonAt(k)
    BY <1>3 DEF InName
  <2>2. /\ p + 1 < ColonAt(k) => IsStrictPrefix(s, Spell[cl])
        /\ p + 1 = ColonAt(k) => s = Spell[cl]
    <3> DEFINE b == p + 1
    <3>1. b \in HeaderAt(k) .. ColonAt(k) /\ s = LowerAll(From(HeaderAt(k), b))
      BY <1>5, <2>1
    <3> HIDE DEF b, s
    <3>2. /\ b < ColonAt(k) => IsStrictPrefix(s, Spell[cl])
          /\ b = ColonAt(k) => s = Spell[cl]
      BY <1>5, <1>6, <3>1, LengthName
    <3> QED
      BY <3>2 DEF b
  <2>3. p + 1 < ColonAt(k) \/ p + 1 = ColonAt(k)
    <3>1. HeaderAt(k) \in Nat /\ ColonAt(k) \in Nat
      BY <1>3 DEF InName
    <3> QED
      BY <1>6, <3>1, <2>1
  <2> QED
    BY <2>2, <2>3
<1> HIDE DEF s
<1>9. ASSUME Extends(s, words), Move("header_field", 1, Matched(s), request) PROVE Goes
  <2>1. PICK w \in words : IsStrictPrefix(s, Spell[w])
    BY <1>9 DEF Extends
  <2>2. p < ColonAt(k)
    BY <1>7, <2>1
  <2>3. IsLength(Nth(k)) => p + 1 < ColonAt(k)
    BY <1>8, <2>1, <2>2, FieldWords
  <2> DEFINE q == Matched(s)
  <2>4. Untouched(q) /\ q.span = parser.span /\ q.matched = s
    BY <1>6, UpdatesTouch
  <2>5. Move("header_field", 1, q, request)
    BY <1>9
  <2> HIDE DEF q
  <2>6. NamePlace("header_field", p + 1, q, k)
    BY <1>5, <2>3, <2>4 DEF NamePlace
  <2> QED
    BY <1>1, <1>2, <2>2, <2>4, <2>5, <2>6, NameOn
<1>10. ASSUME NEW w \in Matches(s, words),
              Move("header_field_colon", 1, InState(FieldState[w]), request)
       PROVE  Goes
  <2>1. w \in words /\ Spell[w] = s
    BY DEF Matches
  <2>2. p < ColonAt(k)
    BY <1>7, <2>1
  <2> DEFINE q == InState(FieldState[w])
  <2>3. Untouched(q) /\ q.span = parser.span /\ q.header_state = FieldState[w]
    BY <1>6, UpdatesTouch
  <2>4. Move("header_field_colon", 1, q, request)
    BY <1>10
  <2> HIDE DEF q
  <2>5. NamePlace("header_field_colon", p + 1, q, k)
    BY <1>5, <2>1, <2>3 DEF NamePlace
  <2> QED
    BY <1>1, <1>2, <2>2, <2>3, <2>4, <2>5, NameOn
<1>11. ASSUME ~Extends(s, words), Matches(s, words) = {},
              Move("header_field_general", 0, InState("GENERAL"), request)
       PROVE  Goes
  <2>1. cl \in words
    BY FieldWords
  <2>2. ~IsLength(Nth(k))
    BY <1>4, <1>8, <1>11, <2>1 DEF Extends, Matches
  <2> DEFINE q == InState("GENERAL")
  <2>3. Untouched(q) /\ q.span = parser.span /\ q.header_state = "GENERAL"
    BY <1>6, UpdatesTouch
  <2>4. Move("header_field_general", 0, q, request)
    BY <1>11
  <2> HIDE DEF q
  <2>5. NamePlace("header_field_general", p + 0, q, k)
    BY <2>2, <2>3 DEF NamePlace
  <2> QED
    BY <1>1, <1>2, <2>3, <2>4, <2>5, NameOn
<1> QED
  BY <1>9, <1>10, <1>11 DEF HeaderField, s

LEMMA FieldColonGoes ==
  ASSUME Ready("header_field_colon"), HeaderFieldColon PROVE Goes
<1>1. "header_field_colon" \in FieldNodes
  BY DEF FieldNodes
<1>2. PICK k \in 1 .. Count + 1 :
        /\ HeaderKept(parser, request, k)
        /\ OnName("header_field_colon", p, parser, HeardBy(parser, request, p), k)
  BY <1>1, PlacedInHeader
<1>3. InName(k)
  BY <1>1, <1>2, NameHere
<1>4. PICK w \in DOMAIN FieldState :
        parser.header_state = FieldState[w] /\ LowerAll(From(HeaderAt(k), p)) = Spell[w]
  BY <1>2 DEF OnName, NamePlace
<1>5. /\ Described /\ parser \in ParserType /\ p + 0 = p /\ p \in Nat
      /\ k \in 1 .. Count /\ p \in HeaderAt(k) .. ColonAt(k)
  BY <1>3, ReadyHere DEF InName
<1>6. CASE p < ColonAt(k)
  <2>1. Byte \in TokenByte
    BY <1>3, <1>6 DEF InName
  <2>2. Byte \notin {":", "SP"}
    BY <2>1, ByteKinds DEF Controls
  <2>3. Move("header_field_general", 0, InState("GENERAL"), request)
    BY <2>2 DEF HeaderFieldColon
  <2>4. ~IsLength(Nth(k))
    <3> SUFFICES ASSUME IsLength(Nth(k)) PROVE FALSE
      OBVIOUS
    <3>1. IsStrictPrefix(Spell[w], Spell["content_length"])
      BY <1>4, <1>5, <1>6, LengthName
    <3> QED
      BY <3>1, FieldWords
  <2> DEFINE q == InState("GENERAL")
  <2>5. Untouched(q) /\ q.span = parser.span /\ q.header_state = "GENERAL"
    BY <1>5, UpdatesTouch
  <2>6. Move("header_field_general", 0, q, request)
    BY <2>3
  <2> HIDE DEF q
  <2>7. NamePlace("header_field_general", p + 0, q, k)
    BY <2>4, <2>5 DEF NamePlace
  <2> QED
    BY <1>1, <1>2, <2>5, <2>6, <2>7, NameOn
<1>7. CASE p = ColonAt(k)
  <2>1. Byte = ":" /\ LowerAll(Nth(k).name) = Spell[w]
    BY <1>3, <1>4, <1>7 DEF InName
  <2>2. FieldComplete
    BY <2>1 DEF HeaderFieldColon
  <2>3. w \notin {"transfer_encoding", "upgrade"}
    BY <1>5, <2>1, HeadersAreOK DEF HeaderOK
  <2>4. w = "content_length" <=> IsLength(Nth(k))
    BY <2>1, FieldWords DEF IsLength
  <2>5. Labelled(parser, k)
    BY <1>4, <2>3, <2>4, FieldWords DEF Labelled
  <2> QED
    BY <1>1, <1>2, <1>7, <2>2, <2>5, NameEnds
<1>8. p < ColonAt(k) \/ p = ColonAt(k)
  BY <1>3, <1>5 DEF InName
<1> QED
  BY <1>6, <1>7, <1>8

LEMMA FieldGeneralGoes ==
  ASSUME Ready("header_field_general"), HeaderFieldGeneral PROVE Goes
<1>1. "header_field_general" \in FieldNodes
  BY DEF FieldNodes
<1>2. PICK k \in 1 .. Count + 1 :
        /\ HeaderKept(parser, request, k)
        /\ OnName("header_field_general", p, parser, HeardBy(parser, request, p), k)
  BY <1>1, PlacedInHeader
<1>3. InName(k)
  BY <1>1, <1>2, NameHere
<1>4. parser.header_state = "GENERAL" /\ ~IsLength(Nth(k))
  BY <1>2 DEF OnName, NamePlace
<1>5. /\ Described /\ parser \in ParserType /\ p \in Nat
      /\ k \in 1 .. Count /\ p \in HeaderAt(k) .. ColonAt(k)
  BY <1>3, ReadyHere DEF InName
<1>6. CASE p < ColonAt(k)
  <2>1. Byte \in TokenByte
    BY <1>3, <1>6 DEF InName
  <2>2. Move("header_field_general", 1, parser, request)
    BY <2>1, ByteKinds DEF HeaderFieldGeneral, Eat
  <2>3. Untouched(parser)
    BY <1>5, UpdatesTouch
  <2>4. NamePlace("header_field_general", p + 1, parser, k)
    BY <1>4 DEF NamePlace
  <2> QED
    BY <1>1, <1>2, <1>6, <2>2, <2>3, <2>4, NameOn
<1>7. CASE p = ColonAt(k)
  <2>1. Byte = ":"
    BY <1>3, <1>7 DEF InName
  <2>2. FieldComplete
    BY <2>1, ByteKinds DEF HeaderFieldGeneral
  <2>3. Labelled(parser, k)
    BY <1>4 DEF Labelled
  <2> QED
    BY <1>1, <1>2, <1>7, <2>2, <2>3, NameEnds
<1>8. p < ColonAt(k) \/ p = ColonAt(k)
  BY <1>3, <1>5 DEF InName
<1> QED
  BY <1>6, <1>7, <1>8

-----------------------------------------------------------------------------
(* No two headers have one name.                                           *)
LEMMA OneLengthEach ==
  ASSUME Described, NEW k \in 1 .. Count, NEW j \in 1 .. Count,
         IsLength(Nth(j)), IsLength(Nth(k))
  PROVE  j = k
  BY HeadersAreOK DEF IsLength

(* Up to a header that is no length the lengths are those before it.       *)
LEMMA LengthsUpTo ==
  ASSUME Described, NEW k \in 1 .. Count, NEW q, ~IsLength(Nth(k)), Lengths(q, k - 1)
  PROVE  Lengths(q, k)
<1>1. \A j : j \in 1 .. k => j \in 1 .. k - 1 \/ j = k
  OBVIOUS
<1>2. \A j : j \in 1 .. k - 1 => j \in 1 .. k
  OBVIOUS
<1> QED
  BY <1>1, <1>2 DEF Lengths

(* Before a header that is a length none is known.                         *)
LEMMA FirstLength ==
  ASSUME Described, NEW k \in 1 .. Count, NEW q, IsLength(Nth(k)), Lengths(q, k - 1)
  PROVE  "F_CONTENT_LENGTH" \notin q.flags
<1>1. Count \in Nat
  BY Parts
<1>2. ASSUME NEW j \in 1 .. k - 1, IsLength(Nth(j)) PROVE FALSE
  <2>1. j \in 1 .. Count /\ j # k
    BY <1>1
  <2> QED
    BY <1>2, <2>1, OneLengthEach
<1> QED
  BY <1>2 DEF Lengths

(* It is counted as it is written.                                         *)
LEMMA LengthRead ==
  ASSUME Described, NEW k \in 1 .. Count, NEW q, IsLength(Nth(k)),
         "F_CONTENT_LENGTH" \in q.flags, q.content_length = Number(Nth(k).value)
  PROVE  Lengths(q, k)
<1>1. Count \in Nat
  BY Parts
<1>2. \A j \in 1 .. k : j \in 1 .. Count
  BY <1>1
<1>3. \A j \in 1 .. k : IsLength(Nth(j)) => j = k
  BY <1>2, OneLengthEach
<1>4. k \in 1 .. k
  BY <1>1
<1> QED
  BY <1>3, <1>4 DEF Lengths

-----------------------------------------------------------------------------
(* What a value has told, and the header that it makes.                    *)
LEMMA CommittedFields ==
  ASSUME parser \in ParserType, NEW k, Labelled(parser, k)
  PROVE  /\ Committed.error = parser.error /\ Committed.method = parser.method
         /\ Committed.span = parser.span /\ Committed.content_length = parser.content_length
         /\ parser.flags \cap Untold = {} => Committed.flags \cap Untold = {}
         /\ "F_CONTENT_LENGTH" \in Committed.flags <=> "F_CONTENT_LENGTH" \in parser.flags
         /\ Labelled(Committed, k)
         /\ \A n : Lengths(parser, n) => Lengths(Committed, n)
<1>1. /\ Committed.error = parser.error /\ Committed.method = parser.method
      /\ Committed.span = parser.span /\ Committed.content_length = parser.content_length
      /\ Committed.flags = parser.flags \cup FlagOf(parser.header_state)
      /\ Committed.header_state = IF parser.header_state \in OptionStates THEN "CONNECTION"
                                  ELSE parser.header_state
  BY DEF Committed, ParserType
<1>2. FlagOf(parser.header_state)
        \subseteq {"F_CONNECTION_KEEP_ALIVE", "F_CONNECTION_CLOSE", "F_CONNECTION_UPGRADE"}
  BY DEF FlagOf, Labelled, OptionStates
<1>3. /\ parser.flags \cap Untold = {} => Committed.flags \cap Untold = {}
      /\ "F_CONTENT_LENGTH" \in Committed.flags <=> "F_CONTENT_LENGTH" \in parser.flags
  BY <1>1, <1>2 DEF Untold
<1>4. Labelled(Committed, k)
  BY <1>1 DEF Labelled, OptionStates
<1>5. \A n : Lengths(parser, n) => Lengths(Committed, n)
  BY <1>1, <1>3 DEF Lengths
<1> QED
  BY <1>1, <1>3, <1>4, <1>5

LEMMA Inserted ==
  ASSUME Described, request \in RequestType, NEW k \in 1 .. Count, NEW n,
         HeadersRead(request, n, k - 1),
         request.buf = Valuing(Nth(k).name, Nth(k).value)
  PROVE  /\ HeadersRead(InsertHeader, n, k)
         /\ InsertHeader.buf = Silent
         /\ InsertHeader.is_header_complete = request.is_header_complete
         /\ InsertHeader.method = request.method /\ InsertHeader.url = request.url
         /\ InsertHeader.version = request.version
<1> DEFINE name == request.buf["on_header_field"]
           value == request.buf["on_header_value"]
           same == {h \in request.headers : LowerAll(h.name) = LowerAll(name)}
           new  == {[name  |-> m, value |-> value] :
                      m \in IF same = {} THEN {name} ELSE {h.name : h \in same}}
<1>1. name = Nth(k).name /\ value = Nth(k).value
  BY Sayings
<1>2. Nth(k) \in [name : Seq(Bytes), value : Seq(Bytes)] /\ Count \in Nat
  <2>1. Wanted.headers \in Seq([name : Seq(Bytes), value : Seq(Bytes)]) /\ Count \in Nat
    BY Parts
  <2> QED
    BY <2>1, ElementOfSeq DEF Nth, Count
<1>3. /\ InsertHeader.headers = (request.headers \ same) \cup new
      /\ InsertHeader.buf = [[request.buf EXCEPT !["on_header_field"] = <<>>]
                               EXCEPT !["on_header_value"] = <<>>]
      /\ InsertHeader.is_header_complete = request.is_header_complete
      /\ InsertHeader.method = request.method /\ InsertHeader.url = request.url
      /\ InsertHeader.version = request.version
  BY DEF InsertHeader, RequestType
<1>4. n \in 0 .. k - 1 /\ request.headers = {Nth(j) : j \in n + 1 .. k - 1}
  BY DEF HeadersRead
<1>5. same = {}
  <2> SUFFICES ASSUME NEW j \in n + 1 .. k - 1, LowerAll(Nth(j).name) = LowerAll(Nth(k).name)
               PROVE  FALSE
    BY <1>1, <1>4
  <2>1. j \in 1 .. Count /\ j # k
    BY <1>2, <1>4
  <2> QED
    BY <2>1, HeadersAreOK
<1>6. new = {Nth(k)}
  <2>1. [name |-> Nth(k).name, value |-> Nth(k).value] = Nth(k)
    BY <1>2
  <2>2. new = {[name  |-> m, value |-> value] : m \in {name}}
    BY <1>5
  <2> HIDE DEF name, value, new
  <2>3. new = {[name  |-> name, value |-> value]}
    BY <2>2
  <2> QED
    BY <1>1, <2>1, <2>3
<1> HIDE DEF name, value, same, new
<1>7. InsertHeader.headers = {Nth(j) : j \in n + 1 .. k}
  <2>1. InsertHeader.headers = {Nth(j) : j \in n + 1 .. k - 1} \cup {Nth(k)}
    BY <1>3, <1>4, <1>5, <1>6
  <2>2. \A j : j \in n + 1 .. k <=> (j \in n + 1 .. k - 1 \/ j = k)
    BY <1>2, <1>4
  <2> QED
    BY <2>1, <2>2
<1>8. n \in 0 .. k
  BY <1>4, <1>2
<1>9. InsertHeader.buf = Silent
  BY <1>3, Sayings
<1> QED
  BY <1>3, <1>7, <1>8, <1>9 DEF HeadersRead

(* A line that begins with no blank ends the header before it.             *)
LEMMA HeaderEnds ==
  ASSUME NEW a \in AroundValue, Ready(a), NEW k \in 1 .. Count, HeaderKept(parser, request, k),
         Labelled(parser, k), Lengths(parser, k), p = ValueEnd(k) + 2,
         HeardBy(parser, request, p) = Valuing(Nth(k).name, Nth(k).value),
         Move("header_field_start", 0, Committed, InsertHeader)
  PROVE  Goes
<1> DEFINE q == Committed
           r == InsertHeader
<1>1. /\ Described /\ Typed /\ parser \in ParserType /\ request \in RequestType /\ p \in Nat
      /\ parser.span.cb = "none" /\ p + 0 = p /\ parser.error = "OK"
  BY ReadyHere, SpanTable
<1>2. request.buf = Valuing(Nth(k).name, Nth(k).value)
  BY <1>1, HearBuffers
<1>3. HeadersRead(request, Taken, k - 1) /\ LineRead(parser, request) /\ ~request.is_header_complete
      /\ parser.flags \cap Untold = {}
  BY DEF HeaderKept
<1>4. /\ HeadersRead(r, Taken, k) /\ r.buf = Silent
      /\ r.is_header_complete = request.is_header_complete
      /\ r.method = request.method /\ r.url = request.url /\ r.version = request.version
  BY <1>1, <1>2, <1>3, Inserted
<1>5. /\ q.error = parser.error /\ q.method = parser.method /\ q.span = parser.span
      /\ q.flags \cap Untold = {} /\ Lengths(q, k)
  BY <1>1, <1>3, CommittedFields
<1>6. Move("header_field_start", 0, q, r)
  OBVIOUS
<1> HIDE DEF q, r
<1>7. HeardBy(q, r, p) = Silent
  <2>1. q.span.cb = "none" /\ r.buf \in [Callbacks -> Seq(Bytes)]
    BY <1>1, <1>4, <1>5, Buffers
  <2> QED
    BY <1>4, <2>1, Buffers
<1>8. Count \in Nat /\ k + 1 \in 1 .. Count + 1 /\ (k + 1) - 1 = k /\ p = HeaderAt(k + 1)
  <2>1. Count \in Nat /\ p = HeaderAt(k + 1)
    BY <1>1, Parts, HeaderLaid
  <2> QED
    BY <2>1
<1>9. HeaderKept(q, r, k + 1)
  BY <1>1, <1>3, <1>4, <1>5, <1>8 DEF HeaderKept, LineRead, UrlRead, MethodRead
<1>10. OnFieldStart("header_field_start", p + 0, q, Silent, k + 1)
  BY <1>1, <1>5, <1>8 DEF OnFieldStart
<1> QED
  BY <1>1, <1>6, <1>7, <1>8, <1>9, <1>10, HeaderGoes DEF HeaderOn

-----------------------------------------------------------------------------
(* Where the value of a header lies.                                       *)
LEMMA ValueLaid ==
  ASSUME Described, NEW k \in 1 .. Count
  PROVE  /\ ValueAt(k) \in Nat /\ 1 <= ValueAt(k) /\ ValueEnd(k) \in Nat
         /\ ValueAt(k) <= ValueEnd(k) /\ ValueEnd(k) + 2 <= Len(stream)
         /\ ValueEnd(k) = ValueAt(k) + Len(Nth(k).value)
         /\ Nth(k).value \in Seq(Text) /\ Lies(Nth(k).value, ValueAt(k))
         /\ stream[ValueAt(k) - 1] = "SP" /\ stream[ValueEnd(k)] = "CR"
         /\ stream[ValueEnd(k) + 1] = "LF" /\ HeaderAt(k + 1) = ValueEnd(k) + 2
         /\ stream[ValueEnd(k) + 2] \notin {"HT", "SP"}
         /\ Nth(k).value = <<>> <=> ValueAt(k) = ValueEnd(k)
<1> DEFINE m == Len(Nth(k).value)
           va == ValueAt(k)
           ve == ValueEnd(k)
           ca == ColonAt(k)
<1>1. Nth(k).value \in Seq(Text) /\ m \in Nat /\ (Nth(k).value = <<>> <=> m = 0)
  <2>1. Nth(k).value \in Seq(Text)
    BY HeadersAreOK DEF HeaderOK
  <2> QED
    BY <2>1, LenProperties, EmptySeq
<1>2. /\ ca \in Nat /\ va = ca + 2 /\ ve = va + m
      /\ HeaderAt(k + 1) = ve + 2 /\ HeaderAt(k + 1) <= HeaderAt(Count + 1)
      /\ Lies(Nth(k).value, va) /\ stream[ca + 1] = "SP"
      /\ stream[ve] = "CR" /\ stream[ve + 1] = "LF"
  BY HeaderLaid DEF HeaderLies
<1>3. /\ BodyAt = HeaderAt(Count + 1) + 2 /\ BodyAt <= Len(stream) + 1
      /\ HeaderAt(Count + 1) \in Nat /\ Len(stream) \in Nat /\ Count \in Nat
  BY LineLaid, Parts
<1>4. stream[HeaderAt(k + 1)] \notin {"HT", "SP"}
  <2>1. k + 1 \in 1 .. Count + 1
    BY <1>3
  <2> QED
    BY <2>1, HeaderByte
<1> HIDE DEF m, va, ve, ca
<1>5. va \in Nat /\ 1 <= va /\ ve \in Nat /\ va <= ve /\ (m = 0 <=> va = ve) /\ va - 1 = ca + 1
  BY <1>1, <1>2
<1>6. ve + 2 <= Len(stream)
  BY <1>2, <1>3, <1>5
<1> QED
  BY <1>1, <1>2, <1>4, <1>5, <1>6 DEF m, va, ve

(* How the value of any other header begins.                               *)
LEMMA Beginnings ==
  ASSUME NEW q, BeginValue(q), q.header_state \notin {"TRANSFER_ENCODING", "UPGRADE"}
  PROVE  LET u == [q EXCEPT !.span = [cb |-> "on_header_value", from |-> p],
                            !.matched = <<>>]
         IN  \/ /\ q.header_state = "CONTENT_LENGTH" /\ "F_CONTENT_LENGTH" \in q.flags
                /\ Fail("UNEXPECTED_CONTENT_LENGTH")
             \/ /\ q.header_state = "CONTENT_LENGTH" /\ "F_CONTENT_LENGTH" \notin q.flags
                /\ Move("header_value_content_length", 0, u, request)
             \/ q.header_state = "CONNECTION" /\ Move("header_value_connection", 0, u, request)
             \/ /\ q.header_state \in {"GENERAL", "TRANSFER_ENCODING_CHUNKED"} \cup OptionStates
                /\ Move("header_value", 0, u, request)
  BY DEF BeginValue

(* The value begins: what its states are depends on the header.            *)
LEMMA ValueStarts ==
  ASSUME Ready("header_value_discard_ws"), NEW k \in 1 .. Count,
         HeaderKept(parser, request, k),
         OnBlanks("header_value_discard_ws", p, parser, HeardBy(parser, request, p), k),
         p = ValueAt(k), BeginValue(parser)
  PROVE  Goes
<1> DEFINE u == [parser EXCEPT !.span = [cb |-> "on_header_value", from |-> p],
                               !.matched = <<>>]
           s == Saying("on_header_field", Nth(k).name)
<1>1. /\ Described /\ Typed /\ parser \in ParserType /\ p \in Int /\ p + 0 = p
      /\ parser.span.cb = "none"
  <2>1. "header_value_discard_ws" \in AroundValue
    BY DEF AroundValue
  <2> QED
    BY <2>1, ReadyHere, SpanTable
<1>2. /\ Labelled(parser, k) /\ Lengths(parser, k - 1)
      /\ HeardBy(parser, request, p) = s
  BY DEF OnBlanks
<1>3. /\ Untouched(u) /\ u.span = [cb |-> "on_header_value", from |-> p]
      /\ u.header_state = parser.header_state
  BY <1>1 DEF Untouched, ParserType
<1>4. \/ /\ parser.header_state = "CONTENT_LENGTH" /\ "F_CONTENT_LENGTH" \in parser.flags
         /\ Fail("UNEXPECTED_CONTENT_LENGTH")
      \/ /\ parser.header_state = "CONTENT_LENGTH" /\ "F_CONTENT_LENGTH" \notin parser.flags
         /\ Move("header_value_content_length", 0, u, request)
      \/ parser.header_state = "CONNECTION" /\ Move("header_value_connection", 0, u, request)
      \/ /\ parser.header_state \in {"GENERAL", "TRANSFER_ENCODING_CHUNKED"} \cup OptionStates
         /\ Move("header_value", 0, u, request)
  <2>1. parser.header_state \notin {"TRANSFER_ENCODING", "UPGRADE"}
    BY <1>2 DEF Labelled, OptionStates
  <2> QED
    BY <2>1, Beginnings
<1> HIDE DEF u, s
<1>5. \E node : /\ Move(node, 0, u, request)
                /\ \/ node \in {"header_value"} \cup OptionNodes /\ ~IsLength(Nth(k))
                   \/ node = "header_value_content_length" /\ IsLength(Nth(k))
  <2>1. CASE parser.header_state = "CONTENT_LENGTH"
    <3>1. IsLength(Nth(k))
      BY <1>2, <2>1 DEF Labelled
    <3>2. "F_CONTENT_LENGTH" \notin parser.flags
      BY <1>1, <1>2, <3>1, FirstLength
    <3> QED
      BY <1>4, <2>1, <3>1, <3>2 DEF OptionStates
  <2>2. CASE parser.header_state # "CONTENT_LENGTH"
    <3>1. ~IsLength(Nth(k))
      BY <1>2, <2>2 DEF Labelled
    <3> QED
      BY <1>4, <2>2, <3>1 DEF OptionNodes
  <2> QED
    BY <2>1, <2>2
<1>6. PICK node : /\ Move(node, 0, u, request)
                  /\ \/ node \in {"header_value"} \cup OptionNodes /\ ~IsLength(Nth(k))
                     \/ node = "header_value_content_length" /\ IsLength(Nth(k))
  BY <1>5
<1>7. HeardBy(u, request, p) = Valuing(Nth(k).name, From(ValueAt(k), p))
  <2>1. HeardBy(u, request, p) = s
    <3>1. "on_header_value" \in Callbacks
      BY DEF Callbacks
    <3> QED
      BY <1>1, <1>2, <1>3, <3>1, HearBegin
  <2>2. From(ValueAt(k), p) = <<>>
    BY <1>1, FromEmpty
  <2> QED
    BY <2>1, <2>2, Sayings DEF s
<1>8. Lengths(u, k - 1) /\ HeaderKept(u, request, k)
  BY <1>2, <1>3, UntouchedKeeps, HeaderKeptOn
<1>9. OnValue(node, p, u, Valuing(Nth(k).name, From(ValueAt(k), p)), k)
  <2>1. k <= Count /\ p \in ValueAt(k) .. ValueEnd(k)
    BY <1>1, ValueLaid
  <2>2. Labelled(u, k)
    BY <1>2, <1>3 DEF Labelled
  <2>3. ValuePlace(node, p, u, k)
    BY <1>6, <1>8 DEF ValuePlace
  <2> QED
    BY <2>1, <2>2, <2>3 DEF OnValue
<1> QED
  <2>1. k \in 1 .. Count + 1
    BY <1>1, Parts
  <2> QED
    BY <1>1, <1>6, <1>7, <1>8, <1>9, <2>1, HeaderGoes DEF HeaderOn

(* On in the blanks.                                                       *)
LEMMA BlankOn ==
  ASSUME NEW a \in AroundValue, Ready(a), NEW k \in 1 .. Count + 1,
         HeaderKept(parser, request, k), NEW h, h = HeardBy(parser, request, p),
         NEW node, Eat(node), HeaderOn(node, p + 1, parser, h, k)
  PROVE  Goes
<1>1. parser.span.cb = "none"
  BY ReadyHere, SpanTable
<1>2. HeardBy(parser, request, p + 1) = h
  BY <1>1, HearNone
<1> QED
  BY <1>2, HeaderGoes DEF Eat

LEMMA DiscardWsGoes ==
  ASSUME Ready("header_value_discard_ws"), HeaderValueDiscardWs PROVE Goes
<1> DEFINE a == "header_value_discard_ws"
           h == HeardBy(parser, request, p)
<1>1. a \in AroundValue /\ a \in BlankNodes
  BY DEF AroundValue, BlankNodes
<1>2. PICK k \in 1 .. Count + 1 :
        HeaderKept(parser, request, k) /\ OnBlanks(a, p, parser, h, k)
  BY <1>1, PlacedInHeader
<1>3. /\ Described /\ p \in Nat /\ Byte = stream[p] /\ k \in 1 .. Count
  BY <1>2, ReadyHere, Parts DEF OnBlanks
<1>4. /\ p \in ValueAt(k) - 1 .. ValueAt(k) /\ ValueAt(k) \in Nat /\ ValueEnd(k) \in Nat
  BY <1>2, <1>3, ValueLaid DEF OnBlanks
<1>5. /\ Labelled(parser, k) /\ Lengths(parser, k - 1) /\ k <= Count
      /\ h = Saying("on_header_field", Nth(k).name)
  BY <1>2 DEF OnBlanks
<1> HIDE DEF h
<1>6. CASE p = ValueAt(k) - 1
  <2>1. Byte = "SP"
    BY <1>3, <1>6, ValueLaid
  <2>2. Eat(a)
    BY <2>1 DEF HeaderValueDiscardWs, BeginValue
  <2>3. p + 1 \in ValueAt(k) - 1 .. ValueAt(k)
    BY <1>4, <1>6
  <2>4. OnBlanks(a, p + 1, parser, h, k)
    BY <1>5, <2>3 DEF OnBlanks
  <2> QED
    BY <1>1, <1>2, <2>2, <2>4, BlankOn DEF HeaderOn, h
<1>7. CASE p = ValueAt(k) /\ Nth(k).value = <<>>
  <2>1. Byte = "CR" /\ p = ValueEnd(k)
    BY <1>3, <1>7, ValueLaid
  <2>2. Eat("header_value_discard_ws_almost_done")
    BY <2>1 DEF HeaderValueDiscardWs, BeginValue
  <2>3. OnBlanks("header_value_discard_ws_almost_done", p + 1, parser, h, k)
    BY <1>5, <1>7, <2>1 DEF OnBlanks
  <2> QED
    BY <1>1, <1>2, <2>2, <2>3, BlankOn DEF HeaderOn, h
<1>8. CASE p = ValueAt(k) /\ Nth(k).value # <<>>
  <2>1. Byte \in Text /\ Byte \notin {"HT", "SP"}
    <3>1. Nth(k).value \in Seq(Text) /\ Lies(Nth(k).value, ValueAt(k))
          /\ Nth(k).value[1] \notin {"HT", "SP"}
      BY <1>3, <1>8, ValueLaid, HeadersAreOK DEF HeaderOK
    <3>2. 1 <= Len(Nth(k).value) /\ Len(Nth(k).value) \in Nat
      BY <1>8, <3>1, NonEmpty
    <3>3. p \in Int /\ ValueAt(k) <= p /\ p < ValueAt(k) + Len(Nth(k).value)
          /\ p - ValueAt(k) + 1 = 1
      BY <1>4, <1>8, <3>2
    <3>4. stream[p] \in Text /\ stream[p] = Nth(k).value[p - ValueAt(k) + 1]
      <4> DEFINE t == Nth(k).value
      <4>1. t \in Seq(Text) /\ Lies(t, ValueAt(k)) /\ p < ValueAt(k) + Len(t)
        BY <3>1, <3>3
      <4> HIDE DEF t
      <4>2. stream[p] \in Text /\ stream[p] = t[p - ValueAt(k) + 1]
        BY <1>4, <3>3, <4>1, PartByte
      <4> QED
        BY <4>2 DEF t
    <3> QED
      BY <1>3, <3>1, <3>3, <3>4
  <2>2. Byte \notin {"CR", "LF"}
    BY <2>1, ByteKinds
  <2>3. BeginValue(parser)
    BY <2>1, <2>2 DEF HeaderValueDiscardWs
  <2>4. OnBlanks(a, p, parser, HeardBy(parser, request, p), k)
    BY <1>2 DEF h
  <2> QED
    BY <1>2, <1>3, <1>8, <2>3, <2>4, ValueStarts
<1> QED
  BY <1>3, <1>4, <1>6, <1>7, <1>8

LEMMA DiscardEndGoes ==
  ASSUME Ready("header_value_discard_ws_almost_done"), HeaderValueDiscardWsAlmostDone PROVE Goes
<1> DEFINE a == "header_value_discard_ws_almost_done"
           h == HeardBy(parser, request, p)
<1>1. a \in AroundValue /\ a \in BlankNodes
  BY DEF AroundValue, BlankNodes
<1>2. PICK k \in 1 .. Count + 1 :
        HeaderKept(parser, request, k) /\ OnBlanks(a, p, parser, h, k)
  BY <1>1, PlacedInHeader
<1>3. /\ Described /\ p \in Nat /\ Byte = stream[p] /\ k \in 1 .. Count
  BY <1>2, ReadyHere, Parts DEF OnBlanks
<1>4. /\ p = ValueEnd(k) + 1 /\ Nth(k).value = <<>>
  BY <1>2 DEF OnBlanks
<1>5. /\ Labelled(parser, k) /\ Lengths(parser, k - 1) /\ k <= Count
      /\ h = Saying("on_header_field", Nth(k).name)
  BY <1>2 DEF OnBlanks
<1> HIDE DEF h
<1>6. Byte = "LF" /\ ValueEnd(k) \in Nat
  BY <1>3, <1>4, ValueLaid
<1>7. Eat("header_value_discard_lws")
  BY <1>6 DEF HeaderValueDiscardWsAlmostDone
<1>8. p + 1 = ValueEnd(k) + 2
  BY <1>4, <1>6
<1>9. OnBlanks("header_value_discard_lws", p + 1, parser, h, k)
  BY <1>4, <1>5, <1>8 DEF OnBlanks
<1> QED
  BY <1>1, <1>2, <1>7, <1>9, BlankOn DEF HeaderOn, h

LEMMA DiscardLwsGoes ==
  ASSUME Ready("header_value_discard_lws"), HeaderValueDiscardLws PROVE Goes
<1> DEFINE a == "header_value_discard_lws"
           h == HeardBy(parser, request, p)
<1>1. a \in AroundValue /\ a \in BlankNodes
  BY DEF AroundValue, BlankNodes
<1>2. PICK k \in 1 .. Count + 1 :
        HeaderKept(parser, request, k) /\ OnBlanks(a, p, parser, h, k)
  BY <1>1, PlacedInHeader
<1>3. /\ Described /\ p \in Nat /\ Byte = stream[p] /\ k \in 1 .. Count
  BY <1>2, ReadyHere, Parts DEF OnBlanks
<1>4. /\ p = ValueEnd(k) + 2 /\ Nth(k).value = <<>>
  BY <1>2 DEF OnBlanks
<1>5. /\ Labelled(parser, k) /\ Lengths(parser, k - 1) /\ k <= Count
      /\ h = Saying("on_header_field", Nth(k).name)
  BY <1>2 DEF OnBlanks
<1>6. ~IsLength(Nth(k))
  BY <1>3, <1>4, HeadersAreOK DEF HeaderOK
<1>7. Byte \notin {"HT", "SP"}
  BY <1>3, <1>4, ValueLaid
<1>8. Move("header_field_start", 0, Committed, InsertHeader)
  BY <1>5, <1>6, <1>7 DEF HeaderValueDiscardLws, Labelled
<1>9. Lengths(parser, k)
  BY <1>3, <1>5, <1>6, LengthsUpTo
<1>10. h = Valuing(Nth(k).name, Nth(k).value)
  BY <1>4, <1>5, Sayings
<1> QED
  BY <1>1, <1>2, <1>3, <1>4, <1>5, <1>8, <1>9, <1>10, HeaderEnds

-----------------------------------------------------------------------------
(* The parser is in a value.                                               *)
InValue(k) ==
  /\ k \in 1 .. Count /\ p \in ValueAt(k) .. ValueEnd(k)
  /\ ValueAt(k) \in Nat /\ 1 <= ValueAt(k) /\ ValueEnd(k) \in Nat
  /\ From(ValueAt(k), p) \in Seq(Bytes)
  /\ From(ValueAt(k), p + 1) = Append(From(ValueAt(k), p), Byte)
  /\ p < ValueEnd(k) =>
       /\ Byte \in Text /\ p + 1 \in ValueAt(k) .. ValueEnd(k)
       /\ IsLength(Nth(k)) => Byte \in Digit
  /\ p = ValueEnd(k) => Byte = "CR" /\ From(ValueAt(k), p) = Nth(k).value
  /\ p < ValueEnd(k) \/ p = ValueEnd(k)

LEMMA ValueHere ==
  ASSUME NEW a \in PlainValueNodes, Ready(a), NEW k \in 1 .. Count + 1,
         OnValue(a, p, parser, HeardBy(parser, request, p), k)
  PROVE  InValue(k)
<1> DEFINE t == Nth(k).value
           va == ValueAt(k)
           ve == ValueEnd(k)
<1>1. k \in 1 .. Count /\ p \in va .. ve
  BY ReadyHere, Parts DEF OnValue
<1>2. /\ Described /\ stream \in Seq(Bytes) /\ p \in Nat /\ Byte = stream[p] /\ Byte \in Bytes
      /\ p + 1 <= Len(stream) + 1 /\ Len(stream) \in Nat
  BY ReadyHere
<1>3. /\ va \in Nat /\ 1 <= va /\ ve \in Nat /\ va <= ve /\ ve + 2 <= Len(stream)
      /\ ve = va + Len(t) /\ t \in Seq(Text) /\ Lies(t, va) /\ stream[ve] = "CR"
  BY <1>1, <1>2, ValueLaid
<1>4. IsLength(Nth(k)) => t \in Seq(Digit)
  BY <1>1, <1>2, HeadersAreOK DEF HeaderOK
<1>5. t \in Seq(Bytes)
  BY <1>1, <1>2, Parts
<1> HIDE DEF t, va, ve
<1>6. p <= Len(stream) /\ va <= p
  BY <1>1, <1>2, <1>3
<1>7. From(va, p) \in Seq(Bytes) /\ From(va, p + 1) = Append(From(va, p), stream[p])
  BY <1>2, <1>3, <1>6, FromMore
<1>8. ASSUME p < ve
      PROVE  /\ Byte \in Text /\ p + 1 \in va .. ve
             /\ IsLength(Nth(k)) => Byte \in Digit
  <2>1. p \in Int /\ p < va + Len(t)
    BY <1>2, <1>3, <1>8
  <2>2. Byte \in Text
    BY <1>2, <1>3, <1>6, <2>1, PartByte
  <2>3. ASSUME IsLength(Nth(k)) PROVE Byte \in Digit
    BY <1>2, <1>3, <1>4, <1>6, <2>1, <2>3, PartByte
  <2>4. p + 1 \in va .. ve
    BY <1>2, <1>3, <1>6, <1>8
  <2> QED
    BY <2>2, <2>3, <2>4
<1>9. ASSUME p = ve PROVE Byte = "CR" /\ From(va, p) = t
  <2>1. va - 1 + Len(t) <= Len(stream)
    <3> DEFINE n == Len(t)
    <3>1. n \in Nat
      BY <1>5, LenProperties
    <3> HIDE DEF n
    <3>2. va - 1 + n <= Len(stream)
      BY <1>2, <1>3, <3>1 DEF n
    <3> QED
      BY <3>2 DEF n
  <2>2. From(va, va + Len(t)) = t
    BY <1>2, <1>3, <1>5, <2>1, AllRead
  <2> QED
    BY <1>2, <1>3, <1>9, <2>2
<1>10. p < ve \/ p = ve
  BY <1>1, <1>3
<1> QED
  BY <1>1, <1>2, <1>3, <1>7, <1>8, <1>9, <1>10 DEF InValue, t, va, ve

(* On in the value.                                                        *)
LEMMA ValueOn ==
  ASSUME NEW a \in PlainValueNodes, Ready(a), NEW k \in 1 .. Count + 1,
         OnValue(a, p, parser, HeardBy(parser, request, p), k),
         NEW node, NEW j \in {0, 1}, NEW q, Move(node, j, q, request),
         HeaderKept(q, request, k), q.span = parser.span, Labelled(q, k),
         j = 1 => p < ValueEnd(k), ValuePlace(node, p + j, q, k)
  PROVE  Goes
<1> DEFINE h == HeardBy(parser, request, p)
           c == "on_header_value"
<1>1. InValue(k)
  BY ValueHere
<1>2. h = Valuing(Nth(k).name, From(ValueAt(k), p)) /\ k <= Count
  BY DEF OnValue
<1>3. SpanOf(a) = c /\ c \in Callbacks /\ p + 0 = p /\ p \in Nat
  <2>1. a \in ValueNodes
    BY DEF PlainValueNodes, OptionNodes, ValueNodes
  <2> QED
    BY <2>1, ReadyHere, SpanTable DEF Callbacks
<1>4. HeardBy(q, request, p + j) = Valuing(Nth(k).name, From(ValueAt(k), p + j))
  <2>1. HeardBy(q, request, p + j) = HeardBy(parser, request, p + j)
    BY HearSame
  <2>2. CASE j = 0
    BY <1>2, <1>3, <2>1, <2>2
  <2>3. CASE j = 1
    <3>1. h[c] = From(ValueAt(k), p)
      BY <1>2, Sayings
    <3>2. ValueAt(k) \in Nat /\ 1 <= ValueAt(k) /\ ValueAt(k) <= p
      BY <1>1 DEF InValue
    <3>3. SameSpan(parser, request)
      BY DEF SameSpan
    <3>4. HeardBy(parser, request, p + 1) = [h EXCEPT ![c] = From(ValueAt(k), p + 1)]
      BY <1>3, <3>1, <3>2, <3>3, HearByte
    <3> QED
      BY <1>2, <2>1, <2>3, <3>4, Sayings
  <2> QED
    BY <2>2, <2>3
<1> HIDE DEF h, c
<1>5. p + j \in ValueAt(k) .. ValueEnd(k)
  BY <1>1, <1>3 DEF InValue
<1>6. OnValue(node, p + j, q, Valuing(Nth(k).name, From(ValueAt(k), p + j)), k)
  BY <1>2, <1>5 DEF OnValue
<1> QED
  BY <1>4, <1>6, HeaderGoes DEF HeaderOn

(* Where it is, for the steps.                                             *)
LEMMA ValueIn ==
  ASSUME NEW a \in PlainValueNodes, Ready(a)
  PROVE  \E k \in 1 .. Count + 1 :
           /\ HeaderKept(parser, request, k) /\ InValue(k)
           /\ OnValue(a, p, parser, HeardBy(parser, request, p), k)
           /\ Labelled(parser, k) /\ ValuePlace(a, p, parser, k)
<1>1. PICK k \in 1 .. Count + 1 :
        /\ HeaderKept(parser, request, k)
        /\ OnValue(a, p, parser, HeardBy(parser, request, p), k)
  BY PlacedInHeader
<1>2. InValue(k)
  BY <1>1, ValueHere
<1>3. Labelled(parser, k) /\ ValuePlace(a, p, parser, k)
  BY <1>1 DEF OnValue
<1> QED
  BY <1>1, <1>2, <1>3

(* In a value that is no length.                                           *)
LEMMA PlainGoesOn ==
  ASSUME NEW a \in {"header_value"} \cup OptionNodes, Ready(a), NEW k \in 1 .. Count + 1,
         HeaderKept(parser, request, k),
         OnValue(a, p, parser, HeardBy(parser, request, p), k),
         NEW node \in {"header_value"} \cup OptionNodes,
         NEW j \in {0, 1}, NEW q, Move(node, j, q, request), q \in ParserType,
         q.error = parser.error, q.method = parser.method, q.span = parser.span,
         q.flags \cap Untold = {}, Labelled(q, k), Lengths(q, k - 1),
         j = 1 => p < ValueEnd(k)
  PROVE  Goes
<1>1. a \in PlainValueNodes
  BY DEF PlainValueNodes
<1>2. ~IsLength(Nth(k))
  BY DEF OnValue, ValuePlace, OptionNodes
<1>3. ValuePlace(node, p + j, q, k)
  BY <1>2 DEF ValuePlace
<1>4. HeaderKept(q, request, k)
  BY DEF HeaderKept, LineRead, UrlRead, MethodRead
<1> QED
  BY <1>1, <1>3, <1>4, ValueOn

(* It ends.                                                                *)
LEMMA PlainGoesOut ==
  ASSUME NEW a \in {"header_value"} \cup OptionNodes, Ready(a), NEW k \in 1 .. Count + 1,
         HeaderKept(parser, request, k),
         OnValue(a, p, parser, HeardBy(parser, request, p), k),
         p = ValueEnd(k), Goto("header_value_otherwise")
  PROVE  Goes
<1>1. a \in PlainValueNodes
  BY DEF PlainValueNodes
<1>2. ~IsLength(Nth(k)) /\ Lengths(parser, k - 1) /\ Labelled(parser, k)
  BY DEF OnValue, ValuePlace, OptionNodes
<1>3. k \in 1 .. Count /\ Described /\ p + 0 = p
  BY <1>1, ValueHere, ReadyHere DEF InValue
<1>4. Lengths(parser, k)
  BY <1>2, <1>3, LengthsUpTo
<1>5. ValuePlace("header_value_otherwise", p + 0, parser, k)
  BY <1>3, <1>4 DEF ValuePlace
<1>6. Move("header_value_otherwise", 0, parser, request)
  BY DEF Goto
<1> QED
  BY <1>1, <1>2, <1>5, <1>6, ValueOn

LEMMA ValueGoes ==
  ASSUME Ready("header_value"), HeaderValue PROVE Goes
<1> DEFINE a == "header_value"
<1>1. a \in PlainValueNodes
  BY DEF PlainValueNodes
<1>2. PICK k \in 1 .. Count + 1 :
           /\ HeaderKept(parser, request, k) /\ InValue(k)
           /\ OnValue(a, p, parser, HeardBy(parser, request, p), k)
           /\ Labelled(parser, k) /\ ValuePlace(a, p, parser, k)
  BY <1>1, ValueIn
<1>3. Lengths(parser, k - 1) /\ parser.flags \cap Untold = {} /\ parser \in ParserType
  BY <1>2, ReadyHere DEF ValuePlace, OptionNodes, HeaderKept
<1>4. CASE Byte \in Text /\ Eat(a)
  <2>1. p < ValueEnd(k)
    BY <1>2, <1>4, ByteKinds DEF InValue
  <2>2. Move(a, 1, parser, request)
    BY <1>4 DEF Eat
  <2> QED
    BY <1>2, <1>3, <2>1, <2>2, PlainGoesOn
<1>5. CASE Byte \notin Text /\ Goto("header_value_otherwise")
  <2>1. p = ValueEnd(k)
    BY <1>2, <1>5 DEF InValue
  <2> QED
    BY <1>2, <1>5, <2>1, PlainGoesOut
<1> QED
  BY <1>4, <1>5 DEF HeaderValue

LEMMA ConnectionTokenGoes ==
  ASSUME Ready("header_value_connection_token"), HeaderValueConnectionToken PROVE Goes
<1> DEFINE a == "header_value_connection_token"
<1>1. a \in PlainValueNodes /\ a \in {"header_value"} \cup OptionNodes
      /\ "header_value_connection" \in OptionNodes
  BY DEF PlainValueNodes, OptionNodes
<1>2. PICK k \in 1 .. Count + 1 :
           /\ HeaderKept(parser, request, k) /\ InValue(k)
           /\ OnValue(a, p, parser, HeardBy(parser, request, p), k)
           /\ Labelled(parser, k) /\ ValuePlace(a, p, parser, k)
  BY <1>1, ValueIn
<1>3. Lengths(parser, k - 1) /\ parser.flags \cap Untold = {} /\ parser \in ParserType
  BY <1>2, ReadyHere DEF ValuePlace, OptionNodes, HeaderKept
<1>4. CASE \E node \in {a, "header_value_connection"} : Byte \in Text \cup {","} /\ Eat(node)
  <2>1. PICK node \in {a, "header_value_connection"} : Byte \in Text \cup {","} /\ Eat(node)
    BY <1>4
  <2>2. p < ValueEnd(k)
    BY <1>2, <2>1, ByteKinds DEF InValue
  <2>3. Move(node, 1, parser, request)
    BY <2>1 DEF Eat
  <2> QED
    BY <1>1, <1>2, <1>3, <2>2, <2>3, PlainGoesOn
<1>5. CASE Byte \notin Text /\ Goto("header_value_otherwise")
  <2>1. p = ValueEnd(k)
    BY <1>2, <1>5 DEF InValue
  <2> QED
    BY <1>1, <1>2, <1>5, <2>1, PlainGoesOut
<1> QED
  BY <1>4, <1>5 DEF HeaderValueConnectionToken

-----------------------------------------------------------------------------
(* The options of a connection, which the parser looks for.                *)
LEMMA OptionWords ==
  LET words == DOMAIN OptionState \cap DOMAIN Spell
  IN  /\ \A w \in words : Spell[w] \in Seq(TokenByte)
      /\ \A w \in words : OptionState[w] \in OptionStates
<1> DEFINE words == DOMAIN OptionState \cap DOMAIN Spell
<1>1. \A w \in words : Spell[w] \in Seq(TokenByte)
  BY SpellAssumption DEF SpellAssumption
<1>2. \A w \in DOMAIN OptionState : OptionState[w] \in OptionStates
  BY DEF OptionState, OptionStates
<1> QED
  BY <1>1, <1>2

LEMMA ConnectionGoes ==
  ASSUME Ready("header_value_connection"), HeaderValueConnection PROVE Goes
<1> DEFINE a == "header_value_connection"
           words == DOMAIN OptionState \cap DOMAIN Spell
           s == Append(parser.matched, LowerOf(Byte))
           plain == {"header_value"} \cup OptionNodes
<1>1. a \in PlainValueNodes /\ a \in plain /\ "header_value_connection_ws" \in plain
      /\ "header_value_connection_token" \in plain
  BY DEF PlainValueNodes, OptionNodes
<1>2. PICK k \in 1 .. Count + 1 :
           /\ HeaderKept(parser, request, k) /\ InValue(k)
           /\ OnValue(a, p, parser, HeardBy(parser, request, p), k)
           /\ Labelled(parser, k) /\ ValuePlace(a, p, parser, k)
  BY <1>1, ValueIn
<1>3. Lengths(parser, k - 1) /\ parser.flags \cap Untold = {} /\ parser \in ParserType
      /\ ~IsLength(Nth(k))
  BY <1>2, ReadyHere DEF ValuePlace, OptionNodes, HeaderKept
<1>4. \A t : s = t => \A w \in words : IsStrictPrefix(t, Spell[w]) \/ Spell[w] = t => p < ValueEnd(k)
  <2> SUFFICES ASSUME NEW w \in words, IsStrictPrefix(s, Spell[w]) \/ Spell[w] = s
               PROVE  p < ValueEnd(k)
    OBVIOUS
  <2>1. Spell[w] \in Seq(TokenByte)
    BY OptionWords
  <2>2. parser.matched \in Seq(Bytes)
    BY <1>3 DEF ParserType
  <2>3. LowerOf(Byte) \in TokenByte
    <3> HIDE DEF words
    <3> QED
      BY <2>1, <2>2, WordByte
  <2>4. Byte # "CR"
    BY <2>3, ByteKinds DEF Controls
  <2> QED
    BY <1>2, <2>4 DEF InValue
<1> HIDE DEF plain
<1>5. ASSUME NEW node \in plain, NEW j \in {0, 1}, NEW q, Move(node, j, q, request),
             q \in ParserType, Untouched(q), q.span = parser.span, Labelled(q, k),
             j = 1 => p < ValueEnd(k)
      PROVE  Goes
  <2>1. Lengths(q, k - 1) /\ q.flags \cap Untold = {} /\ q.error = parser.error
        /\ q.method = parser.method
    BY <1>3, <1>5, UntouchedKeeps DEF Untouched
  <2> QED
    BY <1>1, <1>2, <1>5, <2>1, PlainGoesOn DEF plain
<1>6. ASSUME NEW node \in plain, NEW j \in {0, 1}, NEW t \in Seq(Bytes),
             Move(node, j, Matched(t), request), j = 1 => p < ValueEnd(k)
      PROVE  Goes
  <2> DEFINE q == Matched(t)
  <2>1. /\ Untouched(q) /\ q.span = parser.span /\ q.header_state = parser.header_state
        /\ q \in ParserType
    BY <1>3, UpdatesTouch DEF Matched, ParserType
  <2>2. Move(node, j, q, request)
    BY <1>6
  <2> HIDE DEF q
  <2>3. Labelled(q, k)
    BY <1>2, <2>1 DEF Labelled
  <2> QED
    BY <1>5, <1>6, <2>1, <2>2, <2>3
<1>7. s \in Seq(Bytes) /\ <<>> \in Seq(Bytes)
  <2>1. Byte \in Bytes /\ parser.matched \in Seq(Bytes)
    BY <1>3, ReadyHere DEF ParserType
  <2>2. LowerOf(Byte) \in Bytes
    BY <2>1, Alphabet
  <2> QED
    BY <2>1, <2>2, AppendProperties, EmptySeq
<1> HIDE DEF s
<1>8. CASE Byte \in {"HT", "SP"} /\ Eat(a)
  <2>1. p < ValueEnd(k)
    BY <1>2, <1>8 DEF InValue
  <2>2. Move(a, 1, parser, request) /\ Untouched(parser)
    BY <1>3, <1>8, UpdatesTouch DEF Eat
  <2> QED
    BY <1>1, <1>2, <1>3, <1>5, <2>1, <2>2
<1>9. CASE Extends(s, words) /\ Move(a, 1, Matched(s), request)
  <2>1. p < ValueEnd(k)
    BY <1>4, <1>9 DEF Extends
  <2> QED
    BY <1>1, <1>6, <1>7, <1>9, <2>1
<1>10. CASE \E w \in Matches(s, words) :
              Move("header_value_connection_ws", 1, InState(OptionState[w]), request)
  <2>1. PICK w \in Matches(s, words) :
               Move("header_value_connection_ws", 1, InState(OptionState[w]), request)
    BY <1>10
  <2>2. w \in words /\ Spell[w] = s
    BY DEF Matches
  <2>3. p < ValueEnd(k)
    BY <1>4, <2>2
  <2> DEFINE q == InState(OptionState[w])
             o == OptionState[w]
  <2>4. o \in OptionStates
    BY <2>2, OptionWords
  <2>5. /\ Untouched(q) /\ q.span = parser.span /\ q.header_state = o
    BY <1>3, UpdatesTouch
  <2>6. q \in ParserType
    <3> HIDE DEF o
    <3>1. InState(o) \in ParserType
      BY <1>3, <1>7, <2>4 DEF InState, ParserType, HeaderStates
    <3> QED
      BY <3>1 DEF o
  <2>7. Move("header_value_connection_ws", 1, q, request)
    BY <2>1
  <2> HIDE DEF q, o
  <2>8. Labelled(q, k)
    BY <1>3, <2>4, <2>5 DEF Labelled, OptionStates
  <2> QED
    BY <1>1, <1>5, <2>3, <2>5, <2>6, <2>7, <2>8
<1>11. CASE Move("header_value_connection_token", 0, Matched(<<>>), request)
  <2> DEFINE none == <<>>
  <2>1. none \in Seq(Bytes) /\ Move("header_value_connection_token", 0, Matched(none), request)
    BY <1>7, <1>11
  <2> HIDE DEF none
  <2>2. 0 \in {0, 1} /\ 0 # 1
    OBVIOUS
  <2> QED
    BY <1>1, <1>6, <2>1, <2>2
<1> QED
  BY <1>8, <1>9, <1>10, <1>11 DEF HeaderValueConnection, s

LEMMA ConnectionWsGoes ==
  ASSUME Ready("header_value_connection_ws"), HeaderValueConnectionWs PROVE Goes
<1> DEFINE a == "header_value_connection_ws"
           plain == {"header_value"} \cup OptionNodes
<1>1. a \in PlainValueNodes /\ a \in plain /\ "header_value_connection" \in plain
      /\ "header_value_connection_token" \in plain
  BY DEF PlainValueNodes, OptionNodes
<1>2. PICK k \in 1 .. Count + 1 :
           /\ HeaderKept(parser, request, k) /\ InValue(k)
           /\ OnValue(a, p, parser, HeardBy(parser, request, p), k)
           /\ Labelled(parser, k) /\ ValuePlace(a, p, parser, k)
  BY <1>1, ValueIn
<1>3. Lengths(parser, k - 1) /\ parser.flags \cap Untold = {} /\ parser \in ParserType
      /\ ~IsLength(Nth(k))
  BY <1>2, ReadyHere DEF ValuePlace, OptionNodes, HeaderKept
<1> HIDE DEF plain
<1>4. ASSUME NEW node \in plain, NEW j \in {0, 1}, NEW q, Move(node, j, q, request),
             q \in ParserType, q.error = parser.error, q.method = parser.method,
             q.span = parser.span, q.flags \cap Untold = {}, Labelled(q, k),
             Lengths(q, k - 1), j = 1 => p < ValueEnd(k)
      PROVE  Goes
  BY <1>1, <1>2, <1>4, PlainGoesOn DEF plain
<1>5. CASE Byte \in {"CR", "LF"} /\ Goto("header_value_otherwise")
  <2>1. p = ValueEnd(k)
    BY <1>2, <1>5, ByteKinds DEF InValue
  <2> QED
    BY <1>1, <1>2, <1>5, <2>1, PlainGoesOut DEF plain
<1>6. CASE Byte = "SP" /\ Eat(a)
  <2>1. p < ValueEnd(k)
    BY <1>2, <1>6 DEF InValue
  <2>2. Move(a, 1, parser, request)
    BY <1>6 DEF Eat
  <2> QED
    BY <1>1, <1>2, <1>3, <1>4, <2>1, <2>2
<1>7. CASE Byte = "," /\ Move("header_value_connection", 1, Committed, request)
  <2>1. p < ValueEnd(k)
    BY <1>2, <1>7 DEF InValue
  <2> DEFINE q == Committed
  <2>2. /\ q.error = parser.error /\ q.method = parser.method /\ q.span = parser.span
        /\ q.flags \cap Untold = {} /\ Labelled(q, k) /\ Lengths(q, k - 1)
    BY <1>2, <1>3, CommittedFields
  <2>3. q \in ParserType
    <3>1. parser.flags \cup FlagOf(parser.header_state) \in SUBSET Flags
      BY <1>3 DEF ParserType, FlagOf, Flags
    <3> QED
      BY <1>3, <3>1 DEF ParserType, Committed, HeaderStates
  <2>4. Move("header_value_connection", 1, q, request)
    BY <1>7
  <2> HIDE DEF q
  <2> QED
    BY <1>1, <1>4, <2>1, <2>2, <2>3, <2>4
<1>8. CASE Move("header_value_connection_token", 0, InState("GENERAL"), request)
  <2> DEFINE q == InState("GENERAL")
  <2>1. /\ Untouched(q) /\ q.span = parser.span /\ q.header_state = "GENERAL"
    BY <1>3, UpdatesTouch
  <2>2. q \in ParserType
    <3>1. <<>> \in Seq(Bytes)
      BY EmptySeq
    <3> QED
      BY <1>3, <3>1 DEF InState, ParserType, HeaderStates
  <2>3. Move("header_value_connection_token", 0, q, request)
    BY <1>8
  <2> HIDE DEF q
  <2>4. Labelled(q, k)
    BY <1>3, <2>1 DEF Labelled
  <2>5. Lengths(q, k - 1) /\ q.flags \cap Untold = {} /\ q.error = parser.error
        /\ q.method = parser.method
    BY <1>3, <2>1, UntouchedKeeps DEF Untouched
  <2> QED
    BY <1>1, <1>4, <2>1, <2>2, <2>3, <2>4, <2>5
<1> QED
  BY <1>5, <1>6, <1>7, <1>8 DEF HeaderValueConnectionWs

-----------------------------------------------------------------------------
LEMMA OtherwiseGoes ==
  ASSUME Ready("header_value_otherwise"), HeaderValueOtherwise PROVE Goes
<1> DEFINE a == "header_value_otherwise"
           d == Delivered(p)
           q == Unspanned
<1>1. a \in PlainValueNodes /\ a \in ValueNodes
  BY DEF PlainValueNodes, ValueNodes
<1>2. PICK k \in 1 .. Count + 1 :
           /\ HeaderKept(parser, request, k) /\ InValue(k)
           /\ OnValue(a, p, parser, HeardBy(parser, request, p), k)
           /\ Labelled(parser, k) /\ ValuePlace(a, p, parser, k)
  BY <1>1, ValueIn
<1>3. p = ValueEnd(k) /\ Lengths(parser, k) /\ k <= Count
  BY <1>2 DEF ValuePlace, OnValue, OptionNodes
<1>4. Byte = "CR" /\ HeardBy(parser, request, p) = Valuing(Nth(k).name, Nth(k).value)
  BY <1>2, <1>3 DEF InValue, OnValue
<1>5. Move("header_value_almost_done", 1, q, d)
  BY <1>4 DEF HeaderValueOtherwise, EndSpan
<1>6. /\ parser \in ParserType /\ p \in Int /\ p <= Len(stream) + 1
      /\ SpanOf(a) \in Callbacks
  BY <1>1, ReadyHere, SpanTable DEF Callbacks
<1>7. /\ d.buf = Valuing(Nth(k).name, Nth(k).value) /\ d.buf \in [Callbacks -> Seq(Bytes)]
      /\ SameHead(request, d)
  BY <1>4, <1>6, EndHears
<1>8. Untouched(q) /\ q.span.cb = "none" /\ q.header_state = parser.header_state
  BY <1>6, UpdatesTouch
<1> HIDE DEF d, q
<1>9. HeardBy(q, d, p + 1) = Valuing(Nth(k).name, Nth(k).value)
  BY <1>7, <1>8, Buffers
<1>10. Lengths(q, k) /\ HeaderKept(q, d, k)
  BY <1>2, <1>3, <1>7, <1>8, UntouchedKeeps, HeaderKeptOn
<1>11. BehindValue("header_value_almost_done", p + 1, q, Valuing(Nth(k).name, Nth(k).value), k)
  <2>1. Labelled(q, k)
    BY <1>2, <1>8 DEF Labelled
  <2> QED
    BY <1>3, <1>10, <2>1 DEF BehindValue
<1> QED
  BY <1>5, <1>9, <1>10, <1>11, HeaderGoes DEF HeaderOn

LEMMA AlmostDoneGoes ==
  ASSUME Ready("header_value_almost_done"), HeaderValueAlmostDone PROVE Goes
<1> DEFINE a == "header_value_almost_done"
           h == HeardBy(parser, request, p)
<1>1. a \in AroundValue /\ a \in BehindNodes
  BY DEF AroundValue, BehindNodes
<1>2. PICK k \in 1 .. Count + 1 :
        HeaderKept(parser, request, k) /\ BehindValue(a, p, parser, h, k)
  BY <1>1, PlacedInHeader
<1>3. /\ Described /\ p \in Nat /\ Byte = stream[p] /\ k \in 1 .. Count
  BY <1>2, ReadyHere, Parts DEF BehindValue
<1>4. /\ p = ValueEnd(k) + 1 /\ Labelled(parser, k) /\ Lengths(parser, k)
      /\ h = Valuing(Nth(k).name, Nth(k).value)
  BY <1>2 DEF BehindValue
<1>5. Byte = "LF" /\ ValueEnd(k) \in Nat
  BY <1>3, <1>4, ValueLaid
<1>6. Eat("header_value_lws")
  BY <1>5 DEF HeaderValueAlmostDone
<1>7. BehindValue("header_value_lws", p + 1, parser, h, k)
  <2>1. p + 1 = ValueEnd(k) + 2
    BY <1>4, <1>5
  <2> QED
    BY <1>3, <1>4, <2>1 DEF BehindValue
<1> QED
  BY <1>1, <1>2, <1>6, <1>7, BlankOn DEF HeaderOn

LEMMA LwsGoes ==
  ASSUME Ready("header_value_lws"), HeaderValueLws PROVE Goes
<1> DEFINE a == "header_value_lws"
           h == HeardBy(parser, request, p)
<1>1. a \in AroundValue /\ a \in BehindNodes
  BY DEF AroundValue, BehindNodes
<1>2. PICK k \in 1 .. Count + 1 :
        HeaderKept(parser, request, k) /\ BehindValue(a, p, parser, h, k)
  BY <1>1, PlacedInHeader
<1>3. /\ Described /\ p \in Nat /\ Byte = stream[p] /\ k \in 1 .. Count
  BY <1>2, ReadyHere, Parts DEF BehindValue
<1>4. /\ p = ValueEnd(k) + 2 /\ Labelled(parser, k) /\ Lengths(parser, k)
      /\ h = Valuing(Nth(k).name, Nth(k).value)
  BY <1>2 DEF BehindValue
<1>5. Byte \notin {"HT", "SP"}
  BY <1>3, <1>4, ValueLaid
<1>6. Move("header_field_start", 0, Committed, InsertHeader)
  BY <1>5 DEF HeaderValueLws
<1> QED
  BY <1>1, <1>2, <1>3, <1>4, <1>6, HeaderEnds

-----------------------------------------------------------------------------
(* Every beginning of a length fits.                                       *)
LEMMA BeginningFits ==
  ASSUME Described, NEW k \in 1 .. Count, IsLength(Nth(k)),
         NEW at, at \in ValueAt(k) + 1 .. ValueEnd(k)
  PROVE  Number(From(ValueAt(k), at)) <= MaxLength
<1> DEFINE s == Nth(k).value
           va == ValueAt(k)
           n == at - va
<1>1. /\ va \in Nat /\ 1 <= va /\ ValueEnd(k) + 2 <= Len(stream) /\ ValueEnd(k) = va + Len(s)
      /\ Lies(s, va) /\ ValueEnd(k) \in Nat
  BY ValueLaid
<1>2. stream \in Seq(Bytes) /\ Len(stream) \in Nat /\ s \in Seq(Bytes)
  BY Parts
<1>3. \A i \in DOMAIN s : Number(SubSeq(s, 1, i)) <= MaxLength
  BY HeadersAreOK DEF HeaderOK
<1>4. DOMAIN s = 1 .. Len(s) /\ Len(s) \in Nat
  BY <1>2, LenProperties
<1> HIDE DEF s, va
<1>5. n \in 1 .. Len(s) /\ va + n = at /\ n \in 0 .. Len(s)
  BY <1>1, <1>4 DEF va
<1>6. va - 1 + Len(s) <= Len(stream)
  BY <1>1, <1>2, <1>4
<1>7. \A j \in 0 .. Len(s) : From(va, va + j) = SubSeq(s, 1, j)
  BY <1>1, <1>2, <1>6, AllBegin
<1> HIDE DEF n
<1>8. From(va, at) = SubSeq(s, 1, n)
  BY <1>5, <1>7
<1>9. Number(SubSeq(s, 1, n)) <= MaxLength
  BY <1>3, <1>4, <1>5
<1> QED
  BY <1>8, <1>9 DEF va

(* So no digit of it is too much.                                          *)
LEMMA NoOverflow ==
  ASSUME parser.content_length \in 0 .. MaxLength, NEW v \in 0 .. 15,
         parser.content_length * 10 + v <= MaxLength
  PROVE  ~Overflows(10, v)
<1> DEFINE c == parser.content_length
           d == MaxLength \div 10
<1>1. MaxLength \in Nat
  BY LlHttpAssumption DEF LlHttpAssumption
<1>2. d \in Int /\ MaxLength < d * 10 + 10
  BY <1>1
<1>3. c \in Nat /\ c * 10 + v <= MaxLength
  OBVIOUS
<1> HIDE DEF c, d
<1>4. ~(c > d)
  BY <1>1, <1>2, <1>3
<1>5. ~(c * 10 > MaxLength - v)
  BY <1>1, <1>3
<1> QED
  BY <1>4, <1>5 DEF Overflows, c, d

LEMMA ContentLengthGoes ==
  ASSUME Ready("header_value_content_length"), HeaderValueContentLength PROVE Goes
<1> DEFINE a == "header_value_content_length"
           v == Value(Byte)
           n == parser.content_length
<1>1. a \in PlainValueNodes /\ a \notin {"header_value"} \cup OptionNodes
  BY DEF PlainValueNodes, OptionNodes
<1>2. PICK k \in 1 .. Count + 1 :
           /\ HeaderKept(parser, request, k) /\ InValue(k)
           /\ OnValue(a, p, parser, HeardBy(parser, request, p), k)
           /\ Labelled(parser, k) /\ ValuePlace(a, p, parser, k)
  BY <1>1, ValueIn
<1>3. IsLength(Nth(k)) /\ Lengths(parser, k - 1)
  BY <1>1, <1>2 DEF ValuePlace
<1>4. /\ Described /\ parser \in ParserType /\ Byte \in Bytes /\ k \in 1 .. Count /\ p \in Nat
      /\ p + 0 = p
  BY <1>2, ReadyHere DEF InValue
<1>5. n = Number(From(ValueAt(k), p))
  <2> DEFINE c == "on_header_value"
             h == HeardBy(parser, request, p)
  <2>1. n = Number(request.buf[c] \o From(parser.span.from, p))
    BY DEF Ready, At, CountInv, LengthIsAsWritten, From
  <2>2. h[c] = request.buf[c] \o From(parser.span.from, p)
    <3>1. a \in ValueNodes
      BY DEF ValueNodes
    <3>2. parser.span.cb = c /\ c \in Callbacks
      BY <3>1, ReadyHere, SpanTable DEF Callbacks
    <3> QED
      BY <3>2 DEF HeardBy
  <2>3. h[c] = From(ValueAt(k), p)
    BY <1>2, Sayings DEF OnValue
  <2> HIDE DEF h
  <2> QED
    BY <2>1, <2>2, <2>3
<1>6. CASE Byte \in Digit
  <2>1. p < ValueEnd(k)
    BY <1>2, <1>6, ByteKinds DEF InValue, Controls
  <2>2. Number(From(ValueAt(k), p + 1)) = n * 10 + v
    <3>1. From(ValueAt(k), p) \in Seq(Bytes) /\ From(ValueAt(k), p + 1) = Append(From(ValueAt(k), p), Byte)
      BY <1>2 DEF InValue
    <3> HIDE DEF n, v
    <3> QED
      BY <1>4, <1>5, <3>1, NumberOfOneMore DEF v
  <2>3. n * 10 + v <= MaxLength
    <3>1. p + 1 \in ValueAt(k) + 1 .. ValueEnd(k)
      BY <1>2, <1>4, <2>1 DEF InValue
    <3> QED
      BY <1>3, <1>4, <2>2, <3>1, BeginningFits
  <2>4. ~Overflows(10, v)
    <3>1. v \in 0 .. 15 /\ n \in 0 .. MaxLength
      BY <1>4, <1>6, Values DEF ParserType
    <3> QED
      BY <2>3, <3>1, NoOverflow
  <2> DEFINE q == MulAdd(10, v)
  <2>5. Move(a, 1, q, request)
    BY <1>6, <2>4 DEF HeaderValueContentLength
  <2>6. /\ q.flags = parser.flags /\ q.span = parser.span /\ q.error = parser.error
        /\ q.method = parser.method /\ q.header_state = parser.header_state
    BY <1>4 DEF MulAdd, ParserType
  <2> HIDE DEF q
  <2>7. HeaderKept(q, request, k)
    BY <1>2, <2>6 DEF HeaderKept, LineRead, UrlRead, MethodRead
  <2>8. Labelled(q, k)
    BY <1>2, <2>6 DEF Labelled
  <2>9. ValuePlace(a, p + 1, q, k)
    <3>1. Lengths(q, k - 1)
      <4>1. Count \in Nat
        BY <1>4, Parts
      <4>2. \A j \in 1 .. k - 1 : ~IsLength(Nth(j))
        <5> TAKE j \in 1 .. k - 1
        <5>1. j \in 1 .. Count /\ j # k
          BY <1>4, <4>1
        <5> QED
          BY <1>3, <1>4, <5>1, OneLengthEach
      <4> QED
        BY <1>3, <2>6, <4>2 DEF Lengths
    <3> QED
      BY <1>3, <3>1 DEF ValuePlace
  <2> QED
    BY <1>1, <1>2, <2>1, <2>5, <2>6, <2>7, <2>8, <2>9, ValueOn
<1>7. CASE Byte \notin Digit
  <2>1. p = ValueEnd(k) /\ From(ValueAt(k), p) = Nth(k).value
    BY <1>2, <1>3, <1>7 DEF InValue
  <2>2. Move("header_value_content_length_ws", 0, parser, request)
    BY <1>7 DEF HeaderValueContentLength, Goto
  <2>3. ValuePlace("header_value_content_length_ws", p + 0, parser, k)
    BY <1>3, <1>4, <1>5, <2>1 DEF ValuePlace
  <2> QED
    BY <1>1, <1>2, <2>2, <2>3, ValueOn
<1> QED
  BY <1>6, <1>7

LEMMA ContentLengthWsGoes ==
  ASSUME Ready("header_value_content_length_ws"), HeaderValueContentLengthWs PROVE Goes
<1> DEFINE a == "header_value_content_length_ws"
           q == [parser EXCEPT !.flags = @ \cup {"F_CONTENT_LENGTH"}]
<1>1. a \in PlainValueNodes /\ a \notin {"header_value"} \cup OptionNodes
  BY DEF PlainValueNodes, OptionNodes
<1>2. PICK k \in 1 .. Count + 1 :
           /\ HeaderKept(parser, request, k) /\ InValue(k)
           /\ OnValue(a, p, parser, HeardBy(parser, request, p), k)
           /\ Labelled(parser, k) /\ ValuePlace(a, p, parser, k)
  BY <1>1, ValueIn
<1>3. IsLength(Nth(k)) /\ p = ValueEnd(k) /\ parser.content_length = Number(Nth(k).value)
  BY <1>1, <1>2 DEF ValuePlace
<1>4. /\ Described /\ parser \in ParserType /\ k \in 1 .. Count /\ p + 0 = p /\ Byte = "CR"
  BY <1>2, <1>3, ReadyHere DEF InValue
<1>5. Move("header_value_otherwise", 0, q, request)
  BY <1>4 DEF HeaderValueContentLengthWs
<1>6. /\ q.flags = parser.flags \cup {"F_CONTENT_LENGTH"} /\ q.span = parser.span
      /\ q.error = parser.error /\ q.method = parser.method
      /\ q.header_state = parser.header_state /\ q.content_length = parser.content_length
  BY <1>4 DEF ParserType
<1> HIDE DEF q
<1>7. HeaderKept(q, request, k)
  BY <1>2, <1>6 DEF HeaderKept, LineRead, UrlRead, MethodRead, Untold
<1>8. Labelled(q, k)
  BY <1>2, <1>6 DEF Labelled
<1>9. Lengths(q, k)
  BY <1>3, <1>4, <1>6, LengthRead
<1>10. ValuePlace("header_value_otherwise", p + 0, q, k)
  BY <1>3, <1>4, <1>9 DEF ValuePlace
<1> QED
  BY <1>1, <1>2, <1>5, <1>6, <1>7, <1>8, <1>10, ValueOn

-----------------------------------------------------------------------------
(* What is behind the head is no more than its length says.                *)
LEMMA BodyFits ==
  ASSUME Described, NEW q, q.content_length \in Nat, Lengths(q, Count)
  PROVE  /\ Len(stream) + 1 - BodyAt <= q.content_length \/ Len(stream) + 1 = BodyAt
         /\ ~("F_CONTENT_LENGTH" \in q.flags /\ q.content_length > 0) => Len(stream) + 1 = BodyAt
<1> DEFINE m == Len(stream)
           l == Len(Rendered(Wanted))
<1>1. /\ BodyAt = l + 1 /\ BodyAt <= m + 1 /\ m \in Nat /\ Count \in Nat /\ BodyAt \in Nat
      /\ l \in Int
  <2>1. l \in Nat
    BY RenderedLies, LenProperties
  <2>2. BodyAt = l + 1 /\ BodyAt <= m + 1
    BY LineLaid
  <2> HIDE DEF l
  <2> QED
    BY <2>1, <2>2, Parts
<1>2. \/ m = l
      \/ \E i \in 1 .. Count : IsLength(Nth(i)) /\ m \in l .. l + Number(Nth(i).value)
  <2>1. WellFormed(stream, Wanted) /\ DOMAIN Wanted.headers = 1 .. Count
    BY Parts, RequestsAssumption DEF RequestsAssumption, Described, Wanted
  <2> QED
    BY <2>1 DEF WellFormed, Nth
<1> HIDE DEF m, l
<1>3. CASE m = l
  BY <1>1, <1>3 DEF m
<1>4. CASE \E i \in 1 .. Count : IsLength(Nth(i)) /\ m \in l .. l + Number(Nth(i).value)
  <2>1. PICK i \in 1 .. Count : IsLength(Nth(i)) /\ m \in l .. l + Number(Nth(i).value)
    BY <1>4
  <2>2. q.content_length = Number(Nth(i).value) /\ "F_CONTENT_LENGTH" \in q.flags
    BY <2>1 DEF Lengths
  <2> DEFINE c == q.content_length
  <2>3. m \in l .. l + c /\ c \in Nat
    BY <2>1, <2>2
  <2> HIDE DEF c
  <2>4. l \in Int
    BY <1>1
  <2>5. m + 1 - BodyAt <= c
    BY <1>1, <2>3, <2>4
  <2>6. ~(c > 0) => m + 1 = BodyAt
    BY <1>1, <2>3, <2>4
  <2> QED
    BY <2>2, <2>5, <2>6 DEF m, c
<1> QED
  BY <1>2, <1>3, <1>4

(* On in the body.                                                         *)
LEMMA BodyGoes ==
  ASSUME NEW node, NEW k, NEW q, NEW r, Move(node, k, q, r), q.error = "OK",
         InBody(node, p + k, q, r, HeardBy(q, r, p + k), Taken)
  PROVE  Goes
  BY DEF Goes, Reading

(* A message that ends with the stream.                                    *)
LEMMA EndGoes ==
  ASSUME NEW k, NEW q \in ParserType, NEW r, AfterMessageComplete(k, q, r),
         q.error = "OK", q.span.cb = "none", q.method = parser.method,
         q.flags \subseteq parser.flags,
         LineRead(q, r), HeadersRead(r, Taken, Count), r.is_header_complete,
         p + k = Len(stream) + 1, BodyAt \in Nat, Len(stream) \in Nat, BodyAt <= Len(stream) + 1,
         r.buf \in [Callbacks -> Seq(Bytes)], r.buf = Saying("on_body", From(BodyAt, p + k))
  PROVE  Goes
<1> DEFINE u == [q EXCEPT !.flags = {}, !.content_length = 0]
           v == [q EXCEPT !.flags = {}]
<1>1. \/ Move("start", k, u, r) \/ Move("closed", k, v, r)
  BY DEF AfterMessageComplete
<1>2. /\ u.error = "OK" /\ u.span.cb = "none" /\ u.method = q.method
      /\ v.error = "OK" /\ v.span.cb = "none" /\ v.method = q.method
  BY DEF ParserType
<1> HIDE DEF u, v
<1>3. LineRead(u, r) /\ LineRead(v, r)
  BY <1>2 DEF LineRead, UrlRead, MethodRead
<1>4. /\ HeardBy(u, r, p + k) = Saying("on_body", From(BodyAt, p + k))
      /\ HeardBy(v, r, p + k) = Saying("on_body", From(BodyAt, p + k))
  BY <1>2, Buffers
<1>5. p + k \in BodyAt .. Len(stream) + 1
  OBVIOUS
<1>6. /\ InBody("start", p + k, u, r, HeardBy(u, r, p + k), Taken)
      /\ InBody("closed", p + k, v, r, HeardBy(v, r, p + k), Taken)
  BY <1>3, <1>4, <1>5 DEF InBody
<1> QED
  BY <1>1, <1>2, <1>6, BodyGoes

-----------------------------------------------------------------------------
(* The end of the head.                                                    *)
LEMMA HeadersAlmostDoneGoes ==
  ASSUME Ready("headers_almost_done"), HeadersAlmostDone PROVE Goes
<1> DEFINE h == HeardBy(parser, request, p)
           q == [parser EXCEPT !.upgrade = Upgrades]
           r == [request EXCEPT !.is_header_complete = TRUE]
<1>1. PICK k \in 1 .. Count + 1 :
        HeaderKept(parser, request, k) /\ OnFieldStart("headers_almost_done", p, parser, h, k)
  BY PlacedInHeader
<1>2. k = Count + 1 /\ p = HeaderAt(k) + 1 /\ h = Silent /\ Lengths(parser, k - 1)
  BY <1>1 DEF OnFieldStart
<1>3. /\ Described /\ Typed /\ Byte = stream[p] /\ p \in Nat /\ Count \in Nat
      /\ parser \in ParserType /\ request \in RequestType /\ k - 1 = Count
  BY <1>2, ReadyHere, Parts
<1>4. parser.span.cb = "none"
  <2>1. "headers_almost_done" \in Between
    BY DEF Between
  <2> QED
    BY <2>1, ReadyHere, BetweenSpans
<1>5. /\ Byte = "LF" /\ p + 1 = BodyAt /\ BodyAt \in Nat /\ BodyAt <= Len(stream) + 1
      /\ Len(stream) \in Nat
  <2>1. HeaderAt(k) \in Nat /\ BodyAt = HeaderAt(k) + 2 /\ stream[HeaderAt(k) + 1] = "LF"
    BY <1>2, <1>3, LineLaid, Zenon
  <2>2. BodyAt <= Len(stream) + 1 /\ Len(stream) \in Nat
    BY <1>3, LineLaid, Parts
  <2> QED
    BY <1>2, <1>3, <2>1, <2>2
<1>6. /\ "F_TRAILING" \notin parser.flags /\ "F_UPGRADE" \notin parser.flags
      /\ "F_CHUNKED" \notin parser.flags /\ "F_TRANSFER_ENCODING" \notin parser.flags
      /\ parser.method # "CONNECT" /\ parser.error = "OK"
  BY <1>1 DEF HeaderKept, LineRead, UrlRead, MethodRead, Untold
<1>7. ~Upgrades
  BY <1>6 DEF Upgrades
<1>8. HeadersComplete
  BY <1>5, <1>6 DEF HeadersAlmostDone
<1>9. Lengths(parser, Count) /\ parser.content_length \in Nat
  BY <1>2, <1>3 DEF ParserType
<1>10. /\ Len(stream) + 1 - BodyAt <= parser.content_length \/ Len(stream) + 1 = BodyAt
       /\ ~("F_CONTENT_LENGTH" \in parser.flags /\ parser.content_length > 0) =>
            Len(stream) + 1 = BodyAt
  BY <1>3, <1>9, BodyFits
<1>11. /\ q \in ParserType /\ q.error = "OK" /\ q.span = parser.span /\ q.method = parser.method
       /\ q.flags = parser.flags /\ q.content_length = parser.content_length /\ q.upgrade = FALSE
       /\ r.buf = request.buf /\ r.headers = request.headers /\ r.is_header_complete
       /\ r.method = request.method /\ r.url = request.url /\ r.version = request.version
  <2>a. Upgrades = FALSE
    BY <1>7 DEF Upgrades
  <2>1. q = [parser EXCEPT !.upgrade = FALSE]
    BY <2>a, Zenon
  <2> HIDE DEF q
  <2>2. q \in ParserType
    BY <1>3, <2>1 DEF ParserType
  <2>3. /\ q.error = "OK" /\ q.span = parser.span /\ q.method = parser.method
        /\ q.flags = parser.flags /\ q.content_length = parser.content_length
        /\ q.upgrade = FALSE
    BY <1>3, <1>6, <2>1 DEF ParserType
  <2>4. /\ r.buf = request.buf /\ r.headers = request.headers /\ r.is_header_complete
        /\ r.method = request.method /\ r.url = request.url /\ r.version = request.version
    BY <1>3 DEF RequestType
  <2> QED
    BY <2>2, <2>3, <2>4
<1>12. LineRead(q, r) /\ HeadersRead(r, Taken, Count)
  BY <1>1, <1>2, <1>3, <1>11 DEF HeaderKept, LineRead, UrlRead, MethodRead, HeadersRead
<1>13. From(BodyAt, p + 1) = <<>> /\ "on_body" \in Callbacks
  <2>1. BodyAt \in Int
    BY <1>5
  <2> QED
    BY <1>5, <2>1, FromEmpty DEF Callbacks
<1>14. Silent = Saying("on_body", From(BodyAt, p + 1))
  BY <1>13, Sayings
<1>15. AfterHeaders \in {"body", "no body"}
  BY <1>6, <1>7 DEF AfterHeaders
<1>16. CASE AfterHeaders = "body"
  <2> DEFINE u == [q EXCEPT !.span = [cb |-> "on_body", from |-> p + 1]]
  <2>1. Move("consume_content_length_1", 1, u, r)
    BY <1>8, <1>16 DEF HeadersComplete
  <2>2. /\ u.span = [cb |-> "on_body", from |-> p + 1] /\ u.error = "OK"
        /\ u.method = q.method /\ u.upgrade = FALSE /\ u.content_length = parser.content_length
    BY <1>11 DEF ParserType
  <2> HIDE DEF q, r, u
  <2>3. HeardBy(u, r, p + 1) = Silent
    <3>1. p + 1 \in Int
      BY <1>3
    <3>2. HeardBy(u, r, p + 1) = h
      BY <1>3, <1>4, <1>11, <1>13, <2>2, <3>1, HearBegin
    <3> QED
      BY <1>2, <3>2
  <2>4. LineRead(u, r)
    BY <1>12, <2>2 DEF LineRead, UrlRead, MethodRead
  <2>5. ~u.upgrade /\ Len(stream) + 1 - (p + 1) <= u.content_length
    <3> DEFINE c == parser.content_length
               m == Len(stream)
    <3>1. /\ m + 1 - BodyAt <= c \/ m + 1 = BodyAt
          /\ c \in Nat /\ m \in Nat /\ BodyAt \in Nat /\ p + 1 = BodyAt
      BY <1>5, <1>9, <1>10
    <3> HIDE DEF c, m
    <3>2. m + 1 - (p + 1) <= c
      BY <3>1
    <3> QED
      BY <2>2, <3>2 DEF c, m
  <2>6. p + 1 \in BodyAt .. Len(stream) + 1
    BY <1>5
  <2>7. InBody("consume_content_length_1", p + 1, u, r, HeardBy(u, r, p + 1), Taken)
    BY <1>11, <1>12, <1>14, <2>3, <2>4, <2>5, <2>6 DEF InBody
  <2> QED
    BY <2>1, <2>2, <2>7, BodyGoes
<1>17. CASE AfterHeaders = "no body"
  <2>1. AfterMessageComplete(1, q, r)
    BY <1>8, <1>17 DEF HeadersComplete
  <2>2. p + 1 = Len(stream) + 1
    <3>1. ~("F_CONTENT_LENGTH" \in parser.flags /\ parser.content_length > 0)
      BY <1>6, <1>7, <1>17 DEF AfterHeaders
    <3> QED
      BY <1>5, <1>10, <3>1
  <2> HIDE DEF q, r
  <2>3. r.buf = Silent /\ r.buf \in [Callbacks -> Seq(Bytes)]
    <3>1. request.buf = h
      BY <1>3, <1>4, HearBuffers
    <3> QED
      BY <1>2, <1>11, <3>1, Buffers
  <2>4. q.span.cb = "none" /\ q.flags \subseteq parser.flags
    BY <1>4, <1>11
  <2>5. r.buf = Saying("on_body", From(BodyAt, p + 1))
    BY <1>14, <2>3
  <2> QED
    BY <1>5, <1>11, <1>12, <2>1, <2>2, <2>3, <2>4, <2>5, EndGoes
<1> QED
  BY <1>15, <1>16, <1>17

-----------------------------------------------------------------------------
(* The body.                                                               *)
LEMMA ConsumeGoes ==
  ASSUME Ready("consume_content_length_1"), ConsumeContentLength1 PROVE Goes
<1> DEFINE a == "consume_content_length_1"
           h == HeardBy(parser, request, p)
           n == AtHand
           at == p + AtHand
<1>1. InBody(a, p, parser, request, h, Taken)
  BY PlacedInHeader
<1>2. /\ LineRead(parser, request) /\ HeadersRead(request, Taken, Count)
      /\ request.is_header_complete /\ p \in BodyAt .. Len(stream) + 1
      /\ h = Saying("on_body", From(BodyAt, p))
      /\ ~parser.upgrade /\ Len(stream) + 1 - p <= parser.content_length
  BY <1>1 DEF InBody
<1>3. /\ Described /\ Typed /\ p \in Nat /\ 1 <= p /\ endp \in Nat /\ p + 1 <= endp
      /\ Len(stream) \in Nat /\ endp <= Len(stream) + 1 /\ stream \in Seq(Bytes)
      /\ parser \in ParserType /\ request \in RequestType /\ parser.error = "OK"
      /\ parser.span.cb = SpanOf(a) /\ At(a)
  BY ReadyHere
<1>4. "on_body" \in Callbacks /\ SpanOf(a) = "on_body"
  BY SpanTable DEF Callbacks, BodyNodes
<1>5. BodyAt \in Nat /\ 1 <= BodyAt /\ BodyAt <= p
  <2>1. HeaderAt(Count + 1) \in Nat /\ BodyAt = HeaderAt(Count + 1) + 2
    BY <1>3, LineLaid
  <2> QED
    BY <1>2, <2>1
<1>6. AtHand \in Nat /\ p + AtHand <= endp
  BY <1>3, ConsumedTyped
<1>7. at \in Nat /\ p <= at /\ at <= endp /\ at <= Len(stream) + 1
  BY <1>3, <1>6
<1>8. /\ Consumed.error = "OK" /\ Consumed.span = parser.span /\ Consumed.method = parser.method
      /\ Consumed.flags = parser.flags /\ Consumed.upgrade = parser.upgrade
      /\ Consumed.content_length = parser.content_length - AtHand
      /\ FieldsOK(Consumed, at)
  BY <1>3, ConsumedTyped DEF Consumed, ParserType
<1>9. HeardBy(parser, request, at) = Saying("on_body", From(BodyAt, at))
  <2>1. h["on_body"] = From(BodyAt, p)
    BY <1>2, <1>4, Sayings
  <2> HIDE DEF at
  <2>2. HeardBy(parser, request, at) = [h EXCEPT !["on_body"] = From(BodyAt, at)]
    BY <1>3, <1>4, <1>5, <1>7, <2>1, HearOn
  <2> HIDE DEF h
  <2> QED
    BY <1>2, <1>4, <2>2, Sayings
<1>10. at \in BodyAt .. Len(stream) + 1
  BY <1>3, <1>5, <1>7
<1>13. parser.content_length \in Nat
  BY <1>3 DEF ParserType
<1>11. CASE AtHand < parser.content_length
  <2>1. Move(a, AtHand, Consumed, request)
    <3>1. AtHand # parser.content_length
      BY <1>6, <1>11, <1>13
    <3> QED
      BY <3>1 DEF ConsumeContentLength1
  <2>2. HeardBy(Consumed, request, at) = Saying("on_body", From(BodyAt, at))
    BY <1>8, <1>9, HearSame
  <2>3. LineRead(Consumed, request)
    BY <1>2, <1>8 DEF LineRead, UrlRead, MethodRead
  <2>4. Len(stream) + 1 - at <= Consumed.content_length
    <3> DEFINE c == parser.content_length
               m == Len(stream)
    <3>1. m + 1 - p <= c /\ c \in Nat /\ m \in Nat /\ p \in Nat /\ n \in Nat
      BY <1>2, <1>3, <1>6 DEF ParserType
    <3> HIDE DEF c, m, n
    <3>2. m + 1 - (p + n) <= c - n
      BY <3>1
    <3> QED
      BY <1>8, <3>2 DEF c, m, n
  <2>5. InBody(a, at, Consumed, request, HeardBy(Consumed, request, at), Taken)
    BY <1>2, <1>8, <1>10, <2>2, <2>3, <2>4 DEF InBody
  <2> QED
    BY <1>8, <2>1, <2>5, BodyGoes
<1>12. CASE AtHand = parser.content_length
  <2> DEFINE q == [Consumed EXCEPT !.span = NoSpan]
             r == Delivered(at)
  <2>1. Consumed \in ParserType
    BY <1>8 DEF FieldsOK
  <2>2. /\ q \in ParserType /\ q.error = "OK" /\ q.span.cb = "none" /\ q.method = parser.method
        /\ q.flags = parser.flags /\ q.upgrade = parser.upgrade
    BY <1>8, <2>1 DEF ParserType, NoSpan
  <2>3. MessageComplete(AtHand, q, r)
    <3>1. ~(AtHand < parser.content_length)
      BY <1>6, <1>12, <1>13
    <3> QED
      BY <3>1 DEF ConsumeContentLength1
  <2> HIDE DEF q
  <2>4. AfterMessageComplete(AtHand, q, r)
    BY <1>2, <2>2, <2>3 DEF MessageComplete
  <2>5. at = Len(stream) + 1
    <3> DEFINE c == parser.content_length
               m == Len(stream)
    <3>1. m + 1 - p <= n /\ m \in Nat /\ p \in Nat /\ n \in Nat
      BY <1>2, <1>3, <1>6, <1>12
    <3>2. p + n <= m + 1
      BY <1>7
    <3> HIDE DEF m, n
    <3>3. p + n = m + 1
      BY <3>1, <3>2
    <3> QED
      BY <3>3 DEF m, n
  <2> HIDE DEF r
  <2>6. /\ r.buf = Saying("on_body", From(BodyAt, at)) /\ r.buf \in [Callbacks -> Seq(Bytes)]
        /\ SameHead(request, r)
    <3>1. at \in Int
      BY <1>7
    <3> HIDE DEF at
    <3> QED
      BY <1>4, <1>7, <1>9, <3>1, EndHears DEF r
  <2>7. LineRead(q, r) /\ HeadersRead(r, Taken, Count) /\ r.is_header_complete
    BY <1>2, <2>2, <2>6 DEF LineRead, UrlRead, MethodRead, HeadersRead, SameHead
  <2>8. BodyAt <= Len(stream) + 1 /\ q.flags \subseteq parser.flags
    BY <1>3, <1>5, <1>7, <2>2
  <2> QED
    BY <1>3, <1>5, <2>2, <2>4, <2>5, <2>6, <2>7, <2>8, EndGoes
<1> QED
  BY <1>11, <1>12 DEF ConsumeContentLength1

-----------------------------------------------------------------------------
(* What is known of the parser as it stands.                               *)
Stands ==
  /\ Described /\ Typed /\ ParserInv /\ CountInv
  /\ Reading(cur, p, parser, request, Heard, Taken)

LEMMA StandsReady ==
  ASSUME Stands, NEW a, At(a)
  PROVE  Ready(a)
  BY HeardNow DEF Stands, Ready, At

(* The states that a well-formed request never reaches.                    *)
Unreached ==
  {"url_entry_connect", "url_skip_to_http09", "url_skip_lf_to_http09",
   "url_skip_lf_to_http09_1", "url_to_http_09", "req_pri_upgrade",
   "header_value_te_chunked", "header_value_te_chunked_last",
   "header_value_te_token", "header_value_te_token_ows", "chunk_size_digit",
   "chunk_size", "chunk_size_otherwise", "chunk_size_almost_done",
   "chunk_extensions", "chunk_extension_name", "chunk_extension_value",
   "chunk_extension_quoted_value", "chunk_extension_quoted_value_quoted_pair",
   "chunk_extension_quoted_value_done", "consume_content_length",
   "chunk_data_almost_done", "chunk_data_almost_done_1", "closed"}

LEMMA NeverReached ==
  ASSUME Stands, NEW a \in Unreached
  PROVE  ~At(a)
<1> SUFFICES ASSUME At(a) PROVE FALSE
  OBVIOUS
<1>1. Ready(a)
  BY StandsReady
<1>2. a \notin SpaceNodes \cup UrlNodes \cup BehindUrlNodes \cup VersionNodes \cup LineEndNodes
  BY DEF Unreached, SpaceNodes, UrlNodes, BehindUrlNodes, VersionNodes, LineEndNodes
<1>3. a \notin FieldNodes \cup BlankNodes \cup PlainValueNodes \cup BehindNodes
  BY DEF Unreached, FieldNodes, BlankNodes, PlainValueNodes, OptionNodes, BehindNodes
<1>4. a \notin {"start", "after_start_req", "req_http_start", "header_field_start",
                "headers_almost_done", "consume_content_length_1"}
  BY DEF Unreached
<1> QED
  BY <1>1, <1>2, <1>3, <1>4, Placed

LEMMA RequestLineGoes ==
  ASSUME Stands, RequestLineStep
  PROVE  Goes
<1>1. CASE Start
  <2>1. Ready("start")
    BY <1>1, StandsReady DEF Start
  <2> QED
    BY <1>1, <2>1, StartGoes
<1>2. CASE AfterStartReq
  <2>1. Ready("after_start_req")
    BY <1>2, StandsReady DEF AfterStartReq
  <2> QED
    BY <1>2, <2>1, AfterStartReqGoes
<1>3. CASE ReqFirstSpaceBeforeUrl \/ ReqSpacesBeforeUrl \/ UrlEntryNormal
  <2>1. \E a \in SpaceNodes : At(a)
    BY <1>3 DEF ReqFirstSpaceBeforeUrl, ReqSpacesBeforeUrl, UrlEntryNormal, UrlEntry, SpaceNodes
  <2> QED
    BY <1>3, <2>1, StandsReady, SpaceGoes
<1>4. CASE UrlStep
  <2>1. \E a \in UrlNodes : At(a)
    BY <1>4 DEF UrlStep, UrlStart, UrlSchema, UrlSchemaDelim, UrlSchemaDelim1, UrlServer,
                UrlServerWithAt, UrlPath, UrlQueryOrFragment, UrlQuery, UrlFragment, UrlNodes
  <2> QED
    BY <1>4, <2>1, StandsReady, UrlGoes
<1>5. CASE UrlSkipToHttp \/ UrlToHttp
  <2>1. \E a \in BehindUrlNodes : At(a)
    BY <1>5 DEF UrlSkipToHttp, UrlToHttp, BehindUrlNodes
  <2> QED
    BY <1>5, <2>1, StandsReady, BehindUrlGoes
<1>6. CASE ReqHttpStart
  <2>1. Ready("req_http_start")
    BY <1>6, StandsReady DEF ReqHttpStart
  <2> QED
    BY <1>6, <2>1, ProtocolGoes
<1>7. CASE ReqHttpMajor \/ ReqHttpDot \/ ReqHttpMinor
  <2>1. \E a \in VersionNodes : At(a)
    BY <1>7 DEF ReqHttpMajor, ReqHttpDot, ReqHttpMinor, VersionNodes
  <2> QED
    BY <1>7, <2>1, StandsReady, VersionGoes
<1>8. CASE ReqHttpComplete \/ ReqHttpCompleteCrlf
  <2>1. \E a \in LineEndNodes : At(a)
    BY <1>8 DEF ReqHttpComplete, ReqHttpCompleteCrlf, LineEndNodes
  <2> QED
    BY <1>8, <2>1, StandsReady, LineEndGoes
<1>9. CASE UrlEntryConnect \/ UrlSkipToHttp09 \/ UrlSkipLfToHttp09 \/ UrlSkipLfToHttp091
             \/ UrlToHttp09 \/ ReqPriUpgrade
  <2>1. \E a \in Unreached : At(a)
    BY <1>9 DEF UrlEntryConnect, UrlEntry, UrlSkipToHttp09, UrlSkipLfToHttp09,
                UrlSkipLfToHttp091, UrlToHttp09, ReqPriUpgrade, Unreached
  <2> QED
    BY <2>1, NeverReached
<1> QED
  BY <1>1, <1>2, <1>3, <1>4, <1>5, <1>6, <1>7, <1>8, <1>9 DEF RequestLineStep, UrlStep

LEMMA FieldStepGoes ==
  ASSUME Stands,
         HeadersStart \/ HeaderFieldStart \/ HeaderField \/ HeaderFieldColon
           \/ HeaderFieldGeneral \/ HeadersAlmostDone
  PROVE  Goes
<1>1. CASE HeadersStart
  <2>1. "headers_start" \in LineEndNodes /\ Ready("headers_start")
    BY <1>1, StandsReady DEF HeadersStart, LineEndNodes
  <2> QED
    BY <1>1, <2>1, LineEndGoes
<1>2. CASE HeaderFieldStart
  <2>1. Ready("header_field_start")
    BY <1>2, StandsReady DEF HeaderFieldStart
  <2> QED
    BY <1>2, <2>1, FieldStartGoes
<1>3. CASE HeaderField
  <2>1. Ready("header_field")
    BY <1>3, StandsReady DEF HeaderField
  <2> QED
    BY <1>3, <2>1, HeaderFieldGoes
<1>4. CASE HeaderFieldColon
  <2>1. Ready("header_field_colon")
    BY <1>4, StandsReady DEF HeaderFieldColon
  <2> QED
    BY <1>4, <2>1, FieldColonGoes
<1>5. CASE HeaderFieldGeneral
  <2>1. Ready("header_field_general")
    BY <1>5, StandsReady DEF HeaderFieldGeneral
  <2> QED
    BY <1>5, <2>1, FieldGeneralGoes
<1>6. CASE HeadersAlmostDone
  <2>1. Ready("headers_almost_done")
    BY <1>6, StandsReady DEF HeadersAlmostDone
  <2> QED
    BY <1>6, <2>1, HeadersAlmostDoneGoes
<1> QED
  BY <1>1, <1>2, <1>3, <1>4, <1>5, <1>6

LEMMA AroundValueGoes ==
  ASSUME Stands,
         HeaderValueDiscardWs \/ HeaderValueDiscardWsAlmostDone \/ HeaderValueDiscardLws
           \/ HeaderValueOtherwise \/ HeaderValueAlmostDone \/ HeaderValueLws
  PROVE  Goes
<1>1. CASE HeaderValueDiscardWs
  <2>1. Ready("header_value_discard_ws")
    BY <1>1, StandsReady DEF HeaderValueDiscardWs
  <2> QED
    BY <1>1, <2>1, DiscardWsGoes
<1>2. CASE HeaderValueDiscardWsAlmostDone
  <2>1. Ready("header_value_discard_ws_almost_done")
    BY <1>2, StandsReady DEF HeaderValueDiscardWsAlmostDone
  <2> QED
    BY <1>2, <2>1, DiscardEndGoes
<1>3. CASE HeaderValueDiscardLws
  <2>1. Ready("header_value_discard_lws")
    BY <1>3, StandsReady DEF HeaderValueDiscardLws
  <2> QED
    BY <1>3, <2>1, DiscardLwsGoes
<1>4. CASE HeaderValueOtherwise
  <2>1. Ready("header_value_otherwise")
    BY <1>4, StandsReady DEF HeaderValueOtherwise
  <2> QED
    BY <1>4, <2>1, OtherwiseGoes
<1>5. CASE HeaderValueAlmostDone
  <2>1. Ready("header_value_almost_done")
    BY <1>5, StandsReady DEF HeaderValueAlmostDone
  <2> QED
    BY <1>5, <2>1, AlmostDoneGoes
<1>6. CASE HeaderValueLws
  <2>1. Ready("header_value_lws")
    BY <1>6, StandsReady DEF HeaderValueLws
  <2> QED
    BY <1>6, <2>1, LwsGoes
<1> QED
  BY <1>1, <1>2, <1>3, <1>4, <1>5, <1>6

LEMMA InValueGoes ==
  ASSUME Stands,
         HeaderValue \/ HeaderValueConnection \/ HeaderValueConnectionWs
           \/ HeaderValueConnectionToken \/ HeaderValueContentLength
           \/ HeaderValueContentLengthWs
  PROVE  Goes
<1>1. CASE HeaderValue
  <2>1. Ready("header_value")
    BY <1>1, StandsReady DEF HeaderValue
  <2> QED
    BY <1>1, <2>1, ValueGoes
<1>2. CASE HeaderValueConnection
  <2>1. Ready("header_value_connection")
    BY <1>2, StandsReady DEF HeaderValueConnection
  <2> QED
    BY <1>2, <2>1, ConnectionGoes
<1>3. CASE HeaderValueConnectionWs
  <2>1. Ready("header_value_connection_ws")
    BY <1>3, StandsReady DEF HeaderValueConnectionWs
  <2> QED
    BY <1>3, <2>1, ConnectionWsGoes
<1>4. CASE HeaderValueConnectionToken
  <2>1. Ready("header_value_connection_token")
    BY <1>4, StandsReady DEF HeaderValueConnectionToken
  <2> QED
    BY <1>4, <2>1, ConnectionTokenGoes
<1>5. CASE HeaderValueContentLength
  <2>1. Ready("header_value_content_length")
    BY <1>5, StandsReady DEF HeaderValueContentLength
  <2> QED
    BY <1>5, <2>1, ContentLengthGoes
<1>6. CASE HeaderValueContentLengthWs
  <2>1. Ready("header_value_content_length_ws")
    BY <1>6, StandsReady DEF HeaderValueContentLengthWs
  <2> QED
    BY <1>6, <2>1, ContentLengthWsGoes
<1> QED
  BY <1>1, <1>2, <1>3, <1>4, <1>5, <1>6

LEMMA NoEncodingStep ==
  ASSUME Stands
  PROVE  ~(HeaderValueTeChunked \/ HeaderValueTeChunkedLast \/ HeaderValueTeToken
             \/ HeaderValueTeTokenOws)
<1>1. HeaderValueTeChunked \/ HeaderValueTeChunkedLast \/ HeaderValueTeToken
        \/ HeaderValueTeTokenOws => \E a \in Unreached : At(a)
  BY DEF HeaderValueTeChunked, HeaderValueTeChunkedLast, HeaderValueTeToken,
         HeaderValueTeTokenOws, Unreached
<1> QED
  BY <1>1, NeverReached

LEMMA BodyStepGoes ==
  ASSUME Stands, BodyStep
  PROVE  Goes
<1>1. CASE ConsumeContentLength1
  <2>1. Ready("consume_content_length_1")
    BY <1>1, StandsReady DEF ConsumeContentLength1
  <2> QED
    BY <1>1, <2>1, ConsumeGoes
<1>2. CASE BodyStep /\ ~ConsumeContentLength1
  <2>1. \E a \in Unreached : At(a)
    BY <1>2 DEF BodyStep, ConsumeContentLength, ChunkSizeDigit, ChunkSize, ChunkSizeOtherwise,
                ChunkSizeAlmostDone, ChunkExtensions, ChunkExtensionName, ChunkExtensionValue,
                ChunkExtensionQuotedValue, ChunkExtensionQuotedPair,
                ChunkExtensionQuotedValueDone, ChunkDataAlmostDone, ChunkDataAlmostDone1,
                Closed, Unreached
  <2> QED
    BY <2>1, NeverReached
<1> QED
  BY <1>1, <1>2

(* Every step of the parser leads on.                                      *)
LEMMA ParserStepGoes ==
  ASSUME Stands, ParserStep
  PROVE  Goes
<1>1. HeaderStep => Goes
  BY FieldStepGoes, AroundValueGoes, InValueGoes, NoEncodingStep DEF HeaderStep
<1> QED
  BY <1>1, RequestLineGoes, BodyStepGoes DEF ParserStep

-----------------------------------------------------------------------------
(* What a place says of the fields, whatever the callbacks have got.       *)
LEMMA ReadingTells ==
  ASSUME NEW node, NEW at, NEW q, NEW r, NEW h, NEW n, Count \in Nat,
         Reading(node, at, q, r, h, n)
  PROVE  /\ q.error = "OK"
         /\ \E k \in 0 .. Count : HeadersRead(r, n, k) /\ (k # 0 => LineRead(q, r))
         /\ r.version = {} \/ LineRead(q, r)
         /\ r.is_header_complete => InBody(node, at, q, r, h, n)
<1>1. CASE InLine(node, at, q, r, h, n)
  <2>1. HeadersRead(r, n, 0) /\ ~r.is_header_complete /\ 0 \in 0 .. Count
    BY <1>1 DEF InLine
  <2>2. r.version = {} \/ LineRead(q, r)
    BY <1>1 DEF InLine, OnStart, OnMethod, OnSpace, OnUrl, BehindUrl, OnProtocol, OnVersion,
                OnLineEnd
  <2> QED
    BY <2>1, <2>2 DEF Reading
<1>2. CASE \E k \in 1 .. Count + 1 : InHeader(node, at, q, r, h, n, k)
  <2>1. PICK k \in 1 .. Count + 1 : InHeader(node, at, q, r, h, n, k)
    BY <1>2
  <2>2. k - 1 \in 0 .. Count
    OBVIOUS
  <2>3. LineRead(q, r) /\ HeadersRead(r, n, k - 1) /\ ~r.is_header_complete
    BY <2>1 DEF InHeader
  <2> QED
    BY <2>2, <2>3 DEF Reading
<1>3. CASE InBody(node, at, q, r, h, n)
  <2>1. LineRead(q, r) /\ HeadersRead(r, n, Count) /\ Count \in 0 .. Count
    BY <1>3 DEF InBody
  <2> QED
    BY <1>3, <2>1 DEF Reading
<1> QED
  BY <1>1, <1>2, <1>3 DEF Reading

(* The fields of the parser it depends on: all but the span.               *)
SameButSpan(q, v) ==
  /\ v.matched = q.matched /\ v.error = q.error /\ v.header_state = q.header_state
  /\ v.flags = q.flags /\ v.content_length = q.content_length /\ v.method = q.method
  /\ v.http_major = q.http_major /\ v.upgrade = q.upgrade

LEMMA LineOfSame ==
  ASSUME NEW q, NEW v, SameButSpan(q, v), NEW r, NEW w, SameHead(r, w)
  PROVE  /\ MethodRead(q, r) => MethodRead(v, w)
         /\ UrlRead(q, r) => UrlRead(v, w)
         /\ LineRead(q, r) => LineRead(v, w)
         /\ \A n, k : HeadersRead(r, n, k) => HeadersRead(w, n, k)
         /\ w.version = r.version /\ w.is_header_complete = r.is_header_complete
  BY DEF SameButSpan, SameHead, MethodRead, UrlRead, LineRead, HeadersRead

LEMMA InLineOfSame ==
  ASSUME NEW q, NEW v, SameButSpan(q, v), NEW r, NEW w, SameHead(r, w),
         NEW node, NEW at, NEW h, NEW n, InLine(node, at, q, r, h, n)
  PROVE  InLine(node, at, v, w, h, n)
<1> USE LineOfSame DEF SameButSpan
<1>1. v.flags = {} /\ HeadersRead(w, n, 0) /\ ~w.is_header_complete
  BY DEF InLine
<1>2. OnStart(node, at, r, h) => OnStart(node, at, w, h)
  BY DEF OnStart
<1>3. OnMethod(node, at, q, r, h) => OnMethod(node, at, v, w, h)
  BY DEF OnMethod
<1>4. OnSpace(node, at, q, r, h) => OnSpace(node, at, v, w, h)
  BY DEF OnSpace
<1>5. OnUrl(node, at, q, r, h) => OnUrl(node, at, v, w, h)
  BY DEF OnUrl
<1>6. BehindUrl(node, at, q, r, h) => BehindUrl(node, at, v, w, h)
  BY DEF BehindUrl
<1>7. OnProtocol(node, at, q, r, h) => OnProtocol(node, at, v, w, h)
  BY DEF OnProtocol
<1>8. OnVersion(node, at, q, r, h) => OnVersion(node, at, v, w, h)
  BY DEF OnVersion
<1>9. OnLineEnd(node, at, q, r, h) => OnLineEnd(node, at, v, w, h)
  BY DEF OnLineEnd
<1> QED
  BY <1>1, <1>2, <1>3, <1>4, <1>5, <1>6, <1>7, <1>8, <1>9 DEF InLine

LEMMA InHeaderOfSame ==
  ASSUME NEW q, NEW v, SameButSpan(q, v), NEW r, NEW w, SameHead(r, w),
         NEW node, NEW at, NEW h, NEW n, NEW k, InHeader(node, at, q, r, h, n, k)
  PROVE  InHeader(node, at, v, w, h, n, k)
<1>1. \A j : (Lengths(q, j) => Lengths(v, j)) /\ (Labelled(q, j) => Labelled(v, j))
  BY DEF SameButSpan, Lengths, Labelled
<1>2. OnFieldStart(node, at, q, h, k) => OnFieldStart(node, at, v, h, k)
  BY <1>1 DEF OnFieldStart
<1>3. OnName(node, at, q, h, k) => OnName(node, at, v, h, k)
  <2>1. NamePlace(node, at, q, k) => NamePlace(node, at, v, k)
    BY DEF NamePlace, SameButSpan
  <2> QED
    BY <1>1, <2>1 DEF OnName
<1>4. OnBlanks(node, at, q, h, k) => OnBlanks(node, at, v, h, k)
  BY <1>1 DEF OnBlanks
<1>5. OnValue(node, at, q, h, k) => OnValue(node, at, v, h, k)
  <2>1. ValuePlace(node, at, q, k) => ValuePlace(node, at, v, k)
    BY <1>1 DEF ValuePlace, SameButSpan
  <2> QED
    BY <1>1, <2>1 DEF OnValue
<1>6. BehindValue(node, at, q, h, k) => BehindValue(node, at, v, h, k)
  BY <1>1 DEF BehindValue
<1>7. LineRead(v, w) /\ HeadersRead(w, n, k - 1) /\ ~w.is_header_complete
      /\ v.flags \cap Untold = {}
  BY LineOfSame DEF InHeader, SameButSpan
<1> QED
  BY <1>2, <1>3, <1>4, <1>5, <1>6, <1>7 DEF InHeader

LEMMA ReadingOfSame ==
  ASSUME NEW q, NEW v, SameButSpan(q, v), NEW r, NEW w, SameHead(r, w),
         NEW node, NEW at, NEW h, NEW n, Reading(node, at, q, r, h, n)
  PROVE  Reading(node, at, v, w, h, n)
<1>1. InBody(node, at, q, r, h, n) => InBody(node, at, v, w, h, n)
  BY LineOfSame DEF InBody, SameButSpan
<1>2. v.error = q.error
  BY DEF SameButSpan
<1> QED
  BY <1>1, <1>2, InLineOfSame, InHeaderOfSame DEF Reading

(* The headers are taken from the fields.                                  *)
LEMMA ReadingOfTaken ==
  ASSUME NEW q, NEW r, NEW w, NEW node, NEW at, NEW h, NEW n, NEW k \in Nat, Count \in Nat,
         Reading(node, at, q, r, h, n), HeadersRead(r, n, k),
         \A m \in 0 .. Count : HeadersRead(r, n, m) => m = k,
         w.method = r.method, w.url = r.url, w.version = r.version, w.headers = {},
         w.is_header_complete = r.is_header_complete
  PROVE  Reading(node, at, q, w, h, k)
<1>1. HeadersRead(w, k, k)
  <2>1. k + 1 .. k = {}
    OBVIOUS
  <2> QED
    BY <2>1 DEF HeadersRead
<1>2. /\ MethodRead(q, r) => MethodRead(q, w)
      /\ UrlRead(q, r) => UrlRead(q, w)
      /\ LineRead(q, r) => LineRead(q, w)
  BY DEF MethodRead, UrlRead, LineRead
<1>3. ASSUME InLine(node, at, q, r, h, n) PROVE InLine(node, at, q, w, h, k)
  <2>1. k = 0
    BY <1>3 DEF InLine
  <2>2. HeadersRead(w, k, 0) /\ q.flags = {} /\ ~w.is_header_complete
    BY <1>1, <1>3, <2>1 DEF InLine
  <2>3. /\ OnStart(node, at, r, h) => OnStart(node, at, w, h)
        /\ OnMethod(node, at, q, r, h) => OnMethod(node, at, q, w, h)
        /\ OnSpace(node, at, q, r, h) => OnSpace(node, at, q, w, h)
        /\ OnUrl(node, at, q, r, h) => OnUrl(node, at, q, w, h)
    BY <1>2 DEF OnStart, OnMethod, OnSpace, OnUrl
  <2>4. /\ BehindUrl(node, at, q, r, h) => BehindUrl(node, at, q, w, h)
        /\ OnProtocol(node, at, q, r, h) => OnProtocol(node, at, q, w, h)
        /\ OnVersion(node, at, q, r, h) => OnVersion(node, at, q, w, h)
        /\ OnLineEnd(node, at, q, r, h) => OnLineEnd(node, at, q, w, h)
    BY <1>2 DEF BehindUrl, OnProtocol, OnVersion, OnLineEnd
  <2> QED
    BY <1>3, <2>2, <2>3, <2>4 DEF InLine
<1>4. ASSUME NEW j \in 1 .. Count + 1, InHeader(node, at, q, r, h, n, j)
      PROVE  InHeader(node, at, q, w, h, k, j)
  <2>1. k = j - 1
    <3>1. j - 1 \in 0 .. Count
      OBVIOUS
    <3> QED
      BY <1>4, <3>1 DEF InHeader
  <2> QED
    BY <1>1, <1>2, <1>4, <2>1 DEF InHeader
<1>5. ASSUME InBody(node, at, q, r, h, n) PROVE InBody(node, at, q, w, h, k)
  <2>1. k = Count
    <3>1. Count \in 0 .. Count
      OBVIOUS
    <3> QED
      BY <1>5, <3>1 DEF InBody
  <2> QED
    BY <1>1, <1>2, <1>5, <2>1 DEF InBody
<1> QED
  BY <1>3, <1>4, <1>5 DEF Reading

-----------------------------------------------------------------------------
(* The headers that are taken.                                             *)

(* Those of a request are different.                                       *)
LEMMA Distinct ==
  ASSUME Described, NEW i \in 1 .. Count, NEW j \in 1 .. Count, Nth(i) = Nth(j)
  PROVE  i = j
  BY HeadersAreOK

LEMMA OneReading ==
  ASSUME Described, NEW r, NEW n, NEW k \in 0 .. Count, NEW m \in 0 .. Count,
         HeadersRead(r, n, k), HeadersRead(r, n, m)
  PROVE  m = k
<1>1. n \in Nat /\ n <= k /\ n <= m /\ Count \in Nat
  BY Parts DEF HeadersRead
<1>2. {Nth(j) : j \in n + 1 .. k} = {Nth(j) : j \in n + 1 .. m}
  BY DEF HeadersRead
<1>3. ASSUME NEW a \in 0 .. Count, NEW b \in 0 .. Count, n <= a, a < b,
             {Nth(j) : j \in n + 1 .. a} = {Nth(j) : j \in n + 1 .. b}
      PROVE  FALSE
  <2>1. b \in n + 1 .. b
    BY <1>1, <1>3
  <2>2. PICK j \in n + 1 .. a : Nth(j) = Nth(b)
    BY <1>3, <2>1
  <2>3. j \in 1 .. Count /\ b \in 1 .. Count /\ j # b
    BY <1>1, <1>3
  <2> QED
    BY <2>2, <2>3, Distinct
<1>4. ~(k < m) /\ ~(m < k)
  BY <1>1, <1>2, <1>3
<1> QED
  BY <1>4

(* As many as there are.                                                   *)
LEMMA HowMany ==
  ASSUME Described, NEW n \in Nat, NEW k \in 0 .. Count, n <= k
  PROVE  LET S == {Nth(j) : j \in n + 1 .. k}
         IN  IsFiniteSet(S) /\ Cardinality(S) = k - n
<1> DEFINE I == n + 1 .. k
           S == {Nth(j) : j \in I}
           f == [j \in I |-> Nth(j)]
<1>1. k \in Nat /\ I \subseteq 1 .. Count
  BY Parts
<1>2. IsFiniteSet(I) /\ Cardinality(I) = k - n
  <2>1. n + 1 \in Int /\ k \in Int
    BY <1>1
  <2>2. IsFiniteSet(I) /\ Cardinality(I) = IF n + 1 > k THEN 0 ELSE k - (n + 1) + 1
    BY <2>1, FS_Interval
  <2> QED
    BY <1>1, <2>2
<1>3. f \in Bijection(I, S)
  <2>1. f \in Injection(I, S)
    <3>1. \A i, j \in I : f[i] = f[j] => i = j
      BY <1>1, Distinct
    <3> QED
      BY <3>1 DEF Injection, IsInjective
  <2>2. f \in Surjection(I, S)
    BY DEF Surjection
  <2> QED
    BY <2>1, <2>2 DEF Bijection
<1>4. ExistsBijection(I, S)
  BY <1>3 DEF ExistsBijection
<1> HIDE DEF I, S, f
<1>5. IsFiniteSet(S) /\ Cardinality(S) = Cardinality(I)
  BY <1>2, <1>4, FS_Bijection
<1> QED
  BY <1>2, <1>5 DEF S, I

(* A sequence of all members of a set.                                     *)
LEMMA SequenceOfAll ==
  ASSUME NEW S, IsFiniteSet(S), NEW hs \in SetToSeqs(S)
  PROVE  /\ Cardinality(S) \in Nat /\ DOMAIN hs = 1 .. Cardinality(S)
         /\ {hs[i] : i \in DOMAIN hs} = S
<1> DEFINE c == Cardinality(S)
           D == 1 .. c
<1>1. c \in Nat
  BY FS_CardinalityType
<1>2. hs \in [D -> S] /\ \A i, j \in D : i # j => hs[i] # hs[j]
  BY DEF SetToSeqs
<1>3. hs \in Injection(D, S)
  BY <1>2 DEF Injection, IsInjective
<1>4. IsFiniteSet(D) /\ Cardinality(D) = c
  <2>1. 1 \in Int /\ c \in Int
    BY <1>1
  <2>2. IsFiniteSet(D) /\ Cardinality(D) = IF 1 > c THEN 0 ELSE c - 1 + 1
    BY <2>1, FS_Interval
  <2> QED
    BY <1>1, <2>2
<1> HIDE DEF D
<1>5. hs \in Surjection(D, S)
  BY <1>3, <1>4, FS_Injection
<1>6. \A s \in S : \E i \in D : hs[i] = s
  BY <1>5 DEF Surjection
<1> QED
  BY <1>1, <1>2, <1>6 DEF D

LEMMA TakenUnits ==
  ASSUME Described, NEW n \in Nat, NEW k \in 0 .. Count, n <= k,
         NEW hs \in SetToSeqs({Nth(j) : j \in n + 1 .. k})
  PROVE  /\ DOMAIN hs = 1 .. k - n
         /\ {Header(Overridden(hs[i])) : i \in DOMAIN hs}
              = {Header(Overridden(Nth(j))) : j \in n + 1 .. k}
<1> DEFINE S == {Nth(j) : j \in n + 1 .. k}
<1>1. IsFiniteSet(S) /\ Cardinality(S) = k - n
  BY HowMany
<1> HIDE DEF S
<1>2. DOMAIN hs = 1 .. k - n /\ {hs[i] : i \in DOMAIN hs} = S
  BY <1>1, SequenceOfAll DEF S
<1>3. {Header(Overridden(hs[i])) : i \in DOMAIN hs} = {Header(Overridden(h)) : h \in S}
  BY <1>2
<1>4. {Header(Overridden(h)) : h \in S} = {Header(Overridden(Nth(j))) : j \in n + 1 .. k}
  BY DEF S
<1> QED
  BY <1>2, <1>3, <1>4

(* They go behind those that were sent.                                    *)
LEMMA SentMore ==
  ASSUME NEW n \in Nat, NEW k \in Nat, n <= k, NEW f \in Seq(Unit), Sent(f, n),
         NEW t \in Seq(Unit), Len(t) = k - n,
         {t[i] : i \in 1 .. Len(t)} = {Header(Overridden(Nth(j))) : j \in n + 1 .. k}
  PROVE  Sent(f \o t, k)
<1> DEFINE g == f \o t
           U(j) == Header(Overridden(Nth(j)))
<1> HIDE DEF U
<1>1. /\ Len(f) = n + 1 /\ f[1] = LineUnit
      /\ {f[i] : i \in 2 .. n + 1} = {U(j) : j \in 1 .. n}
  BY DEF Sent, U
<1>2. /\ Len(g) = Len(f) + Len(t)
      /\ \A i \in 1 .. Len(f) + Len(t) : g[i] = IF i <= Len(f) THEN f[i] ELSE t[i - Len(f)]
  BY ConcatProperties
<1>3. Len(g) = k + 1
  BY <1>1, <1>2
<1>4. \A i \in 1 .. k + 1 : g[i] = IF i <= n + 1 THEN f[i] ELSE t[i - (n + 1)]
  BY <1>1, <1>2
<1> HIDE DEF g
<1>5. g[1] = LineUnit
  BY <1>1, <1>4
<1>6. {t[i] : i \in 1 .. k - n} = {U(j) : j \in n + 1 .. k}
  BY DEF U
<1>7. ASSUME NEW i \in 2 .. k + 1 PROVE g[i] \in {U(j) : j \in 1 .. k}
  <2>1. CASE i <= n + 1
    <3>1. i \in 2 .. n + 1 /\ g[i] = f[i]
      BY <1>4, <2>1
    <3>2. PICK j \in 1 .. n : g[i] = U(j)
      BY <1>1, <3>1
    <3>3. j \in 1 .. k
      OBVIOUS
    <3> QED
      BY <3>2, <3>3
  <2>2. CASE ~(i <= n + 1)
    <3>1. i - (n + 1) \in 1 .. k - n /\ g[i] = t[i - (n + 1)]
      BY <1>4, <2>2
    <3>2. PICK j \in n + 1 .. k : g[i] = U(j)
      BY <1>6, <3>1
    <3>3. j \in 1 .. k
      OBVIOUS
    <3> QED
      BY <3>2, <3>3
  <2> QED
    BY <2>1, <2>2
<1>8. ASSUME NEW j \in 1 .. k PROVE U(j) \in {g[i] : i \in 2 .. k + 1}
  <2>1. CASE j <= n
    <3>a. j \in 1 .. n
      BY <2>1
    <3>1. PICK i \in 2 .. n + 1 : f[i] = U(j)
      BY <1>1, <3>a
    <3>2. i \in 2 .. k + 1 /\ i \in 1 .. k + 1 /\ i <= n + 1
      OBVIOUS
    <3> QED
      BY <1>4, <3>1, <3>2
  <2>2. CASE ~(j <= n)
    <3>1. j \in n + 1 .. k
      BY <2>2
    <3>2. PICK i \in 1 .. k - n : t[i] = U(j)
      BY <1>6, <3>1
    <3>3. i + (n + 1) \in 2 .. k + 1 /\ i + (n + 1) \in 1 .. k + 1 /\ ~(i + (n + 1) <= n + 1)
          /\ i + (n + 1) - (n + 1) = i
      OBVIOUS
    <3>4. g[i + (n + 1)] = t[i]
      BY <1>4, <3>3
    <3> QED
      BY <3>2, <3>3, <3>4
  <2> QED
    BY <2>1, <2>2
<1>9. {g[i] : i \in 2 .. k + 1} = {U(j) : j \in 1 .. k}
  BY <1>7, <1>8
<1> QED
  BY <1>3, <1>5, <1>9 DEF Sent, U, g

-----------------------------------------------------------------------------
(* The steps of the channel.                                               *)
LEMMA SameSent ==
  ASSUME stream' = stream, NEW f, NEW n
  PROVE  /\ Sent(f, n)' <=> Sent(f, n)
         /\ LineUnit' = LineUnit
<1>1. LineUnit' = LineUnit
  BY SamePlaces DEF LineUnit
<1> QED
  BY <1>1, SamePlaces DEF Sent

LEMMA SameHeadSent ==
  ASSUME stream' = stream, endp' = endp, NEW f
  PROVE  HeadSent(f)' <=> HeadSent(f)
<1>1. BodyAt' = BodyAt /\ Count' = Count /\ From(BodyAt, endp)' = From(BodyAt, endp)
  BY SamePlaces DEF From
<1> QED
  BY <1>1, SameSent DEF HeadSent

(* Nothing of the parser, and none of the headers, is touched.             *)
LEMMA ReadingKept ==
  ASSUME Reading(cur, p, parser, request, Heard, Taken), UNCHANGED parserVars, Taken' = Taken
  PROVE  Reading(cur, p, parser, request, Heard, Taken)'
<1>1. /\ stream' = stream /\ p' = p /\ executing' = executing /\ cur' = cur
      /\ parser' = parser /\ request' = request
  BY DEF parserVars
<1>2. Heard' = Heard
  <2>1. \A c : Open(c)' = Open(c)
    BY <1>1, SamePlaces DEF Open
  <2> QED
    BY <1>1, <2>1 DEF Heard
<1>3. Reading(cur', p', parser', request', Heard', Taken')
  BY <1>1, <1>2
<1> QED
  BY <1>1, <1>3, SameReading

LEMMA LoopKept ==
  ASSUME LoopInv, UNCHANGED parserVars, line_sent' = line_sent, Forwarded' = Forwarded,
         phase' \in {"write_headers", "head_end"} => request.headers = {}
  PROVE  LoopInv'
<1>1. /\ stream' = stream /\ p' = p /\ endp' = endp /\ executing' = executing /\ cur' = cur
      /\ parser' = parser /\ request' = request
  BY DEF parserVars
<1>2. Taken' = Taken
  BY DEF Taken
<1>4. Reading(cur, p, parser, request, Heard, Taken)'
  BY <1>2, ReadingKept DEF LoopInv
<1>5. IF line_sent THEN Sent(Forwarded, Taken) ELSE Forwarded = <<>>
  BY DEF LoopInv
<1>6. line_sent' => Sent(Forwarded, Taken)'
  BY <1>1, <1>2, <1>5, SameSent
<1>7. ~line_sent' => Forwarded' = <<>>
  BY <1>5
<1>8. ~executing' => p' = endp'
  BY <1>1 DEF LoopInv
<1> QED
  BY <1>1, <1>4, <1>6, <1>7, <1>8 DEF LoopInv

(* A step of the parser.                                                   *)
LEMMA ParseKeeps ==
  ASSUME TypedInv, CountInv, Described, LoopInv, phase = "execute", ParserStep,
         UNCHANGED channelVars
  PROVE  LoopInv' /\ parser'.error = "OK"
<1>1. Stands
  BY DEF TypedInv, LoopInv, Stands
<1>2. Goes
  BY <1>1, ParserStepGoes
<1>3. stream' = stream /\ executing' = executing
  BY ParserIsSteady DEF Steady
<1>4. executing
  BY ParserAdvances DEF TypedInv
<1>5. Reading(cur, p, parser, request, Heard, Taken)'
  BY <1>2, <1>4, GoesOn
<1>6. parser'.error = "OK"
  BY <1>5 DEF Reading
<1>7. /\ phase' = phase /\ line_sent' = line_sent /\ Forwarded' = Forwarded /\ Taken' = Taken
  BY DEF channelVars, Forwarded, Taken
<1>8. IF line_sent' THEN Sent(Forwarded, Taken)' ELSE Forwarded' = <<>>
  BY <1>3, <1>7, SameSent DEF LoopInv
<1> QED
  BY <1>3, <1>4, <1>5, <1>6, <1>7, <1>8 DEF LoopInv

(* The end of a buffer, with the open span delivered.                      *)
LEMMA ReturnKeeps ==
  ASSUME TypedInv, Described, LoopInv, phase = "execute", ExecuteReturns,
         UNCHANGED channelVars
  PROVE  LoopInv' /\ parser'.error = "OK"
<1> DEFINE h == HeardBy(parser, request, p)
<1>1. Reading(cur, p, parser, request, Heard, Taken) /\ executing /\ Count \in Nat
  BY Parts DEF LoopInv, ExecuteReturns
<1>2. parser.error = "OK" /\ Heard = h
  BY <1>1, ReadingTells, HeardNow
<1>3. /\ p = endp /\ executing' = FALSE /\ stream' = stream /\ p' = p /\ endp' = endp
      /\ cur' = cur /\ parser' = parser
      /\ request' = IF parser.span = NoSpan THEN request ELSE Delivered(p)
  BY <1>2 DEF ExecuteReturns
<1>4. /\ Typed /\ p \in Int /\ p <= Len(stream) + 1 /\ request \in RequestType
      /\ parser.span # NoSpan => parser.span.cb \in Callbacks
  <2>1. Typed /\ p \in Nat /\ endp \in 1 .. Len(stream) + 1 /\ p \in 1 .. endp
        /\ Len(stream) \in Nat
    BY Parts DEF TypedInv, Typed, Within
  <2>2. p \in Int /\ p <= Len(stream) + 1
    BY <2>1
  <2> QED
    BY <2>1, <2>2 DEF Typed, RequestOK, FieldsOK
<1>5. request'.buf = h /\ SameHead(request, request') /\ h \in [Callbacks -> Seq(Bytes)]
  <2>1. CASE parser.span = NoSpan
    <3>1. request' = request /\ parser.span.cb = "none"
      BY <1>3, <2>1 DEF NoSpan
    <3>2. h = request.buf
      BY <1>4, <3>1, HearBuffers
    <3> QED
      BY <1>4, <3>1, <3>2 DEF SameHead, RequestType
  <2>2. CASE parser.span # NoSpan
    <3>1. request' = Delivered(p) /\ parser.span.cb \in Callbacks
      BY <1>3, <1>4, <2>2
    <3>2. NoSpan.cb = "none"
      BY DEF NoSpan
    <3> DEFINE q == [span |-> NoSpan]
    <3>3. q.span.cb = "none"
      BY <3>2
    <3> HIDE DEF q
    <3>4. Delivered(p).buf = h
      BY <1>4, <3>1, <3>3, HearEnd
    <3>5. Delivered(p) \in RequestType /\ SameHead(request, Delivered(p))
      BY <1>4, <2>2, DeliveredWhole
    <3> QED
      BY <3>1, <3>4, <3>5 DEF RequestType
  <2> QED
    BY <2>1, <2>2
<1>6. Heard' = h
  <2>1. \A c : Open(c)' = <<>>
    BY <1>3 DEF Open
  <2>2. \A c \in Callbacks : h[c] \o <<>> = h[c]
    BY <1>5, ConcatEmptySeq
  <2> HIDE DEF h
  <2>3. Heard' = [c \in Callbacks |-> request'.buf[c] \o Open(c)']
    BY DEF Heard
  <2>4. Heard' = [c \in Callbacks |-> h[c]]
    BY <1>5, <2>1, <2>2, <2>3
  <2> QED
    BY <1>5, <2>4
<1>7. /\ phase' = phase /\ line_sent' = line_sent /\ Forwarded' = Forwarded /\ Taken' = Taken
  BY DEF channelVars, Forwarded, Taken
<1> HIDE DEF h
<1>8. Reading(cur, p, parser, request, Heard, Taken)'
  <2>1. SameButSpan(parser, parser)
    BY DEF SameButSpan
  <2>2. Reading(cur, p, parser, request', h, Taken)
    BY <1>1, <1>2, <1>5, <2>1, ReadingOfSame
  <2>3. Reading(cur', p', parser', request', Heard', Taken')
    BY <1>3, <1>6, <1>7, <2>2
  <2> QED
    BY <1>3, <2>3, SameReading
<1>9. IF line_sent' THEN Sent(Forwarded, Taken)' ELSE Forwarded' = <<>>
  BY <1>3, <1>7, SameSent DEF LoopInv
<1> QED
  BY <1>2, <1>3, <1>7, <1>8, <1>9 DEF LoopInv

(* The next buffer, where an open span goes on.                            *)
LEMMA ExecuteKeeps ==
  ASSUME TypedInv, Described, LoopInv, NEW n \in Nat, Execute(n), phase' = "execute",
         line_sent' = line_sent, Forwarded' = Forwarded
  PROVE  LoopInv' /\ parser'.error = "OK"
<1>1. Reading(cur, p, parser, request, Heard, Taken) /\ ~executing /\ p = endp /\ Count \in Nat
  BY Parts DEF LoopInv, Execute
<1>2. parser.error = "OK"
  BY <1>1, ReadingTells
<1>3. /\ stream' = stream /\ p' = p /\ cur' = cur /\ request' = request /\ executing'
      /\ parser' = IF parser.span = NoSpan THEN parser ELSE [parser EXCEPT !.span.from = endp]
  BY <1>1, <1>2 DEF Execute, Resumed
<1>4. Typed /\ parser \in ParserType /\ p \in Int
  <2>1. Len(stream) \in Nat
    BY Parts
  <2> QED
    BY <2>1 DEF TypedInv, Typed, FieldsOK, Within
<1>5. SameButSpan(parser, parser') /\ parser'.error = "OK"
  BY <1>2, <1>3, <1>4 DEF SameButSpan, ParserType
<1>6. parser'.span # NoSpan => parser'.span.from = p
  BY <1>1, <1>3, <1>4 DEF ParserType
<1>7. Heard' = Heard
  <2>1. \A c \in Callbacks : Open(c) = <<>>
    BY <1>1 DEF Open
  <2>2. \A c \in Callbacks : Open(c)' = <<>>
    <3> TAKE c \in Callbacks
    <3>1. CASE parser'.span.cb = c
      <4>1. parser'.span # NoSpan
        BY <3>1 DEF NoSpan, Callbacks
      <4>2. From(p, p) = <<>>
        BY <1>4, FromEmpty
      <4> QED
        BY <1>3, <1>6, <3>1, <4>1, <4>2, SamePlaces DEF Open
    <3>2. CASE parser'.span.cb # c
      BY <3>2 DEF Open
    <3> QED
      BY <3>1, <3>2
  <2>3. Heard' = [c \in Callbacks |-> request'.buf[c] \o Open(c)']
    BY DEF Heard
  <2>4. Heard = [c \in Callbacks |-> request.buf[c] \o Open(c)]
    BY DEF Heard
  <2> QED
    BY <1>3, <2>1, <2>2, <2>3, <2>4
<1>8. Taken' = Taken
  BY DEF Taken
<1>9. Reading(cur, p, parser, request, Heard, Taken)'
  <2>1. SameHead(request, request)
    BY DEF SameHead
  <2>2. Reading(cur, p, parser', request, Heard, Taken)
    BY <1>1, <1>5, <2>1, ReadingOfSame
  <2>3. Reading(cur', p', parser', request', Heard', Taken')
    BY <1>3, <1>7, <1>8, <2>2
  <2> QED
    BY <1>3, <2>3, SameReading
<1>10. IF line_sent' THEN Sent(Forwarded, Taken)' ELSE Forwarded' = <<>>
  BY <1>3, <1>8, SameSent DEF LoopInv
<1> QED
  BY <1>3, <1>5, <1>9, <1>10 DEF LoopInv

-----------------------------------------------------------------------------
(* What is put into the buffer goes behind what was forwarded.             *)
LEMMA Buffered ==
  ASSUME ChannelTyped, NEW t \in Seq(Unit), to_local' = to_local,
         override_remote_buf' = override_remote_buf \o t
  PROVE  Forwarded' = Forwarded \o t /\ Forwarded \in Seq(Unit)
<1>1. to_local \in Seq(Unit) /\ override_remote_buf \in Seq(Unit)
  BY DEF ChannelTyped
<1>2. to_local \o (override_remote_buf \o t) = (to_local \o override_remote_buf) \o t
  BY <1>1, RegroupUnits, Zenon
<1> QED
  BY <1>1, <1>2, ConcatProperties DEF Forwarded

(* The line is sent.                                                       *)
LEMMA ParsedKeeps ==
  ASSUME TypedInv, Described, LoopInv, Parsed, phase' \in Loop
  PROVE  LoopInv'
<1>1. /\ UNCHANGED parserVars /\ to_local' = to_local
      /\ phase' \notin {"write_headers", "head_end"}
  BY DEF Parsed
<1>2. CASE UNCHANGED <<line_sent, override_remote_buf>>
  <2>1. Forwarded' = Forwarded /\ line_sent' = line_sent
    BY <1>1, <1>2 DEF Forwarded
  <2> QED
    BY <1>1, <2>1, LoopKept
<1>3. CASE /\ LineDue /\ line_sent' = TRUE
           /\ override_remote_buf' = Append(override_remote_buf, Line)
  <2>1. request.version # {} /\ ~line_sent
    BY <1>3 DEF LineDue
  <2>2. Reading(cur, p, parser, request, Heard, Taken) /\ Forwarded = <<>> /\ Count \in Nat
    BY <2>1, Parts DEF LoopInv
  <2>3. LineRead(parser, request)
    BY <2>1, <2>2, ReadingTells
  <2>4. Line = LineUnit /\ Line \in Unit
    <3>1. \A x : Unwrapped({x}) = x
      BY DEF Unwrapped
    <3>2. /\ Unwrapped(request.method) = Wanted.method /\ Unwrapped(request.url) = Wanted.url
          /\ Unwrapped(request.version) = Wanted.version
      BY <2>3, <3>1 DEF LineRead, UrlRead, MethodRead
    <3> QED
      BY <2>1, <3>2, LineTyped DEF Line, LineUnit, TypedInv
  <2>5. <<LineUnit>> \in Seq(Unit) /\ override_remote_buf' = override_remote_buf \o <<LineUnit>>
    <3>1. override_remote_buf \in Seq(Unit)
      BY DEF TypedInv, ChannelTyped
    <3> QED
      BY <1>3, <2>4, <3>1, UnitIsConcat
  <2>6. Forwarded' = <<>> \o <<LineUnit>>
    BY <1>1, <2>2, <2>5, Buffered DEF TypedInv
  <2>7. Forwarded' = <<LineUnit>>
    BY <2>5, <2>6, ConcatEmptySeq
  <2>8. Sent(<<LineUnit>>, 0) /\ Len(<<LineUnit>>) = 1
    <3>1. {<<LineUnit>>[i] : i \in 2 .. 0 + 1} = {}
      OBVIOUS
    <3>2. {Header(Overridden(Nth(j))) : j \in 1 .. 0} = {}
      OBVIOUS
    <3> QED
      BY <3>1, <3>2 DEF Sent
  <2>9. Taken = 0 /\ Taken' = 0
    BY <1>3, <2>1, <2>7, <2>8 DEF Taken
  <2>10. stream' = stream /\ Sent(Forwarded', Taken')
    BY <1>1, <2>7, <2>8, <2>9 DEF parserVars
  <2>11. Sent(Forwarded, Taken)'
    BY <2>10, SameSent
  <2>12. Reading(cur, p, parser, request, Heard, Taken)'
    BY <1>1, <2>2, <2>9, ReadingKept
  <2>13. ~executing' => p' = endp'
    BY <1>1 DEF LoopInv, parserVars
  <2> QED
    BY <1>1, <1>3, <2>11, <2>12, <2>13 DEF LoopInv
<1> QED
  BY <1>2, <1>3 DEF Parsed

(* The headers that were read are taken, and sent.                         *)
LEMMA TakeKeeps ==
  ASSUME TypedInv, HeadInv, Described, LoopInv, TakeHeaders
  PROVE  LoopInv'
<1> DEFINE r == [request EXCEPT !.headers = {}]
<1>1. /\ Reading(cur, p, parser, request, Heard, Taken) /\ Count \in Nat
      /\ request \in RequestType /\ phase = "headers"
      /\ (~executing => p = endp)
  <2>1. phase = "headers"
    BY DEF TakeHeaders
  <2>2. request \in RequestType /\ Count \in Nat
    BY Parts DEF TypedInv, Typed, RequestOK
  <2>3. Reading(cur, p, parser, request, Heard, Taken) /\ (~executing => p = endp)
    BY DEF LoopInv
  <2> QED
    BY <2>1, <2>2, <2>3
<1>2. /\ stream' = stream /\ p' = p /\ endp' = endp /\ executing' = executing /\ cur' = cur
      /\ parser' = parser /\ line_sent' = line_sent /\ to_local' = to_local /\ request' = r
  BY DEF TakeHeaders
<1>3. /\ r.method = request.method /\ r.url = request.url /\ r.version = request.version
      /\ r.is_header_complete = request.is_header_complete /\ r.buf = request.buf
      /\ r.headers = {}
  BY <1>1 DEF RequestType
<1> HIDE DEF r
<1>4. Heard' = Heard
  <2>1. \A c : Open(c)' = Open(c)
    BY <1>2, SamePlaces DEF Open
  <2> QED
    BY <1>2, <1>3, <2>1 DEF Heard
<1>5. ASSUME NEW n, Reading(cur, p, parser, r, Heard, n), Taken' = n
      PROVE  Reading(cur, p, parser, request, Heard, Taken)'
  <2>1. Reading(cur', p', parser', request', Heard', Taken')
    BY <1>2, <1>4, <1>5
  <2> QED
    BY <1>2, <2>1, SameReading
<1>6. CASE request.headers = {}
  <2>1. override_remote_buf' = override_remote_buf
    BY <1>6 DEF TakeHeaders
  <2>2. Forwarded' = Forwarded /\ Taken' = Taken
    BY <1>2, <2>1 DEF Forwarded, Taken
  <2>3. SameHead(request, r) /\ SameButSpan(parser, parser)
    BY <1>3, <1>6 DEF SameHead, SameButSpan
  <2>4. Reading(cur, p, parser, r, Heard, Taken)
    BY <1>1, <2>3, ReadingOfSame
  <2>5. Reading(cur, p, parser, request, Heard, Taken)'
    BY <1>5, <2>2, <2>4
  <2>6. IF line_sent' THEN Sent(Forwarded, Taken)' ELSE Forwarded' = <<>>
    BY <1>2, <2>2, SameSent DEF LoopInv
  <2> QED
    BY <1>1, <1>2, <1>3, <2>5, <2>6 DEF LoopInv
<1>7. CASE request.headers # {}
  <2>1. PICK k \in 0 .. Count : /\ HeadersRead(request, Taken, k)
                                /\ k # 0 => LineRead(parser, request)
    BY <1>1, ReadingTells
  <2>2. /\ k \in Nat /\ Taken \in 0 .. k /\ Taken \in Nat /\ Taken <= k
        /\ request.headers = {Nth(j) : j \in Taken + 1 .. k}
    <3>1. k \in Nat /\ Taken \in 0 .. k /\ request.headers = {Nth(j) : j \in Taken + 1 .. k}
      BY <1>1, <2>1 DEF HeadersRead
    <3> QED
      BY <3>1
  <2>3. k # 0
    <3>1. k = 0 => Taken + 1 .. k = {}
      BY <2>2
    <3> QED
      BY <1>7, <2>2, <3>1
  <2>4. line_sent /\ Sent(Forwarded, Taken)
    <3>1. request.version # {}
      BY <2>1, <2>3 DEF LineRead
    <3>2. line_sent
      BY <1>1, <3>1 DEF HeadInv, Loop
    <3> QED
      BY <3>2 DEF LoopInv
  <2>5. PICK hs \in SetToSeqs(request.headers) :
          override_remote_buf' = override_remote_buf
            \o [i \in DOMAIN hs |-> Header(Overridden(hs[i]))]
    BY <1>7 DEF TakeHeaders
  <2> DEFINE t == [i \in DOMAIN hs |-> Header(Overridden(hs[i]))]
             n == Taken
  <2>6. t \in Seq(Unit)
    BY HeadersTyped DEF TypedInv
  <2>7. /\ DOMAIN hs = 1 .. k - n
        /\ {Header(Overridden(hs[i])) : i \in DOMAIN hs}
             = {Header(Overridden(Nth(j))) : j \in n + 1 .. k}
    <3>1. hs \in SetToSeqs({Nth(j) : j \in n + 1 .. k})
      BY <2>2
    <3> HIDE DEF n
    <3>2. n \in Nat /\ n <= k
      BY <2>2 DEF n
    <3> QED
      BY <3>1, <3>2, TakenUnits
  <2>8. Len(t) = k - n /\ DOMAIN t = 1 .. Len(t)
    <3>1. DOMAIN t = DOMAIN hs /\ DOMAIN t = 1 .. Len(t) /\ Len(t) \in Nat
      BY <2>6, LenProperties
    <3> DEFINE l == Len(t)
               m == k - n
    <3>2. l \in Nat /\ m \in Nat /\ 1 .. l = 1 .. m
      BY <2>2, <2>7, <3>1
    <3> HIDE DEF l, m
    <3>3. l = m
      <4>1. ~(l < m)
        <5>1. l < m => m \in 1 .. m /\ m \notin 1 .. l
          BY <3>2
        <5> QED
          BY <3>2, <5>1
      <4>2. ~(m < l)
        <5>1. m < l => l \in 1 .. l /\ l \notin 1 .. m
          BY <3>2
        <5> QED
          BY <3>2, <5>1
      <4> QED
        BY <3>2, <4>1, <4>2
    <3> QED
      BY <3>1, <3>3 DEF l, m
  <2>9. {t[i] : i \in 1 .. Len(t)} = {Header(Overridden(Nth(j))) : j \in n + 1 .. k}
    <3>1. {t[i] : i \in DOMAIN t} = {Header(Overridden(hs[i])) : i \in DOMAIN hs}
      OBVIOUS
    <3> QED
      BY <2>7, <2>8, <3>1
  <2>10. override_remote_buf' = override_remote_buf \o t
    BY <2>5
  <2> HIDE DEF t, n
  <2>11. Forwarded' = Forwarded \o t /\ Forwarded \in Seq(Unit)
    BY <1>2, <2>6, <2>10, Buffered DEF TypedInv
  <2>12. Sent(Forwarded \o t, k)
    <3>1. n \in Nat /\ n <= k /\ Sent(Forwarded, n)
      BY <2>2, <2>4 DEF n
    <3> QED
      BY <2>2, <2>6, <2>8, <2>9, <2>11, <3>1, SentMore
  <2>13. Taken' = k
    <3>1. Len(Forwarded') = k + 1 /\ line_sent'
      BY <1>2, <2>4, <2>11, <2>12 DEF Sent
    <3>2. Taken' = Len(Forwarded') - 1
      BY <3>1 DEF Taken
    <3> QED
      BY <2>2, <3>1, <3>2
  <2>14. Sent(Forwarded, Taken)'
    <3>1. Sent(Forwarded', Taken')
      BY <2>11, <2>12, <2>13
    <3> QED
      BY <1>2, <3>1, SameSent
  <2>15. Reading(cur, p, parser, r, Heard, k)
    <3>1. \A m \in 0 .. Count : HeadersRead(request, Taken, m) => m = k
      BY <2>1, OneReading
    <3> QED
      BY <1>1, <1>3, <2>1, <2>2, <3>1, ReadingOfTaken
  <2>16. Reading(cur, p, parser, request, Heard, Taken)'
    BY <1>5, <2>13, <2>15
  <2> QED
    BY <1>1, <1>2, <1>3, <2>4, <2>14, <2>16 DEF LoopInv
<1> QED
  BY <1>6, <1>7

-----------------------------------------------------------------------------
(* The head is complete.                                                   *)
LEMMA HeadEnds ==
  ASSUME TypedInv, HeadInv, Described, LoopInv, EndOfHead, request.is_header_complete
  PROVE  HeadSent(Forwarded)' /\ parser'.error = "OK"
<1>1. /\ phase = "head_end" /\ to_local' = to_local /\ Reset
      /\ override_remote_buf'
           = Append(override_remote_buf, Crlf) \o Data(request.buf["on_body"])
  BY DEF EndOfHead
<1>2. /\ ~executing /\ p = endp /\ stream' = stream /\ endp' = endp /\ parser' = ResetParser
  BY <1>1 DEF Reset, LoopInv
<1>3. /\ Reading(cur, p, parser, request, Heard, Taken) /\ Count \in Nat
      /\ request.headers = {}
  BY <1>1, Parts DEF LoopInv
<1>4. InBody(cur, p, parser, request, Heard, Taken)
  BY <1>3, ReadingTells
<1>5. /\ LineRead(parser, request) /\ HeadersRead(request, Taken, Count)
      /\ p \in BodyAt .. Len(stream) + 1 /\ Heard = Saying("on_body", From(BodyAt, p))
  BY <1>4 DEF InBody
<1>6. Taken = Count
  <2>1. Taken \in 0 .. Count /\ {Nth(j) : j \in Taken + 1 .. Count} = {}
    BY <1>3, <1>5 DEF HeadersRead
  <2>2. Count \notin Taken + 1 .. Count
    BY <2>1
  <2> QED
    BY <1>3, <2>1, <2>2
<1>7. Sent(Forwarded, Count)
  <2>1. request.version # {}
    BY <1>5 DEF LineRead
  <2>2. line_sent
    BY <1>1, <2>1 DEF HeadInv, Loop
  <2> QED
    BY <1>6, <2>2 DEF LoopInv
<1>8. BodyAt \in Nat /\ BodyAt <= endp
  <2>1. HeaderAt(Count + 1) \in Nat /\ BodyAt = HeaderAt(Count + 1) + 2
    BY LineLaid
  <2>2. BodyAt \in Nat
    BY <2>1
  <2> QED
    BY <1>2, <1>5, <2>2
<1> DEFINE b == request.buf["on_body"]
<1>9. b = From(BodyAt, endp) /\ b \in Seq(Bytes)
  <2>1. "on_body" \in Callbacks
    BY DEF Callbacks
  <2>2. b \in Seq(Bytes)
    BY <2>1 DEF TypedInv, Typed, RequestOK, RequestType
  <2>3. Heard["on_body"] = b \o <<>>
    BY <1>2, <2>1 DEF Heard, Open
  <2>4. Heard["on_body"] = From(BodyAt, p)
    BY <1>5, <2>1, Sayings
  <2> HIDE DEF b
  <2> QED
    BY <1>2, <2>2, <2>3, <2>4, ConcatEmptySeq
<1> HIDE DEF b
<1>10. /\ Crlf \in Unit /\ <<Crlf>> \in Seq(Unit) /\ Data(b) \in Seq(Unit)
       /\ <<Crlf>> \o Data(b) \in Seq(Unit)
  BY <1>9, UnitsTyped, OneUnit, ConcatProperties
<1>11. Forwarded' = Forwarded \o (<<Crlf>> \o Data(b)) /\ Forwarded \in Seq(Unit)
  <2>1. override_remote_buf \in Seq(Unit) /\ ChannelTyped
    BY DEF TypedInv, ChannelTyped
  <2>2. override_remote_buf' = (override_remote_buf \o <<Crlf>>) \o Data(b)
    BY <1>1, <1>10, <2>1, UnitIsConcat DEF b
  <2>3. override_remote_buf' = override_remote_buf \o (<<Crlf>> \o Data(b))
    BY <1>10, <2>1, <2>2, RegroupUnits
  <2> QED
    BY <1>1, <1>10, <2>1, <2>3, Buffered
<1>12. Forwarded' = Append(Forwarded, Crlf) \o Data(b)
  <2> DEFINE f == Forwarded
             d == Data(b)
  <2>1. f \in Seq(Unit) /\ d \in Seq(Unit)
    BY <1>10, <1>11
  <2> HIDE DEF f, d
  <2>2. (f \o <<Crlf>>) \o d = f \o (<<Crlf>> \o d)
    BY <1>10, <2>1, RegroupUnits, Zenon
  <2>3. Append(f, Crlf) = f \o <<Crlf>>
    BY <1>10, <2>1, UnitIsConcat
  <2>4. f \o (<<Crlf>> \o d) = Append(f, Crlf) \o d
    BY <2>2, <2>3
  <2> QED
    BY <1>11, <2>4 DEF f, d
<1>13. HeadSent(Forwarded')
  BY <1>7, <1>8, <1>9, <1>11, <1>12 DEF HeadSent
<1>14. parser'.error = "OK"
  BY <1>2 DEF ResetParser
<1> QED
  BY <1>2, <1>13, <1>14, SameHeadSent

(* A byte is copied.                                                       *)
LEMMA DataOn ==
  ASSUME NEW s \in Seq(Bytes), NEW b \in Bytes
  PROVE  Data(Append(s, b)) = Data(s) \o Data(<<b>>)
<1> DEFINE x == Append(s, b)
           n == Len(s)
           U(c) == [kind |-> "data", byte |-> c]
<1> HIDE DEF U
<1>1. n \in Nat /\ Len(x) = n + 1 /\ x[n + 1] = b /\ \A i \in 1 .. n : x[i] = s[i]
  BY LenProperties
<1>2. Data(s) = [i \in 1 .. n |-> U(s[i])] /\ Data(<<b>>) = [i \in 1 .. 1 |-> U(<<b>>[i])]
  BY DEF Data, U
<1>3. Data(x) = [i \in 1 .. Len(x) |-> U(x[i])]
  BY DEF Data, U
<1>4. Data(s) \in Seq(Unit) /\ Data(<<b>>) \in Seq(Unit)
  <2>1. <<b>> \in Seq(Bytes)
    OBVIOUS
  <2> QED
    BY <2>1, UnitsTyped
<1>5. Len(Data(s)) = n /\ Len(Data(<<b>>)) = 1
  BY <1>1, <1>2
<1> DEFINE y == Data(s) \o Data(<<b>>)
<1>6. /\ y \in Seq(Unit) /\ Len(y) = n + 1
      /\ \A i \in 1 .. n + 1 : y[i] = IF i <= n THEN Data(s)[i] ELSE Data(<<b>>)[i - n]
  <2> DEFINE u == Data(s)
             v == Data(<<b>>)
  <2>1. u \in Seq(Unit) /\ v \in Seq(Unit) /\ Len(u) = n /\ Len(v) = 1
    BY <1>4, <1>5
  <2> HIDE DEF u, v
  <2>2. /\ u \o v \in Seq(Unit) /\ Len(u \o v) = Len(u) + Len(v)
        /\ \A i \in 1 .. Len(u) + Len(v) :
             (u \o v)[i] = IF i <= Len(u) THEN u[i] ELSE v[i - Len(u)]
    BY <2>1, ConcatProperties
  <2> QED
    BY <2>1, <2>2 DEF u, v
<1>7. \A i \in 1 .. n : Data(s)[i] = U(s[i])
  BY <1>2
<1>8. Data(<<b>>)[1] = U(b)
  BY <1>2
<1>9. DOMAIN y = 1 .. n + 1 /\ y = [i \in 1 .. n + 1 |-> y[i]]
  BY <1>6, LenProperties
<1> HIDE DEF x, y, n
<1>10. \A i \in 1 .. n + 1 : y[i] = U(x[i])
  <2> TAKE i \in 1 .. n + 1
  <2>1. CASE i <= n
    <3>1. i \in 1 .. n
      BY <1>1, <2>1
    <3> QED
      BY <1>1, <1>6, <1>7, <2>1, <3>1
  <2>2. CASE i = n + 1
    <3>1. ~(i <= n) /\ i - n = 1
      BY <1>1, <2>2
    <3> QED
      BY <1>1, <1>6, <1>8, <2>2, <3>1
  <2> QED
    BY <1>1, <2>1, <2>2
<1>11. y = [i \in 1 .. n + 1 |-> U(x[i])]
  BY <1>9, <1>10
<1> QED
  BY <1>1, <1>3, <1>11 DEF x, y

LEMMA CopyKeeps ==
  ASSUME TypedInv, HeadInv, Described, HeadSent(Forwarded), CopyToLocal
  PROVE  HeadSent(Forwarded)'
<1>1. /\ phase = "copy" /\ stream' = stream /\ endp' = endp + 1 /\ endp <= Len(stream)
      /\ to_local' = to_local \o Data(<<stream[endp]>>)
      /\ override_remote_buf' = override_remote_buf
  BY DEF CopyToLocal
<1>2. to_local \in Seq(Unit) /\ override_remote_buf = <<>>
  BY <1>1 DEF TypedInv, ChannelTyped, HeadInv
<1>3. /\ endp \in Nat /\ 1 <= endp /\ stream \in Seq(Bytes) /\ Len(stream) \in Nat
      /\ stream[endp] \in Bytes
  <2>1. endp \in Nat /\ 1 <= endp /\ stream \in Seq(Bytes) /\ Len(stream) \in Nat
    BY Parts DEF TypedInv, Typed, Within
  <2> QED
    BY <1>1, <2>1, ElementOfSeq
<1> DEFINE d == Data(<<stream[endp]>>)
<1>4. d \in Seq(Unit)
  <2>1. <<stream[endp]>> \in Seq(Bytes)
    BY <1>3
  <2> QED
    BY <2>1, UnitsTyped
<1> HIDE DEF d
<1>5. Forwarded = to_local /\ Forwarded' = to_local \o d
  <2>1. to_local \o d \in Seq(Unit)
    BY <1>2, <1>4, ConcatProperties
  <2>2. to_local \o <<>> = to_local /\ (to_local \o d) \o <<>> = to_local \o d
    BY <1>2, <2>1, ConcatEmptySeq
  <2>3. Forwarded' = to_local' \o override_remote_buf'
    BY DEF Forwarded
  <2> QED
    BY <1>1, <1>2, <2>2, <2>3 DEF Forwarded, d
<1>6. PICK head \in Seq(Unit) :
        /\ Sent(head, Count) /\ BodyAt <= endp
        /\ Forwarded = Append(head, Crlf) \o Data(From(BodyAt, endp))
  BY DEF HeadSent
<1>7. BodyAt \in Nat /\ 1 <= BodyAt
  <2>1. HeaderAt(Count + 1) \in Nat /\ BodyAt = HeaderAt(Count + 1) + 2
    BY LineLaid
  <2> QED
    BY <2>1
<1> DEFINE s == From(BodyAt, endp)
           c == Append(head, Crlf)
<1>8. s \in Seq(Bytes) /\ From(BodyAt, endp + 1) = Append(s, stream[endp])
  BY <1>1, <1>3, <1>6, <1>7, FromMore
<1>9. c \in Seq(Unit) /\ Data(s) \in Seq(Unit)
  BY <1>8, UnitsTyped
<1> HIDE DEF c, s
<1>10. Data(From(BodyAt, endp + 1)) = Data(s) \o d
  BY <1>3, <1>8, DataOn DEF d
<1>11. (c \o Data(s)) \o d = c \o (Data(s) \o d)
  BY <1>4, <1>9, RegroupUnits, Zenon
<1>12. Forwarded' = c \o Data(From(BodyAt, endp + 1))
  BY <1>5, <1>6, <1>10, <1>11 DEF c, s
<1>13. BodyAt <= endp'
  BY <1>1, <1>3, <1>6, <1>7
<1>14. /\ BodyAt' = BodyAt /\ Count' = Count /\ From(BodyAt, endp)' = From(BodyAt, endp + 1)
       /\ Sent(head, Count)'
  BY <1>1, <1>6, SamePlaces, SameSent DEF From
<1> QED
  BY <1>12, <1>13, <1>14 DEF HeadSent, c

-----------------------------------------------------------------------------
(* Behind the loop.                                                        *)
Behind == {"flush_local", "flush_remote", "copy"}

LEMMA StreamStays ==
  ASSUME [Next]_vars PROVE stream' = stream
<1>1. Parse => stream' = stream
  BY ParserIsSteady DEF Parse, ExecuteReturns, Steady
<1>2. ReadRemote => stream' = stream
  BY DEF ReadRemote, Execute, parserVars
<1>3. EndOfHead => stream' = stream
  BY DEF EndOfHead, Reset, parserVars
<1>4. TakeHeaders \/ CopyToLocal => stream' = stream
  BY DEF TakeHeaders, CopyToLocal
<1>5. Parsed \/ WriteLine \/ WriteHeaders \/ ForwardReply \/ FlushLocal => stream' = stream
  BY DEF Parsed, WriteLine, WriteHeaders, ForwardReply, FlushLocal, parserVars
<1>6. FlushRemote \/ ReadLocal \/ CopyToRemote \/ SocketFails => stream' = stream
  BY DEF FlushRemote, ReadLocal, CopyToRemote, SocketFails, parserVars
<1>7. UNCHANGED vars => stream' = stream
  BY DEF vars, parserVars
<1> QED
  BY <1>1, <1>2, <1>3, <1>4, <1>5, <1>6, <1>7 DEF Next, TaskStep

(* What follows in a sequence.                                             *)
LEMMA BehindHead ==
  ASSUME NEW s \in Seq(Unit), NEW t \in Seq(Unit), NEW n \in Nat, Len(s) = n
  PROVE  SubSeq(s \o t, n + 1, Len(s \o t)) = t
<1> DEFINE c == s \o t
           e == SubSeq(c, n + 1, Len(c))
<1>1. c \in Seq(Unit) /\ Len(c) \in Nat /\ Len(s) <= Len(c) /\ n \in 0 .. Len(c)
  <2>1. c \in Seq(Unit) /\ Len(c) = n + Len(t) /\ Len(t) \in Nat
    BY ConcatProperties, LenProperties
  <2> HIDE DEF c
  <2> QED
    BY <2>1
<1>2. c \o <<>> = s \o t /\ <<>> \in Seq(Unit)
  BY <1>1, ConcatEmptySeq, EmptySeq
<1> HIDE DEF c
<1>3. e \o <<>> = t
  BY <1>1, <1>2, BeginningIsThere
<1>4. e \in Seq(Unit)
  BY <1>1, CutAndJoined
<1> HIDE DEF e
<1>5. e = t
  BY <1>3, <1>4, ConcatEmptySeq
<1> QED
  BY <1>5 DEF e, c

(* Every step of the channel.                                              *)
LEMMA NextKeepsRequest ==
  ASSUME TypedInv, CountInv, HeadInv, RequestInv, [Next]_vars PROVE RequestInv'
<1>0. stream' = stream
  BY StreamStays
<1> SUFFICES ASSUME Described PROVE (parser.error = "OK"
                                     /\ (phase \in Loop => LoopInv)
                                     /\ (phase \in Behind => HeadSent(Forwarded)))'
  BY <1>0 DEF RequestInv, Described, Behind
<1>1. /\ parser.error = "OK" /\ (phase \in Loop => LoopInv)
      /\ (phase \in Behind => HeadSent(Forwarded))
  BY DEF RequestInv, Described, Behind
<1>2. Loop \cap Behind = {} /\ ChannelTyped
  BY DEF Loop, Behind, TypedInv
<1>3. CASE Parse
  <2>1. phase = "execute" /\ UNCHANGED channelVars /\ phase' = phase
    BY <1>3 DEF Parse, channelVars
  <2>2. LoopInv' /\ parser'.error = "OK"
    BY <1>1, <1>3, <2>1, ParseKeeps, ReturnKeeps DEF Parse, Loop
  <2> QED
    BY <2>1, <2>2 DEF Behind
<1>4. CASE ReadRemote
  <2>1. /\ phase \in Loop /\ line_sent' = line_sent /\ Forwarded' = Forwarded
    BY <1>4 DEF ReadRemote, Loop, Forwarded
  <2>2. CASE phase' = "panicked" /\ UNCHANGED parserVars
    BY <1>1, <2>2 DEF parserVars, Loop, Behind
  <2>3. CASE phase' = "execute" /\ \E n \in 1 .. Len(stream) : Execute(n)
    <3>1. PICK n \in Nat : Execute(n)
      <4>1. Len(stream) \in Nat
        BY Parts
      <4> QED
        BY <2>3, <4>1
    <3>2. LoopInv' /\ parser'.error = "OK"
      BY <1>1, <2>1, <2>3, <3>1, ExecuteKeeps
    <3> QED
      BY <2>3, <3>2 DEF Behind
  <2> QED
    BY <1>4, <2>2, <2>3 DEF ReadRemote
<1>5. CASE Parsed
  <2>1. phase \in Loop /\ UNCHANGED parserVars /\ parser' = parser /\ phase' \notin Behind
    BY <1>5 DEF Parsed, parserVars, Loop, Behind
  <2> QED
    BY <1>1, <1>5, <2>1, ParsedKeeps
<1>6. CASE WriteLine \/ WriteHeaders
  <2>1. /\ WriteLocal /\ UNCHANGED parserVars /\ parser' = parser /\ line_sent' = line_sent
        /\ phase \in Loop /\ phase' \notin Behind
    BY <1>6 DEF WriteLine, WriteHeaders, parserVars, Loop, Behind
  <2>2. phase' \in {"write_headers", "head_end"} => phase = "write_headers"
    BY <1>6 DEF WriteLine, WriteHeaders
  <2>3. phase' \in {"write_headers", "head_end"} => request.headers = {}
    BY <1>1, <2>1, <2>2 DEF LoopInv
  <2>4. Forwarded' = Forwarded
    BY <1>2, <2>1, WriteLocalKeeps
  <2>5. LoopInv'
    BY <1>1, <2>1, <2>3, <2>4, LoopKept
  <2> QED
    BY <1>1, <2>1, <2>5
<1>7. CASE TakeHeaders
  <2>1. phase \in Loop /\ parser' = parser /\ phase' \notin Behind
    BY <1>7 DEF TakeHeaders, Loop, Behind
  <2> QED
    BY <1>1, <1>7, <2>1, TakeKeeps
<1>8. CASE EndOfHead /\ ~request.is_header_complete
  <2>1. /\ UNCHANGED parserVars /\ parser' = parser /\ phase \in Loop /\ phase' = "select"
        /\ line_sent' = line_sent /\ Forwarded' = Forwarded
    BY <1>8 DEF EndOfHead, parserVars, Loop, Forwarded
  <2>2. LoopInv'
    BY <1>1, <2>1, LoopKept
  <2> QED
    BY <1>1, <2>1, <2>2 DEF Behind
<1>9. CASE EndOfHead /\ request.is_header_complete
  <2>1. phase \in Loop /\ phase' = "flush_local"
    BY <1>9 DEF EndOfHead, Loop
  <2> QED
    BY <1>1, <1>9, <2>1, HeadEnds DEF Loop
<1>10. CASE ForwardReply \/ ReadLocal
  <2>1. /\ UNCHANGED parserVars /\ parser' = parser /\ phase \in Loop
        /\ phase' \in {"select", "write_local"}
        /\ line_sent' = line_sent /\ Forwarded' = Forwarded
    BY <1>10 DEF ForwardReply, ReadLocal, parserVars, Loop, Forwarded
  <2>2. LoopInv'
    BY <1>1, <2>1, LoopKept
  <2> QED
    BY <1>1, <2>1, <2>2 DEF Behind
<1>11. CASE FlushLocal \/ FlushRemote \/ CopyToRemote
  <2>1. /\ UNCHANGED parserVars /\ parser' = parser /\ endp' = endp
        /\ phase \in Behind /\ phase' \in Behind
    BY <1>11 DEF FlushLocal, FlushRemote, CopyToRemote, parserVars, Behind
  <2>2. WriteLocal \/ UNCHANGED <<to_local, override_remote_buf>>
    BY <1>11 DEF FlushLocal, FlushRemote, CopyToRemote
  <2>3. Forwarded' = Forwarded
    BY <1>2, <2>2, WriteLocalKeeps DEF Forwarded
  <2>4. HeadSent(Forwarded)'
    BY <1>0, <1>1, <2>1, <2>3, SameHeadSent
  <2> QED
    BY <1>1, <1>2, <2>1, <2>4
<1>12. CASE CopyToLocal
  <2>1. parser' = parser /\ phase = "copy" /\ phase' = "copy"
    BY <1>12 DEF CopyToLocal
  <2>2. HeadSent(Forwarded)'
    BY <1>1, <1>12, <2>1, CopyKeeps DEF Behind
  <2> QED
    BY <1>1, <2>1, <2>2 DEF Loop
<1>13. CASE SocketFails
  BY <1>1, <1>13 DEF SocketFails, parserVars, Loop, Behind
<1>14. CASE UNCHANGED vars
  <2>1. /\ UNCHANGED parserVars /\ parser' = parser /\ endp' = endp /\ phase' = phase
        /\ line_sent' = line_sent /\ Forwarded' = Forwarded
    BY <1>14 DEF vars, parserVars, channelVars, Forwarded
  <2>2. CASE phase \in Loop
    <3>1. LoopInv'
      BY <1>1, <2>1, <2>2, LoopKept DEF LoopInv
    <3> QED
      BY <1>1, <1>2, <2>1, <2>2, <3>1
  <2>3. CASE phase \in Behind
    <3>1. HeadSent(Forwarded)'
      BY <1>0, <1>1, <2>1, <2>3, SameHeadSent
    <3> QED
      BY <1>1, <1>2, <2>1, <2>3, <3>1
  <2> QED
    BY <1>1, <2>1, <2>2, <2>3
<1> QED
  BY <1>3, <1>4, <1>5, <1>6, <1>7, <1>8, <1>9, <1>10, <1>11, <1>12, <1>13, <1>14
  DEF Next, TaskStep

LEMMA InitKeepsRequest == Init => RequestInv
<1> SUFFICES ASSUME Init, Described PROVE /\ parser.error = "OK"
                                          /\ phase = "select" /\ LoopInv
  BY DEF RequestInv, Described, Loop
<1>1. /\ phase = "select" /\ parser = ResetParser /\ cur = "start" /\ p = 1 /\ endp = 1
      /\ ~executing /\ request = ResetRequest /\ ~line_sent
      /\ to_local = <<>> /\ override_remote_buf = <<>>
  BY DEF Init, ParserInit
<1>2. parser.error = "OK" /\ parser.flags = {}
  BY <1>1 DEF ResetParser
<1>3. Forwarded = <<>> /\ Taken = 0
  BY <1>1 DEF Forwarded, Taken
<1>4. Heard = Silent
  <2>1. \A c : Open(c) = <<>>
    BY <1>1 DEF Open
  <2>2. \A c \in Callbacks : request.buf[c] = <<>>
    BY <1>1 DEF ResetRequest
  <2>3. \A c \in Callbacks : request.buf[c] \o Open(c) = <<>>
    BY <2>1, <2>2
  <2> QED
    BY <2>3 DEF Heard, Silent
<1>5. /\ request.version = {} /\ request.headers = {} /\ ~request.is_header_complete
  BY <1>1 DEF ResetRequest
<1>6. HeadersRead(request, 0, 0)
  <2>1. {Nth(j) : j \in 0 + 1 .. 0} = {}
    OBVIOUS
  <2> QED
    BY <1>5, <2>1 DEF HeadersRead
<1>7. InLine(cur, p, parser, request, Heard, Taken)
  BY <1>1, <1>2, <1>3, <1>4, <1>5, <1>6 DEF InLine, OnStart
<1> QED
  BY <1>1, <1>2, <1>3, <1>5, <1>7 DEF LoopInv, Reading

LEMMA RequestInvariance == Spec => []RequestInv
<1>1. TypedInv /\ CountInv /\ HeadInv /\ RequestInv /\ [Next]_vars => RequestInv'
  BY NextKeepsRequest
<1> QED
  BY <1>1, InitKeepsRequest, TypedInvariance, CountInvariance, HeadInvariance, PTL DEF Spec

(* Wherever a well-formed request is cut, every byte of it is one that the *)
(* parser expects where it stands (client.rs:465, llhttp.c).               *)
THEOREM WellFormedIsAccepted == Spec => []RequestsAccepted
<1>1. RequestInv => RequestsAccepted
  BY DEF RequestInv, RequestsAccepted
<1> QED
  BY <1>1, RequestInvariance, PTL

(* What is sent when the copy begins.                                      *)
LEMMA SentIsForwarded ==
  TypedInv /\ HeadInv /\ RequestInv => HeadForwarded
<1> SUFFICES ASSUME TypedInv, HeadInv, RequestInv, phase = "copy", Described
             PROVE  /\ Len(to_local) >= Count + 2
                    /\ to_local[1] = LineUnit
                    /\ {to_local[i] : i \in 2 .. Count + 1}
                         = {Header(Overridden(h)) : h \in ToSet(Wanted.headers)}
                    /\ SubSeq(to_local, Count + 2, Len(to_local))
                         = <<Crlf>> \o Data(From(Len(Rendered(Wanted)) + 1, endp))
  BY DEF HeadForwarded, Described, Wanted, Count, LineUnit, From
<1>1. Forwarded = to_local
  <2>1. to_local \in Seq(Unit) /\ override_remote_buf = <<>>
    BY DEF TypedInv, ChannelTyped, HeadInv
  <2> QED
    BY <2>1, ConcatEmptySeq DEF Forwarded
<1>2. PICK head \in Seq(Unit) :
        /\ Sent(head, Count) /\ BodyAt <= endp
        /\ to_local = Append(head, Crlf) \o Data(From(BodyAt, endp))
  BY <1>1 DEF RequestInv, Described, HeadSent
<1> DEFINE d == Data(From(BodyAt, endp))
           t == <<Crlf>> \o d
           n == Count + 1
<1>3. d \in Seq(Unit) /\ Crlf \in Unit /\ <<Crlf>> \in Seq(Unit)
  <2>1. From(BodyAt, endp) \in Seq(Bytes)
    <3>1. stream \in Seq(Bytes) /\ endp \in Nat /\ endp <= Len(stream) + 1
      BY Parts DEF TypedInv, Typed, Within
    <3>2. BodyAt \in Nat /\ 1 <= BodyAt
      <4>1. HeaderAt(Count + 1) \in Nat /\ BodyAt = HeaderAt(Count + 1) + 2
        BY LineLaid
      <4> QED
        BY <4>1
    <3>3. BodyAt <= endp /\ endp <= endp
      BY <1>2, <3>1
    <3> QED
      BY <3>1, <3>2, <3>3, FromJoins
  <2> QED
    BY <2>1, UnitsTyped, OneUnit
<1>4. Len(head) = n /\ head[1] = LineUnit /\ Count \in Nat /\ n \in Nat /\ n >= 1
      /\ {head[i] : i \in 2 .. n} = {Header(Overridden(Nth(j))) : j \in 1 .. Count}
  <2>1. Count \in Nat
    BY Parts
  <2>2. n \in Nat /\ n >= 1
    BY <2>1
  <2>3. Len(head) = n /\ head[1] = LineUnit
        /\ {head[i] : i \in 2 .. n} = {Header(Overridden(Nth(j))) : j \in 1 .. Count}
    BY <1>2 DEF Sent
  <2> QED
    BY <2>1, <2>2, <2>3
<1> HIDE DEF d, n
<1>5. to_local = head \o t /\ t \in Seq(Unit)
  <2>1. (head \o <<Crlf>>) \o d = head \o (<<Crlf>> \o d)
    BY <1>3, RegroupUnits, Zenon
  <2>2. Append(head, Crlf) = head \o <<Crlf>>
    BY <1>3, UnitIsConcat
  <2>3. <<Crlf>> \o d \in Seq(Unit)
    BY <1>3, ConcatProperties
  <2>4. to_local = (head \o <<Crlf>>) \o d
    BY <1>2, <2>2 DEF d
  <2> QED
    BY <2>1, <2>3, <2>4
<1>6. Len(t) \in Nat /\ Len(t) >= 1
  <2>1. Len(t) = 1 + Len(d) /\ Len(d) \in Nat
    BY <1>3, ConcatProperties, LenProperties
  <2> QED
    BY <2>1
<1> HIDE DEF t
<1>7. /\ Len(to_local) = n + Len(t)
      /\ \A i \in 1 .. n + Len(t) : to_local[i] = IF i <= n THEN head[i] ELSE t[i - n]
  BY <1>4, <1>5, ConcatProperties
<1>8. \A i \in 1 .. n : to_local[i] = head[i]
  BY <1>4, <1>6, <1>7
<1>9. Len(to_local) >= Count + 2
  BY <1>4, <1>6, <1>7 DEF n
<1>10. to_local[1] = LineUnit
  BY <1>4, <1>8
<1>11. {to_local[i] : i \in 2 .. n} = {head[i] : i \in 2 .. n}
  BY <1>4, <1>8
<1>12. {Header(Overridden(h)) : h \in ToSet(Wanted.headers)}
         = {Header(Overridden(Nth(j))) : j \in 1 .. Count}
  BY Parts DEF ToSet, Nth
<1>13. SubSeq(to_local, n + 1, Len(to_local)) = t
  BY <1>4, <1>5, BehindHead
<1>14. BodyAt = Len(Rendered(Wanted)) + 1
  BY LineLaid
<1>15. t = <<Crlf>> \o Data(From(Len(Rendered(Wanted)) + 1, endp))
  BY <1>14 DEF t, d
<1>16. n = Count + 1 /\ n + 1 = Count + 2
  BY <1>4 DEF n
<1>17. SubSeq(to_local, Count + 2, Len(to_local)) = t
  BY <1>13, <1>16
<1>18. {to_local[i] : i \in 2 .. Count + 1}
         = {Header(Overridden(h)) : h \in ToSet(Wanted.headers)}
  BY <1>4, <1>11, <1>12, <1>16
<1> QED
  BY <1>9, <1>10, <1>15, <1>17, <1>18

(* Wherever a well-formed request is cut, and however little each write    *)
(* takes, the head goes out whole, once and overridden, and the copy goes  *)
(* on with the byte behind what was collected of the body                  *)
(* (client.rs:464-531).                                                    *)
THEOREM HeadIsForwarded == Spec => []HeadForwarded
  BY SentIsForwarded, TypedInvariance, HeadInvariance, RequestInvariance, PTL
=============================================================================
