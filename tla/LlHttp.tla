------------------------------- MODULE LlHttp -------------------------------
(***************************************************************************)
(* The request parser: llhttp's generated state machine (llhttp/llhttp.c,  *)
(* http.c, api.c) and the callbacks and fields that RequestParser hangs on *)
(* it (llhttp/mod.rs).  It is fed a stream in pieces cut anywhere.         *)
(*                                                                         *)
(* The model is the machine as this program runs it: type HTTP_REQUEST, no *)
(* lenient flag, and callbacks that return 0.  `cur` names the state of    *)
(* the C code without its prefix s_n_llhttp__internal__n_; each action is  *)
(* one such state on the byte at p, with the gotos that test no further    *)
(* byte.  The states that spell out a keyword are one state here.          *)
(***************************************************************************)
EXTENDS Integers, SequencesExt

CONSTANTS
  Streams,    \* the byte sequences that visitors may send
  Letter,     \* the letters in use
  Lower,      \* the lower-case form of each letter
  Lead, Cont, \* bytes that start, and that continue, a character beyond ASCII
  Spell,      \* how each method and each keyword is spelled
  MaxLength   \* the largest content_length, 2^64 - 1

----------------------------------------------------------------------------
(* Bytes.  A printable byte is its character.                              *)

DigitOf == <<"0", "1", "2", "3", "4", "5", "6", "7", "8", "9">>
HexOf   == DigitOf \o <<"a", "b", "c", "d", "e", "f">>
Digit   == {DigitOf[i] : i \in 1 .. 10}
Hex     == {HexOf[i] : i \in 1 .. 16}

Punctuation ==
  {"!", "\"", "#", "$", "%", "&", "'", "(", ")", "*", "+", ",", "-", ".", "/",
   ":", ";", "<", "=", ">", "?", "@", "[", "\\", "]", "^", "_", "GRAVE", "{", "|",
   "}", "~"}

Printable == Letter \cup Digit \cup Punctuation
Ascii     == Printable \cup {"HT", "SP", "CR", "LF", "FF", "NUL"}
Text      == Printable \cup {"HT", "SP"} \cup Lead \cup Cont
Bytes     == Ascii \cup Lead \cup Cont

(* The lookup tables of the C code.                                        *)
TokenByte ==
  Printable \ {"\"", "(", ")", ",", "/", ":", ";", "<", "=", ">", "?", "@", "[",
               "\\", "]", "{", "}"}
UrlPathByte   == Printable \ {"#", "?"}
UrlQueryByte  == Printable \ {"#"}
UrlServerByte ==
  Printable \ {"\"", "#", "/", "<", ">", "?", "@", "\\", "^", "GRAVE", "{", "|", "}"}

LowerOf(b) == IF b \in Letter THEN Lower[b] ELSE b
LowerAll(s) == [i \in 1 .. Len(s) |-> LowerOf(s[i])]
Value(b) == CHOOSE v \in 0 .. 15 : HexOf[v + 1] = LowerOf(b)

(* Whether str::from_utf8 accepts the bytes (characters of two bytes).     *)
Utf8(s) ==
  \A i \in 1 .. Len(s) :
    /\ s[i] \in Lead => i < Len(s) /\ s[i + 1] \in Cont
    /\ s[i] \in Cont => i > 1 /\ s[i - 1] \in Lead

----------------------------------------------------------------------------
(* The enumerations of llhttp.h.                                           *)

HttpMethods ==
  {"DELETE", "GET", "HEAD", "POST", "PUT", "CONNECT", "OPTIONS", "TRACE", "COPY",
   "LOCK", "MKCOL", "MOVE", "PROPFIND", "PROPPATCH", "SEARCH", "UNLOCK", "BIND",
   "REBIND", "UNBIND", "ACL", "REPORT", "MKACTIVITY", "CHECKOUT", "MERGE",
   "MSEARCH", "NOTIFY", "SUBSCRIBE", "UNSUBSCRIBE", "PATCH", "PURGE",
   "MKCALENDAR", "LINK", "UNLINK", "SOURCE"}
RtspMethods ==
  {"GET", "POST", "OPTIONS", "DESCRIBE", "ANNOUNCE", "SETUP", "PLAY", "PAUSE",
   "TEARDOWN", "GET_PARAMETER", "SET_PARAMETER", "REDIRECT", "RECORD", "FLUSH"}
Methods == HttpMethods \cup {"PRI"} \cup RtspMethods

Flags ==
  {"F_CONNECTION_KEEP_ALIVE", "F_CONNECTION_CLOSE", "F_CONNECTION_UPGRADE",
   "F_CHUNKED", "F_UPGRADE", "F_CONTENT_LENGTH", "F_TRAILING",
   "F_TRANSFER_ENCODING"}

Errors ==
  {"OK", "STRICT", "CR_EXPECTED", "LF_EXPECTED", "UNEXPECTED_CONTENT_LENGTH",
   "UNEXPECTED_SPACE", "CLOSED_CONNECTION", "INVALID_METHOD", "INVALID_URL",
   "INVALID_CONSTANT", "INVALID_VERSION", "INVALID_HEADER_TOKEN",
   "INVALID_CONTENT_LENGTH", "INVALID_CHUNK_SIZE", "INVALID_TRANSFER_ENCODING",
   "PAUSED_UPGRADE", "PAUSED_H2_UPGRADE"}

(* header_state: what the header at hand is, 0 .. 8 in the code.  The      *)
(* names of fields and of connection options map to theirs.                *)
FieldState ==
  [connection |-> "CONNECTION", proxy_connection |-> "CONNECTION",
   content_length |-> "CONTENT_LENGTH", transfer_encoding |-> "TRANSFER_ENCODING",
   upgrade |-> "UPGRADE"]
OptionState ==
  [close |-> "CONNECTION_CLOSE", keep_alive |-> "CONNECTION_KEEP_ALIVE",
   upgrade |-> "CONNECTION_UPGRADE"]
OptionStates ==
  {"CONNECTION_CLOSE", "CONNECTION_KEEP_ALIVE", "CONNECTION_UPGRADE"}
HeaderStates ==
  {"GENERAL", "CONNECTION", "CONTENT_LENGTH", "TRANSFER_ENCODING", "UPGRADE",
   "TRANSFER_ENCODING_CHUNKED"} \cup OptionStates

(* The data callbacks that RequestParser sets; all but on_body decode.     *)
Callbacks ==
  {"on_method", "on_url", "on_version", "on_header_field", "on_header_value",
   "on_body"}

Nodes ==
  {"start", "after_start_req", "req_first_space_before_url",
   "req_spaces_before_url", "url_entry_connect", "url_entry_normal", "url_start",
   "url_schema", "url_schema_delim", "url_schema_delim_1", "url_server",
   "url_server_with_at", "url_path", "url_query_or_fragment", "url_query",
   "url_fragment", "url_skip_to_http", "url_to_http", "url_skip_to_http09",
   "url_skip_lf_to_http09", "url_skip_lf_to_http09_1", "url_to_http_09",
   "req_http_start", "req_http_major", "req_http_dot", "req_http_minor",
   "req_pri_upgrade", "req_http_complete", "req_http_complete_crlf",
   "headers_start", "header_field_start", "header_field", "header_field_colon",
   "header_field_general", "header_value_discard_ws",
   "header_value_discard_ws_almost_done", "header_value_discard_lws",
   "header_value", "header_value_otherwise", "header_value_almost_done",
   "header_value_lws", "header_value_connection", "header_value_connection_ws",
 "header_value_connection_token",
   "header_value_content_length", "header_value_content_length_ws",
   "header_value_te_chunked", "header_value_te_chunked_last",
   "header_value_te_token", "header_value_te_token_ows", "headers_almost_done",
   "consume_content_length_1", "chunk_size_digit", "chunk_size",
   "chunk_size_otherwise", "chunk_size_almost_done", "chunk_extensions",
   "chunk_extension_name", "chunk_extension_value",
   "chunk_extension_quoted_value", "chunk_extension_quoted_value_quoted_pair",
   "chunk_extension_quoted_value_done", "consume_content_length",
   "chunk_data_almost_done", "chunk_data_almost_done_1", "closed", "error"}

LlHttpAssumption ==
  /\ Streams \subseteq Seq(Bytes)
  /\ Letter \cap Digit = {} /\ \A b \in Letter : Lower[b] \in Letter
  /\ Lead \cap Cont = {} /\ (Lead \cup Cont) \cap Ascii = {}
  /\ \A w \in DOMAIN Spell : Spell[w] \in Seq(Ascii)
  /\ MaxLength \in Nat
ASSUME LlHttpAssumption

(* How words are spelled: methods and the names of headers are tokens, and *)
(* no name begins another.  Nothing but letters is a letter.               *)
Begins(v, w) == IsStrictPrefix(Spell[v], Spell[w])
Protocols    == {"HTTP/", "ICE/", "RTSP/"}

SpellAssumption ==
  /\ Letter \cap (Punctuation \cup {"HT", "SP", "CR", "LF", "FF", "NUL"}) = {}
  /\ Protocols \cup DOMAIN FieldState \cup DOMAIN OptionState \subseteq DOMAIN Spell
  /\ \A w \in DOMAIN Spell \cap (Methods \cup DOMAIN FieldState \cup DOMAIN OptionState) :
       Spell[w] \in Seq(TokenByte) \ {<<>>}
  /\ \A w \in Protocols : Spell[w] \in Seq(Printable) \ {<<>>}
  /\ \A v, w \in Methods \cap DOMAIN Spell : Spell[v] = Spell[w] => v = w
  /\ \A v, w \in DOMAIN FieldState : Spell[v] = Spell[w] => v = w
  /\ \A v, w \in DOMAIN FieldState : ~Begins(v, w)
  /\ \A v, w \in Protocols : ~Begins(v, w)
ASSUME SpellAssumption

----------------------------------------------------------------------------
VARIABLES
  stream,     \* what the visitor sends on the whole connection
  p,          \* the position in it of the next byte to parse
  endp,       \* the position after the bytes received so far
  executing,  \* llhttp_execute has been called and has not returned
  cur,        \* where the state machine stands
  parser,     \* the fields of llhttp__internal_s
  request     \* the fields of RequestParser

parserVars == <<stream, p, endp, executing, cur, parser, request>>

NoSpan == [cb |-> "none", from |-> 0]

ParserType ==
  [matched : Seq(Bytes), span : [cb : Callbacks \cup {"none"}, from : Nat],
   error : Errors, header_state : HeaderStates, flags : SUBSET Flags,
   content_length : 0 .. MaxLength, method : Methods, http_major : 0 .. 15,
   http_minor : 0 .. 15, upgrade : BOOLEAN]

ResetParser ==
  [matched |-> <<>>, span |-> NoSpan, error |-> "OK", header_state |-> "GENERAL",
   flags |-> {}, content_length |-> 0, method |-> "DELETE", http_major |-> 0,
   http_minor |-> 0, upgrade |-> FALSE]

(* An Option is the set of what it holds.  `aborted`: a callback could not *)
(* decode its bytes, and its panic crosses the C code.                     *)
RequestType ==
  [is_header_complete : BOOLEAN, method : SUBSET Seq(Bytes),
   url : SUBSET Seq(Bytes), version : SUBSET Seq(Bytes),
   headers : SUBSET [name : Seq(Bytes), value : Seq(Bytes)],
   buf : [Callbacks -> Seq(Bytes)], aborted : BOOLEAN]

ResetRequest ==
  [is_header_complete |-> FALSE, method |-> {}, url |-> {}, version |-> {},
   headers |-> {}, buf |-> [c \in Callbacks |-> <<>>], aborted |-> FALSE]

----------------------------------------------------------------------------
(* Calls of RequestParser.                                                 *)

ParserInit ==
  /\ stream \in Streams
  /\ p = 1 /\ endp = 1
  /\ executing = FALSE
  /\ cur = "start"
  /\ parser = ResetParser
  /\ request = ResetRequest

(* A span that is open goes on in the new buffer.  After an error nothing  *)
(* more is parsed.                                                         *)
ResumedUnmatched ==                                       \* mutant
  IF parser.span = NoSpan \/ parser.error # "OK" THEN parser
  ELSE [parser EXCEPT !.span.from = endp, !.matched = <<>>]
Resumed ==
  IF parser.span = NoSpan \/ parser.error # "OK" THEN parser
  ELSE [parser EXCEPT !.span.from = endp]

(* execute with the next n bytes.                                          *)
Execute(n) ==
  /\ ~executing
  /\ endp + n <= Len(stream) + 1
  /\ executing' = TRUE
  /\ p' = endp
  /\ endp' = endp + n
  /\ parser' = Resumed
  /\ UNCHANGED <<stream, cur, request>>

(* What the open span has collected goes to its callback.                  *)
Delivered(upto) ==
  LET cb    == parser.span.cb
      piece == SubSeq(stream, parser.span.from, upto - 1)
  IN  [request EXCEPT !.buf[cb] = @ \o piece,
                      !.aborted = @ \/ (cb # "on_body" /\ ~Utf8(piece))]

(* execute returns at the end of the buffer, flushing an open span, or at  *)
(* an error.                                                               *)
ExecuteReturns ==
  /\ executing
  /\ p = endp \/ parser.error # "OK"
  /\ executing' = FALSE
  /\ request' = IF parser.span = NoSpan \/ parser.error # "OK" THEN request
                ELSE Delivered(p)
  /\ UNCHANGED <<stream, p, endp, cur, parser>>

(* reset, between two executes.                                            *)
Reset ==
  /\ ~executing
  /\ cur' = "start"
  /\ parser' = ResetParser
  /\ request' = [ResetRequest EXCEPT !.aborted = request.aborted]
  /\ UNCHANGED <<stream, p, endp, executing>>

----------------------------------------------------------------------------
(* Moves of the state machine.                                             *)

Byte == stream[p]

At(node) ==
  /\ executing /\ parser.error = "OK" /\ p < endp
  /\ cur = node

(* Go on at a node, k bytes further, with new fields.                      *)
Move(node, k, q, r) ==
  /\ cur' = node
  /\ p' = p + k
  /\ parser' = q
  /\ request' = r
  /\ UNCHANGED <<stream, endp, executing>>

Eat(node)  == Move(node, 1, parser, request)
Goto(node) == Move(node, 0, parser, request)
Fail(e)    == Move("error", 0, [parser EXCEPT !.error = e], request)

Spanned(cb, from) == [parser EXCEPT !.span = [cb |-> cb, from |-> from]]
Unspanned         == [parser EXCEPT !.span = NoSpan]

(* End the span before p, and go on k bytes further.                       *)
EndSpanKept(node, k) == Move(node, k, parser, Delivered(p))     \* mutant
EndSpan(node, k) == Move(node, k, Unspanned, Delivered(p))

(* Matching the bytes of one of several words, across buffers.             *)
Extends(s, words) == \E w \in words : IsStrictPrefix(s, Spell[w])
Matches(s, words) == {w \in words : Spell[w] = s}
Matched(s)        == [parser EXCEPT !.matched = s]

----------------------------------------------------------------------------
(* The request line.                                                       *)

Start ==
  /\ At("start")
  /\ \/ Byte \in {"CR", "LF"} /\ Eat("start")
     \/ /\ Byte \notin {"CR", "LF"}
        /\ Move("after_start_req", 0,
                [Spanned("on_method", p) EXCEPT !.matched = <<>>], request)

(* The method m ends before the byte k further on; on_method_complete.     *)
MethodComplete(m, k) ==
  LET r == Delivered(p + k)
  IN  Move("req_first_space_before_url", k,
           [Unspanned EXCEPT !.method = m, !.matched = <<>>],
           [r EXCEPT !.method = {r.buf["on_method"]}, !.buf["on_method"] = <<>>])

(* A method that begins another one ends where the other does not go on.   *)
AfterStartReq ==
  LET words == Methods \cap DOMAIN Spell
      s     == Append(parser.matched, Byte)
  IN  /\ At("after_start_req")
      /\ \/ /\ Extends(s, words)
            /\ Move("after_start_req", 1, Matched(s), request)
         \/ /\ ~Extends(s, words)
            /\ \E m \in Matches(s, words) : MethodComplete(m, 1)
         \/ /\ ~Extends(s, words) /\ Matches(s, words) = {}
            /\ \E m \in Matches(parser.matched, words) : MethodComplete(m, 0)
         \/ /\ ~Extends(s, words) /\ Matches(s, words) = {}
            /\ Matches(parser.matched, words) = {}
            /\ Fail("INVALID_METHOD")

ReqFirstSpaceBeforeUrl ==
  /\ At("req_first_space_before_url")
  /\ \/ Byte = "SP" /\ Eat("req_spaces_before_url")
     \/ Byte # "SP" /\ Fail("INVALID_METHOD")

ReqSpacesBeforeUrl ==
  /\ At("req_spaces_before_url")
  /\ \/ Byte = "SP" /\ Eat("req_spaces_before_url")
     \/ /\ Byte # "SP"
        /\ Goto(IF parser.method = "CONNECT" THEN "url_entry_connect"
                ELSE "url_entry_normal")

(* The span of the url begins, in the state its kind calls for.            *)
UrlEntry(node, first) ==
  /\ At(node)
  /\ \/ Byte \in {"HT", "FF"} /\ Fail("INVALID_URL")
     \/ /\ Byte \notin {"HT", "FF"}
        /\ Move(first, 0, Spanned("on_url", p), request)
UrlEntryConnect == UrlEntry("url_entry_connect", "url_server")
UrlEntryNormal  == UrlEntry("url_entry_normal", "url_start")

UrlStart ==
  /\ At("url_start")
  /\ \/ Byte \in {"*", "/"} /\ Eat("url_path")
     \/ Byte \in Letter /\ Goto("url_schema")
     \/ Byte \notin {"*", "/"} \cup Letter /\ Fail("INVALID_URL")

UrlSchema ==
  /\ At("url_schema")
  /\ \/ Byte \in Letter /\ Eat("url_schema")
     \/ Byte = ":" /\ Eat("url_schema_delim")
     \/ Byte \notin Letter \cup {":"} /\ Fail("INVALID_URL")

UrlSchemaDelim ==
  /\ At("url_schema_delim")
  /\ \/ Byte = "/" /\ Eat("url_schema_delim_1")
     \/ Byte # "/" /\ Fail("INVALID_URL")

UrlSchemaDelim1 ==
  /\ At("url_schema_delim_1")
  /\ \/ Byte = "/" /\ Eat("url_server")
     \/ Byte # "/" /\ Fail("INVALID_URL")

(* The url ends at a blank, or the request is one of HTTP/0.9.             *)
UrlEnds ==
  \/ Byte = "SP" /\ EndSpan("url_skip_to_http", 0)
  \/ Byte = "CR" /\ EndSpan("url_skip_lf_to_http09", 0)
  \/ Byte = "LF" /\ EndSpan("url_skip_to_http09", 0)
UrlEnd == {"SP", "CR", "LF"}

UrlServer ==
  /\ At("url_server")
  /\ \/ UrlEnds
     \/ Byte \in UrlServerByte /\ Eat("url_server")
     \/ Byte = "/" /\ Eat("url_path")
     \/ Byte = "?" /\ Eat("url_query")
     \/ Byte = "@" /\ Eat("url_server_with_at")
     \/ /\ Byte \notin UrlEnd \cup UrlServerByte \cup {"/", "?", "@"}
        /\ Fail("INVALID_URL")

(* A second '@' is an error, but only next to the first.                   *)
UrlServerWithAt ==
  /\ At("url_server_with_at")
  /\ \/ UrlEnds
     \/ Byte \in UrlServerByte /\ Eat("url_server")
     \/ Byte = "/" /\ Eat("url_path")
     \/ Byte = "?" /\ Eat("url_query")
     \/ /\ Byte \notin UrlEnd \cup UrlServerByte \cup {"/", "?"}
        /\ Fail("INVALID_URL")

UrlPath ==
  /\ At("url_path")
  /\ \/ Byte \in UrlPathByte /\ Eat("url_path")
     \/ Byte \in {"HT", "FF"} /\ Fail("INVALID_URL")
     \/ /\ Byte \notin UrlPathByte \cup {"HT", "FF"}
        /\ Goto("url_query_or_fragment")

UrlQueryOrFragment ==
  /\ At("url_query_or_fragment")
  /\ \/ UrlEnds
     \/ Byte = "#" /\ Eat("url_fragment")
     \/ Byte = "?" /\ Eat("url_query")
     \/ Byte \notin UrlEnd \cup {"#", "?"} /\ Fail("INVALID_URL")

UrlQuery ==
  /\ At("url_query")
  /\ \/ UrlEnds
     \/ Byte \in UrlQueryByte /\ Eat("url_query")
     \/ Byte = "#" /\ Eat("url_fragment")
     \/ Byte \notin UrlEnd \cup UrlQueryByte \cup {"#"} /\ Fail("INVALID_URL")

UrlFragment ==
  /\ At("url_fragment")
  /\ \/ UrlEnds
     \/ Byte \in Printable /\ Eat("url_fragment")
     \/ Byte \notin UrlEnd \cup Printable /\ Fail("INVALID_URL")

(* on_url_complete.                                                        *)
UrlComplete ==
  [request EXCEPT !.url = {request.buf["on_url"]}, !.buf["on_url"] = <<>>]

UrlSkipToHttp ==
  /\ At("url_skip_to_http")
  /\ \/ Byte \in {"HT", "FF"} /\ Fail("INVALID_URL")
     \/ Byte \notin {"HT", "FF"} /\ Eat("url_to_http")

UrlToHttp ==
  /\ At("url_to_http")
  /\ \/ Byte \in {"HT", "FF"} /\ Fail("INVALID_URL")
     \/ /\ Byte \notin {"HT", "FF"}
        /\ Move("req_http_start", 0, Matched(<<>>), UrlComplete)

UrlSkipToHttp09 ==
  /\ At("url_skip_to_http09")
  /\ \/ Byte \in {"HT", "FF"} /\ Fail("INVALID_URL")
     \/ Byte \notin {"HT", "FF"} /\ Eat("url_to_http_09")

UrlSkipLfToHttp09 ==
  /\ At("url_skip_lf_to_http09")
  /\ \/ Byte = "CR" /\ Eat("url_skip_lf_to_http09_1")
     \/ Byte # "CR" /\ Fail("INVALID_URL")

UrlSkipLfToHttp091 ==
  /\ At("url_skip_lf_to_http09_1")
  /\ \/ Byte = "LF" /\ Eat("url_to_http_09")
     \/ Byte # "LF" /\ Fail("INVALID_URL")

(* HTTP/0.9: on_version is never called.                                   *)
UrlToHttp09 ==
  /\ At("url_to_http_09")
  /\ \/ Byte \in {"HT", "FF"} /\ Fail("INVALID_URL")
     \/ /\ Byte \notin {"HT", "FF"}
        /\ Move("headers_start", 0,
                [parser EXCEPT !.http_major = 0, !.http_minor = 9], UrlComplete)

----------------------------------------------------------------------------
(* The version.                                                            *)

(* The methods that may be used with a protocol.                           *)
MethodsOf(protocol) ==
  CASE protocol = "HTTP/" -> HttpMethods \cup {"PRI"}
    [] protocol = "ICE/"  -> {"SOURCE"}
    [] protocol = "RTSP/" -> RtspMethods

ReqHttpStart ==
  LET s    == Append(parser.matched, Byte)
      done == Matches(s, Protocols)
  IN  /\ At("req_http_start")
      /\ \/ parser.matched = <<>> /\ Byte = "SP" /\ Eat("req_http_start")
         \/ Extends(s, Protocols) /\ Move("req_http_start", 1, Matched(s), request)
         \/ /\ \E w \in done : parser.method \in MethodsOf(w)
            /\ Move("req_http_major", 1,
                    [Spanned("on_version", p + 1) EXCEPT !.matched = <<>>], request)
         \/ /\ ~(parser.matched = <<>> /\ Byte = "SP")
            /\ ~Extends(s, Protocols)
            /\ \A w \in done : parser.method \notin MethodsOf(w)
            /\ Fail("INVALID_CONSTANT")

ReqHttpMajor ==
  /\ At("req_http_major")
  /\ \/ /\ Byte \in Digit
        /\ Move("req_http_dot", 1, [parser EXCEPT !.http_major = Value(Byte)], request)
     \/ Byte \notin Digit /\ Fail("INVALID_VERSION")

ReqHttpDot ==
  /\ At("req_http_dot")
  /\ \/ Byte = "." /\ Eat("req_http_minor")
     \/ Byte # "." /\ Fail("INVALID_VERSION")

Supported(major, minor) ==
  <<major, minor>> \in {<<0, 9>>, <<1, 0>>, <<1, 1>>, <<2, 0>>}

(* on_version_complete.                                                    *)
VersionComplete ==
  LET r == Delivered(p + 1)
  IN  Move(IF parser.method = "PRI" THEN "req_pri_upgrade" ELSE "req_http_complete",
           1, [Unspanned EXCEPT !.http_minor = Value(Byte)],
           [r EXCEPT !.version = {r.buf["on_version"]}, !.buf["on_version"] = <<>>])

ReqHttpMinor ==
  /\ At("req_http_minor")
  /\ \/ /\ Byte \in Digit /\ Supported(parser.http_major, Value(Byte))
        /\ VersionComplete
     \/ /\ Byte \in Digit => ~Supported(parser.http_major, Value(Byte))
        /\ Fail("INVALID_VERSION")

(* The preface of HTTP/2 is matched and then not spoken.                   *)
ReqPriUpgrade ==
  LET s == Append(parser.matched, Byte)
      preface == {"pri_preface"}
  IN  /\ At("req_pri_upgrade")
      /\ \/ Extends(s, preface) /\ Move("req_pri_upgrade", 1, Matched(s), request)
         \/ Matches(s, preface) # {} /\ Fail("PAUSED_H2_UPGRADE")
         \/ /\ ~Extends(s, preface) /\ Matches(s, preface) = {}
            /\ Fail("INVALID_VERSION")

ReqHttpComplete ==
  /\ At("req_http_complete")
  /\ \/ Byte = "CR" /\ Eat("req_http_complete_crlf")
     \/ Byte # "CR" /\ Fail("INVALID_VERSION")

ReqHttpCompleteCrlf ==
  /\ At("req_http_complete_crlf")
  /\ \/ Byte = "LF" /\ Eat("headers_start")
     \/ Byte # "LF" /\ Fail("STRICT")

----------------------------------------------------------------------------
(* Headers: names.                                                         *)

(* An error that the code raises after it has ended the span.              *)
FailAfterSpan(e) == Move("error", 0, [Unspanned EXCEPT !.error = e], Delivered(p))

HeadersStart ==
  /\ At("headers_start")
  /\ \/ Byte = "SP" /\ Fail("UNEXPECTED_SPACE")
     \/ Byte # "SP" /\ Goto("header_field_start")

HeaderFieldStart ==
  /\ At("header_field_start")
  /\ \/ Byte = "LF" /\ Fail("INVALID_HEADER_TOKEN")
     \/ Byte = "CR" /\ Eat("headers_almost_done")
     \/ /\ Byte \notin {"CR", "LF"}
        /\ Move("header_field", 0,
                [Spanned("on_header_field", p) EXCEPT !.matched = <<>>], request)

InState(h) == [parser EXCEPT !.header_state = h, !.matched = <<>>]

HeaderField ==
  LET words == DOMAIN FieldState \cap DOMAIN Spell
      s     == Append(parser.matched, LowerOf(Byte))
  IN  /\ At("header_field")
      /\ \/ Extends(s, words) /\ Move("header_field", 1, Matched(s), request)
         \/ \E w \in Matches(s, words) :
              Move("header_field_colon", 1, InState(FieldState[w]), request)
         \/ /\ ~Extends(s, words) /\ Matches(s, words) = {}
            /\ Move("header_field_general", 0, InState("GENERAL"), request)

(* The name is complete.  A message has one way to tell its length.        *)
FieldCompleteUnchecked == EndSpan("header_value_discard_ws", 1)  \* mutant
FieldComplete ==
  \/ /\ parser.header_state = "CONTENT_LENGTH"
     /\ "F_TRANSFER_ENCODING" \in parser.flags
     /\ FailAfterSpan("INVALID_CONTENT_LENGTH")
  \/ /\ parser.header_state = "TRANSFER_ENCODING"
     /\ "F_CONTENT_LENGTH" \in parser.flags
     /\ FailAfterSpan("INVALID_TRANSFER_ENCODING")
  \/ /\ parser.header_state = "CONTENT_LENGTH"
          => "F_TRANSFER_ENCODING" \notin parser.flags
     /\ parser.header_state = "TRANSFER_ENCODING"
          => "F_CONTENT_LENGTH" \notin parser.flags
     /\ EndSpan("header_value_discard_ws", 1)

HeaderFieldColon ==
  /\ At("header_field_colon")
  /\ \/ Byte = ":" /\ FieldComplete
     \/ Byte = "SP" /\ FailAfterSpan("INVALID_HEADER_TOKEN")
     \/ /\ Byte \notin {":", "SP"}
        /\ Move("header_field_general", 0, InState("GENERAL"), request)

HeaderFieldGeneral ==
  /\ At("header_field_general")
  /\ \/ Byte \in TokenByte /\ Eat("header_field_general")
     \/ Byte = ":" /\ FieldComplete
     \/ Byte \notin TokenByte \cup {":"} /\ Fail("INVALID_HEADER_TOKEN")

----------------------------------------------------------------------------
(* Headers: values.                                                        *)

(* The span of a value begins at p, in the state its header calls for.     *)
BeginValue(q) ==
  LET v == [q EXCEPT !.span = [cb |-> "on_header_value", from |-> p],
                     !.matched = <<>>]
      flags == q.flags
  IN  \/ /\ q.header_state = "CONNECTION"
         /\ Move("header_value_connection", 0, v, request)
      \/ /\ q.header_state = "CONTENT_LENGTH"
         /\ \/ /\ "F_CONTENT_LENGTH" \in flags
               /\ Fail("UNEXPECTED_CONTENT_LENGTH")
            \/ /\ "F_CONTENT_LENGTH" \notin flags
               /\ Move("header_value_content_length", 0, v, request)
      \/ /\ q.header_state = "TRANSFER_ENCODING"
         /\ \/ "F_CHUNKED" \in flags /\ Fail("INVALID_TRANSFER_ENCODING")
            \/ /\ "F_CHUNKED" \notin flags
               /\ Move("header_value_te_chunked", 0,
                       [v EXCEPT !.flags = @ \cup {"F_TRANSFER_ENCODING"}], request)
      \/ /\ q.header_state = "UPGRADE"
         /\ Move("header_value", 0,
                 [v EXCEPT !.flags = @ \cup {"F_UPGRADE"},
                           !.header_state = "GENERAL"], request)
      \/ /\ q.header_state \in
              {"GENERAL", "TRANSFER_ENCODING_CHUNKED"} \cup OptionStates
         /\ Move("header_value", 0, v, request)

HeaderValueDiscardWs ==
  /\ At("header_value_discard_ws")
  /\ \/ Byte \in {"HT", "SP"} /\ Eat("header_value_discard_ws")
     \/ Byte = "LF" /\ Fail("INVALID_HEADER_TOKEN")
     \/ Byte = "CR" /\ Eat("header_value_discard_ws_almost_done")
     \/ Byte \notin {"HT", "SP", "LF", "CR"} /\ BeginValue(parser)

HeaderValueDiscardWsAlmostDone ==
  /\ At("header_value_discard_ws_almost_done")
  /\ \/ Byte = "LF" /\ Eat("header_value_discard_lws")
     \/ Byte # "LF" /\ Fail("STRICT")

(* What the value has told becomes a flag.                                 *)
FlagOf(h) ==
  CASE h = "CONNECTION_KEEP_ALIVE"     -> {"F_CONNECTION_KEEP_ALIVE"}
    [] h = "CONNECTION_CLOSE"          -> {"F_CONNECTION_CLOSE"}
    [] h = "CONNECTION_UPGRADE"        -> {"F_CONNECTION_UPGRADE"}
    [] h = "TRANSFER_ENCODING_CHUNKED" -> {"F_CHUNKED"}
    [] OTHER                           -> {}
Committed ==
  [parser EXCEPT !.flags = @ \cup FlagOf(parser.header_state),
                 !.header_state = IF @ \in OptionStates THEN "CONNECTION" ELSE @]

(* on_header_value_complete: insert into a map whose keys ignore case.  A  *)
(* name that is there keeps its spelling and gets the new value.           *)
InsertHeader ==
  LET name == request.buf["on_header_field"]
      same == {h \in request.headers : LowerAll(h.name) = LowerAll(name)}
      new  == {[name  |-> n, value |-> request.buf["on_header_value"]] :
                 n \in IF same = {} THEN {name} ELSE {h.name : h \in same}}
  IN  [request EXCEPT !.headers = (@ \ same) \cup new,
                      !.buf["on_header_field"] = <<>>,
                      !.buf["on_header_value"] = <<>>]

HeaderValueDiscardLws ==
  /\ At("header_value_discard_lws")
  /\ \/ Byte \in {"HT", "SP"} /\ Fail("INVALID_HEADER_TOKEN")
     \/ /\ Byte \notin {"HT", "SP"} /\ parser.header_state = "CONTENT_LENGTH"
        /\ Fail("INVALID_CONTENT_LENGTH")
     \/ /\ Byte \notin {"HT", "SP"} /\ parser.header_state # "CONTENT_LENGTH"
        /\ Move("header_field_start", 0, Committed, InsertHeader)

HeaderValue ==
  /\ At("header_value")
  /\ \/ Byte \in Text /\ Eat("header_value")
     \/ Byte \notin Text /\ Goto("header_value_otherwise")

HeaderValueOtherwise ==
  /\ At("header_value_otherwise")
  /\ \/ Byte = "CR" /\ EndSpan("header_value_almost_done", 1)
     \/ Byte = "LF" /\ FailAfterSpan("CR_EXPECTED")
     \/ Byte \notin {"CR", "LF"} /\ FailAfterSpan("INVALID_HEADER_TOKEN")

HeaderValueAlmostDone ==
  /\ At("header_value_almost_done")
  /\ \/ Byte = "LF" /\ Eat("header_value_lws")
     \/ Byte # "LF" /\ Fail("LF_EXPECTED")

(* A line that begins with a blank goes on with the value, and is read     *)
(* again as what the header is.                                            *)
HeaderValueLws ==
  /\ At("header_value_lws")
  /\ \/ /\ Byte \in {"HT", "SP"}
        /\ BeginValue(IF parser.header_state = "TRANSFER_ENCODING_CHUNKED"
                      THEN InState("GENERAL") ELSE parser)
     \/ /\ Byte \notin {"HT", "SP"}
        /\ Move("header_field_start", 0, Committed, InsertHeader)

HeaderValueConnection ==
  LET words == DOMAIN OptionState \cap DOMAIN Spell
      s     == Append(parser.matched, LowerOf(Byte))
      blank == parser.matched = <<>> /\ Byte \in {"HT", "SP"}
  IN  /\ At("header_value_connection")
      /\ \/ blank /\ Eat("header_value_connection")
         \/ /\ Extends(s, words)
            /\ Move("header_value_connection", 1, Matched(s), request)
         \/ \E w \in Matches(s, words) :
              Move("header_value_connection_ws", 1, InState(OptionState[w]), request)
         \/ /\ ~blank /\ ~Extends(s, words) /\ Matches(s, words) = {}
            /\ Move("header_value_connection_token", 0, Matched(<<>>), request)

HeaderValueConnectionWs ==
  /\ At("header_value_connection_ws")
  /\ \/ Byte \in {"CR", "LF"} /\ Goto("header_value_otherwise")
     \/ Byte = "SP" /\ Eat("header_value_connection_ws")
     \/ Byte = "," /\ Move("header_value_connection", 1, Committed, request)
     \/ /\ Byte \notin {"CR", "LF", "SP", ","}
        /\ Move("header_value_connection_token", 0, InState("GENERAL"), request)

HeaderValueConnectionToken ==
  /\ At("header_value_connection_token")
  /\ \/ Byte = "," /\ Eat("header_value_connection")
     \/ Byte \in Text \ {","} /\ Eat("header_value_connection_token")
     \/ Byte \notin Text /\ Goto("header_value_otherwise")

(* content_length * base + digit, in 64 bits, and its overflow.            *)
OverflowsByFactor(base, digit) ==                          \* mutant
  parser.content_length > MaxLength \div base
Overflows(base, digit) ==
  \/ parser.content_length > MaxLength \div base
  \/ parser.content_length * base > MaxLength - digit
MulAdd(base, digit) ==
  [parser EXCEPT !.content_length = (@ * base + digit) % (MaxLength + 1)]

HeaderValueContentLength ==
  /\ At("header_value_content_length")
  /\ \/ /\ Byte \in Digit /\ ~Overflows(10, Value(Byte))
        /\ Move("header_value_content_length", 1, MulAdd(10, Value(Byte)), request)
     \/ /\ Byte \in Digit /\ Overflows(10, Value(Byte))
        /\ FailAfterSpan("INVALID_CONTENT_LENGTH")
     \/ Byte \notin Digit /\ Goto("header_value_content_length_ws")

HeaderValueContentLengthWs ==
  /\ At("header_value_content_length_ws")
  /\ \/ Byte = "SP" /\ Eat("header_value_content_length_ws")
     \/ /\ Byte \in {"CR", "LF"}
        /\ Move("header_value_otherwise", 0,
                [parser EXCEPT !.flags = @ \cup {"F_CONTENT_LENGTH"}], request)
     \/ /\ Byte \notin {"SP", "CR", "LF"}
        /\ FailAfterSpan("INVALID_CONTENT_LENGTH")

HeaderValueTeChunked ==
  LET s == Append(parser.matched, LowerOf(Byte))
  IN  /\ At("header_value_te_chunked")
      /\ \/ /\ Extends(s, {"chunked"})
            /\ Move("header_value_te_chunked", 1, Matched(s), request)
         \/ /\ Matches(s, {"chunked"}) # {}
            /\ Move("header_value_te_chunked_last", 1, Matched(<<>>), request)
         \/ /\ ~Extends(s, {"chunked"}) /\ Matches(s, {"chunked"}) = {}
            /\ Move("header_value_te_token", 0, Matched(<<>>), request)

HeaderValueTeChunkedLast ==
  /\ At("header_value_te_chunked_last")
  /\ \/ /\ Byte \in {"CR", "LF"}
        /\ Move("header_value_otherwise", 0, InState("TRANSFER_ENCODING_CHUNKED"),
                request)
     \/ Byte = "SP" /\ Eat("header_value_te_chunked_last")
     \/ Byte = "," /\ FailAfterSpan("INVALID_TRANSFER_ENCODING")
     \/ /\ Byte \notin {"CR", "LF", "SP", ","}
        /\ Goto("header_value_te_token")

HeaderValueTeToken ==
  /\ At("header_value_te_token")
  /\ \/ Byte = "," /\ Eat("header_value_te_token_ows")
     \/ Byte \in Text \ {","} /\ Eat("header_value_te_token")
     \/ /\ Byte \notin Text
        /\ Move("header_value", 0, InState("GENERAL"), request)

HeaderValueTeTokenOws ==
  /\ At("header_value_te_token_ows")
  /\ \/ Byte \in {"HT", "SP"} /\ Eat("header_value_te_token_ows")
     \/ /\ Byte \notin {"HT", "SP"}
        /\ Move("header_value_te_chunked", 0, Matched(<<>>), request)

----------------------------------------------------------------------------
(* The end of the head, and the end of a message.                          *)

ShouldKeepAlive(q) ==
  IF q.http_major > 0 /\ q.http_minor > 0
  THEN "F_CONNECTION_CLOSE" \notin q.flags
  ELSE "F_CONNECTION_KEEP_ALIVE" \in q.flags

AfterMessageComplete(k, q, r) ==
  \/ /\ ShouldKeepAlive(q)
     /\ Move("start", k, [q EXCEPT !.flags = {}, !.content_length = 0], r)
  \/ /\ ~ShouldKeepAlive(q)
     /\ Move("closed", k, [q EXCEPT !.flags = {}], r)

(* The caller is told of an upgrade by an error.                           *)
Paused(k, q, r) == Move("error", k, [q EXCEPT !.error = "PAUSED_UPGRADE"], r)

MessageComplete(k, q, r) ==
  \/ q.upgrade /\ Paused(k, q, r)
  \/ ~q.upgrade /\ AfterMessageComplete(k, q, r)

(* before_headers_complete and after_headers_complete: what follows.       *)
Upgrades ==
  \/ {"F_UPGRADE", "F_CONNECTION_UPGRADE"} \subseteq parser.flags
  \/ parser.method = "CONNECT"

AfterHeaders ==
  LET flags   == parser.flags
      hasBody == "F_CHUNKED" \in flags \/ parser.content_length > 0
  IN  IF Upgrades /\ (parser.method = "CONNECT" \/ ~hasBody) THEN "upgrade"
      ELSE IF "F_CHUNKED" \in flags THEN "chunks"
      ELSE IF "F_TRANSFER_ENCODING" \in flags THEN "unknown length"
      ELSE IF "F_CONTENT_LENGTH" \in flags /\ parser.content_length > 0 THEN "body"
      ELSE "no body"

HeadersComplete ==
  LET q == [parser EXCEPT !.upgrade = Upgrades]
      r == [request EXCEPT !.is_header_complete = TRUE]
  IN  \/ AfterHeaders = "upgrade" /\ Paused(1, q, r)
      \/ /\ AfterHeaders = "chunks"
         /\ Move("chunk_size_digit", 1, [q EXCEPT !.content_length = 0], r)
      \/ /\ AfterHeaders = "unknown length"
         /\ Move("error", 1, [q EXCEPT !.error = "INVALID_TRANSFER_ENCODING"], r)
      \/ /\ AfterHeaders = "body"
         /\ Move("consume_content_length_1", 1,
                 [q EXCEPT !.span = [cb |-> "on_body", from |-> p + 1]], r)
      \/ AfterHeaders = "no body" /\ AfterMessageComplete(1, q, r)

(* The blank line ends the head, or the trailers of a chunked message.     *)
HeadersAlmostDone ==
  /\ At("headers_almost_done")
  /\ \/ /\ Byte = "LF" /\ "F_TRAILING" \in parser.flags
        /\ MessageComplete(1, parser, request)
     \/ Byte = "LF" /\ "F_TRAILING" \notin parser.flags /\ HeadersComplete
     \/ Byte # "LF" /\ Fail("STRICT")

Closed ==
  /\ At("closed")
  /\ \/ Byte \in {"CR", "LF"} /\ Eat("closed")
     \/ Byte \notin {"CR", "LF"} /\ Fail("CLOSED_CONNECTION")

----------------------------------------------------------------------------
(* Bodies.  Of what is at hand the parser consumes content_length bytes.   *)

AllOfIt == parser.content_length                           \* mutant
AtHand == IF parser.content_length <= endp - p THEN parser.content_length ELSE endp - p
Consumed == [parser EXCEPT !.content_length = @ - AtHand]

ConsumeContentLength1 ==
  /\ At("consume_content_length_1")
  /\ \/ /\ AtHand < parser.content_length
        /\ Move("consume_content_length_1", AtHand, Consumed, request)
     \/ /\ AtHand = parser.content_length
        /\ MessageComplete(AtHand, [Consumed EXCEPT !.span = NoSpan],
                           Delivered(p + AtHand))

ConsumeContentLength ==
  /\ At("consume_content_length")
  /\ \/ /\ AtHand < parser.content_length
        /\ Move("consume_content_length", AtHand, Consumed, request)
     \/ /\ AtHand = parser.content_length
        /\ Move("chunk_data_almost_done", AtHand, [Consumed EXCEPT !.span = NoSpan],
                Delivered(p + AtHand))

HexByte == LowerOf(Byte) \in Hex
AddHexByte ==
  \/ ~Overflows(16, Value(Byte)) /\ Move("chunk_size", 1, MulAdd(16, Value(Byte)), request)
  \/ Overflows(16, Value(Byte)) /\ Fail("INVALID_CHUNK_SIZE")

ChunkSizeDigit ==
  /\ At("chunk_size_digit")
  /\ \/ HexByte /\ AddHexByte
     \/ ~HexByte /\ Fail("INVALID_CHUNK_SIZE")

ChunkSize ==
  /\ At("chunk_size")
  /\ \/ HexByte /\ AddHexByte
     \/ ~HexByte /\ Goto("chunk_size_otherwise")

ChunkSizeOtherwise ==
  /\ At("chunk_size_otherwise")
  /\ \/ Byte = "CR" /\ Eat("chunk_size_almost_done")
     \/ Byte = ";" /\ Eat("chunk_extensions")
     \/ Byte = "LF" /\ Fail("CR_EXPECTED")
     \/ Byte \notin {"CR", ";", "LF"} /\ Fail("INVALID_CHUNK_SIZE")

(* A chunk of size 0 is the last; trailers follow it.                      *)
ChunkSizeAlmostDone ==
  /\ At("chunk_size_almost_done")
  /\ \/ /\ Byte = "LF" /\ parser.content_length = 0
        /\ Move("header_field_start", 1,
                [parser EXCEPT !.flags = @ \cup {"F_TRAILING"}], request)
     \/ /\ Byte = "LF" /\ parser.content_length > 0
        /\ Move("consume_content_length", 1, Spanned("on_body", p + 1), request)
     \/ Byte # "LF" /\ Fail("STRICT")

ChunkDataAlmostDone ==
  /\ At("chunk_data_almost_done")
  /\ \/ Byte = "CR" /\ Eat("chunk_data_almost_done_1")
     \/ Byte = "LF" /\ Fail("CR_EXPECTED")
     \/ Byte \notin {"CR", "LF"} /\ Fail("STRICT")

ChunkDataAlmostDone1 ==
  /\ At("chunk_data_almost_done_1")
  /\ \/ /\ Byte = "LF"
        /\ Move("chunk_size_digit", 1, [parser EXCEPT !.content_length = 0], request)
     \/ Byte # "LF" /\ Fail("STRICT")

(* Extensions of chunks.  RequestParser has no callback for them.          *)
ChunkExtensions ==
  /\ At("chunk_extensions")
  /\ \/ Byte \in {"CR", "SP"} /\ Fail("STRICT")
     \/ Byte \notin {"CR", "SP"} /\ Goto("chunk_extension_name")

ChunkExtensionName ==
  /\ At("chunk_extension_name")
  /\ \/ Byte \in TokenByte /\ Eat("chunk_extension_name")
     \/ Byte = "=" /\ Eat("chunk_extension_value")
     \/ Byte = ";" /\ Eat("chunk_extensions")
     \/ Byte = "CR" /\ Eat("chunk_size_almost_done")
     \/ Byte = "LF" /\ Fail("CR_EXPECTED")
     \/ Byte \notin TokenByte \cup {"=", ";", "CR", "LF"} /\ Fail("STRICT")

ChunkExtensionValue ==
  /\ At("chunk_extension_value")
  /\ \/ Byte \in TokenByte /\ Eat("chunk_extension_value")
     \/ Byte = "\"" /\ Eat("chunk_extension_quoted_value")
     \/ Byte = ";" /\ Eat("chunk_extensions")
     \/ Byte = "CR" /\ Eat("chunk_size_almost_done")
     \/ Byte = "LF" /\ Fail("CR_EXPECTED")
     \/ Byte \notin TokenByte \cup {"\"", ";", "CR", "LF"} /\ Fail("STRICT")

ChunkExtensionQuotedValue ==
  /\ At("chunk_extension_quoted_value")
  /\ \/ Byte \in Text \ {"\"", "\\"} /\ Eat("chunk_extension_quoted_value")
     \/ Byte = "\"" /\ Eat("chunk_extension_quoted_value_done")
     \/ Byte = "\\" /\ Eat("chunk_extension_quoted_value_quoted_pair")
     \/ Byte \notin Text /\ Fail("STRICT")

ChunkExtensionQuotedPair ==
  /\ At("chunk_extension_quoted_value_quoted_pair")
  /\ \/ Byte \in Text /\ Eat("chunk_extension_quoted_value")
     \/ Byte \notin Text /\ Fail("STRICT")

ChunkExtensionQuotedValueDone ==
  /\ At("chunk_extension_quoted_value_done")
  /\ \/ Byte = "CR" /\ Eat("chunk_size_almost_done")
     \/ Byte = ";" /\ Eat("chunk_extensions")
     \/ Byte = "LF" /\ Fail("CR_EXPECTED")
     \/ Byte \notin {"CR", ";", "LF"} /\ Fail("STRICT")

----------------------------------------------------------------------------
RequestLineStep ==
  \/ Start \/ AfterStartReq \/ ReqFirstSpaceBeforeUrl \/ ReqSpacesBeforeUrl
  \/ UrlEntryConnect \/ UrlEntryNormal \/ UrlStart \/ UrlSchema \/ UrlSchemaDelim
  \/ UrlSchemaDelim1 \/ UrlServer \/ UrlServerWithAt \/ UrlPath
  \/ UrlQueryOrFragment \/ UrlQuery \/ UrlFragment \/ UrlSkipToHttp \/ UrlToHttp
  \/ UrlSkipToHttp09 \/ UrlSkipLfToHttp09 \/ UrlSkipLfToHttp091 \/ UrlToHttp09
  \/ ReqHttpStart \/ ReqHttpMajor \/ ReqHttpDot \/ ReqHttpMinor \/ ReqPriUpgrade
  \/ ReqHttpComplete \/ ReqHttpCompleteCrlf

HeaderStep ==
  \/ HeadersStart \/ HeaderFieldStart \/ HeaderField \/ HeaderFieldColon
  \/ HeaderFieldGeneral \/ HeaderValueDiscardWs \/ HeaderValueDiscardWsAlmostDone
  \/ HeaderValueDiscardLws \/ HeaderValue \/ HeaderValueOtherwise
  \/ HeaderValueAlmostDone \/ HeaderValueLws \/ HeaderValueConnection
  \/ HeaderValueConnectionWs \/ HeaderValueConnectionToken
  \/ HeaderValueContentLength \/ HeaderValueContentLengthWs
  \/ HeaderValueTeChunked \/ HeaderValueTeChunkedLast \/ HeaderValueTeToken
  \/ HeaderValueTeTokenOws \/ HeadersAlmostDone

BodyStep ==
  \/ ConsumeContentLength1 \/ ConsumeContentLength \/ ChunkSizeDigit \/ ChunkSize
  \/ ChunkSizeOtherwise \/ ChunkSizeAlmostDone \/ ChunkExtensions
  \/ ChunkExtensionName \/ ChunkExtensionValue \/ ChunkExtensionQuotedValue
  \/ ChunkExtensionQuotedPair \/ ChunkExtensionQuotedValueDone
  \/ ChunkDataAlmostDone \/ ChunkDataAlmostDone1 \/ Closed

ParserStep == RequestLineStep \/ HeaderStep \/ BodyStep

ParserNext ==
  \/ \E n \in 1 .. Len(stream) : Execute(n)
  \/ ParserStep
  \/ ExecuteReturns
  \/ Reset

ParserSpec == ParserInit /\ [][ParserNext]_parserVars

----------------------------------------------------------------------------
(* Properties.                                                             *)

(* The types, and the span and the bytes it begins at lie in the buffer.   *)
ParserTypeOK ==
  /\ stream \in Streams
  /\ endp \in 1 .. Len(stream) + 1
  /\ p \in 1 .. endp
  /\ executing \in BOOLEAN
  /\ cur \in Nodes
  /\ parser \in ParserType
  /\ request \in RequestType
  /\ parser.span # NoSpan => parser.span.from \in 1 .. p

UrlNodes ==
  {"url_start", "url_schema", "url_schema_delim", "url_schema_delim_1",
   "url_server", "url_server_with_at", "url_path", "url_query_or_fragment",
   "url_query", "url_fragment"}
VersionNodes == {"req_http_major", "req_http_dot", "req_http_minor"}
FieldNodes   == {"header_field", "header_field_colon", "header_field_general"}
ValueNodes   ==
  {"header_value", "header_value_otherwise", "header_value_connection",
   "header_value_connection_ws", "header_value_connection_token",
   "header_value_content_length", "header_value_content_length_ws",
   "header_value_te_chunked", "header_value_te_chunked_last",
   "header_value_te_token", "header_value_te_token_ows"}
BodyNodes    == {"consume_content_length_1", "consume_content_length"}

SpanOf(node) ==
  CASE node = "after_start_req" -> "on_method"
    [] node \in UrlNodes        -> "on_url"
    [] node \in VersionNodes    -> "on_version"
    [] node \in FieldNodes      -> "on_header_field"
    [] node \in ValueNodes      -> "on_header_value"
    [] node \in BodyNodes       -> "on_body"
    [] OTHER                    -> "none"

(* In every state the span that is open is the one that the state will     *)
(* end (llhttp.c, _span_pos0 and _span_cb0): no callback gets the bytes of *)
(* another, and none is called on a span that never began.                 *)
SpanFitsState == parser.error = "OK" => parser.span.cb = SpanOf(cur)

(* No head that the parser goes on with, let alone one it completes, has   *)
(* both a Content-Length and a Transfer-Encoding, in whichever order they  *)
(* come and wherever they are cut (llhttp.c, invoke_load_header_state).    *)
NeverBothLengths ==
  ~({"F_CONTENT_LENGTH", "F_TRANSFER_ENCODING"} \subseteq parser.flags)

(* The number that digits spell.                                           *)
Number(digits) ==
  LET upTo[i \in 0 .. Len(digits)] ==
        IF i = 0 THEN 0 ELSE upTo[i - 1] * 10 + Value(digits[i])
  IN  upTo[Len(digits)]

(* The length of a body is the number its Content-Length spells, however   *)
(* the digits are cut and up to the limit of 64 bits (llhttp.c, mul_add of *)
(* content_length): a longer number never wraps around.                    *)
LengthIsAsWritten ==
  parser.error = "OK" /\ cur = "header_value_content_length" =>
    LET open == IF executing THEN SubSeq(stream, parser.span.from, p - 1) ELSE <<>>
    IN  parser.content_length = Number(request.buf["on_header_value"] \o open)
=============================================================================
