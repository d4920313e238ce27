----------------------------- MODULE HttpProofs -----------------------------
(***************************************************************************)
(* Proofs about a channel of protocol "http" and its parser, for every     *)
(* stream, every cut of it into reads and every cut of the writes.         *)
(*                                                                         *)
(* Two of the parser's properties share one inductive invariant, Good, of  *)
(* its state and its fields.  A step of the channel is a step of the       *)
(* parser, a call of RequestParser, or leaves both alone.  The replies of  *)
(* the local service have an invariant of their own, of the buffers.       *)
(***************************************************************************)
EXTENDS HttpChannel, TLAPS, SequenceTheorems, FiniteSetTheorems, SequenceLemmas

(* From the end of a header's name to the end of its value, where          *)
(* header_state still says what the header at hand is.                     *)
AroundValue ==
  {"header_value_discard_ws", "header_value_discard_ws_almost_done",
   "header_value_discard_lws", "header_value_almost_done", "header_value_lws"}
ValueRegion == ValueNodes \cup AroundValue
LengthNodes == {"header_value_content_length", "header_value_content_length_ws"}

(* The states outside it in which no span is open.                         *)
Between ==
  {"start", "req_first_space_before_url", "req_spaces_before_url",
   "url_entry_connect", "url_entry_normal", "url_skip_to_http", "url_to_http",
   "url_skip_to_http09", "url_skip_lf_to_http09", "url_skip_lf_to_http09_1",
   "url_to_http_09", "req_http_start", "req_pri_upgrade", "req_http_complete",
   "req_http_complete_crlf", "headers_start", "header_field_start",
   "headers_almost_done", "chunk_size_digit", "chunk_size",
   "chunk_size_otherwise", "chunk_size_almost_done", "chunk_extensions",
   "chunk_extension_name", "chunk_extension_value",
   "chunk_extension_quoted_value", "chunk_extension_quoted_value_quoted_pair",
   "chunk_extension_quoted_value_done", "chunk_data_almost_done",
   "chunk_data_almost_done_1", "closed", "error"}

(* The invariant, of fields q in the state `node`.                         *)
Shape(q) == DOMAIN q = DOMAIN ResetParser /\ DOMAIN q.span = DOMAIN NoSpan

Fits(node, q) == q.error = "OK" => q.span.cb = SpanOf(node)

OneLength(node, q) ==
  /\ ~({"F_CONTENT_LENGTH", "F_TRANSFER_ENCODING"} \subseteq q.flags)
  /\ node \in ValueRegion =>
       /\ q.header_state = "CONTENT_LENGTH" => "F_TRANSFER_ENCODING" \notin q.flags
       /\ q.header_state = "TRANSFER_ENCODING" => "F_CONTENT_LENGTH" \notin q.flags
  /\ node \in LengthNodes => q.header_state = "CONTENT_LENGTH"

Good(node, q) == Shape(q) /\ Fits(node, q) /\ OneLength(node, q)
ParserInv     == Good(cur, parser)

(* The same fields do in b when they do in a.                              *)
Kin(a, b) ==
  /\ SpanOf(b) = SpanOf(a)
  /\ b \in ValueRegion => a \in ValueRegion
  /\ b \in LengthNodes => a \in LengthNodes

(* The fields that the invariant is about are the same.                    *)
Alike(q, v) ==
  /\ Shape(v)
  /\ v.error = q.error /\ v.span = q.span
  /\ v.flags = q.flags /\ v.header_state = q.header_state

----------------------------------------------------------------------------
(* The states and their spans (llhttp.c, _span_pos0 of each state).        *)

(* No span is open in the states between.                                  *)
LEMMA BetweenSpans ==
  \A n \in Between : SpanOf(n) = "none" /\ n \notin ValueRegion /\ n \notin LengthNodes
  BY DEF Between, SpanOf, UrlNodes, VersionNodes, FieldNodes, ValueNodes, BodyNodes,
         ValueRegion, AroundValue, LengthNodes

(* Which span each group of states has open.                               *)
LEMMA SpanTable ==
  /\ SpanOf("after_start_req") = "on_method"
  /\ \A n \in UrlNodes : SpanOf(n) = "on_url" /\ n \notin ValueRegion
  /\ \A n \in VersionNodes : SpanOf(n) = "on_version" /\ n \notin ValueRegion
  /\ \A n \in FieldNodes : SpanOf(n) = "on_header_field" /\ n \notin ValueRegion
  /\ \A n \in ValueNodes : SpanOf(n) = "on_header_value"
  /\ \A n \in BodyNodes : SpanOf(n) = "on_body" /\ n \notin ValueRegion
  /\ \A n \in AroundValue : SpanOf(n) = "none" /\ n \notin LengthNodes
  /\ "after_start_req" \notin ValueRegion
  /\ LengthNodes \subseteq ValueRegion
  BY DEF SpanOf, UrlNodes, VersionNodes, FieldNodes, ValueNodes, BodyNodes,
         ValueRegion, AroundValue, LengthNodes

(* Which states are alike: those that share a span.                        *)
LEMMA Kinship ==
  /\ Kin("after_start_req", "after_start_req")
  /\ \A a, b \in UrlNodes : Kin(a, b)
  /\ \A a, b \in VersionNodes : Kin(a, b)
  /\ \A a, b \in FieldNodes : Kin(a, b)
  /\ \A a, b \in BodyNodes : Kin(a, b)
  /\ \A a \in ValueNodes, b \in ValueNodes \ LengthNodes : Kin(a, b)
  /\ \A a, b \in LengthNodes : Kin(a, b)
  /\ \A a, b \in AroundValue : Kin(a, b)
  /\ \A a \in Between \cup AroundValue, b \in Between : Kin(a, b)
<1>1. LengthNodes \subseteq ValueNodes
  BY DEF LengthNodes, ValueNodes
<1>2. ValueNodes \subseteq ValueRegion /\ AroundValue \subseteq ValueRegion
  BY DEF ValueRegion
<1> QED
  BY <1>1, <1>2, SpanTable, BetweenSpans DEF Kin

----------------------------------------------------------------------------
(* Updates of the fields.                                                  *)

(* Fields that the invariant is not about may change.                      *)
LEMMA AlikeGood ==
  ASSUME NEW node, NEW q, NEW v, Good(node, q), Alike(q, v)
  PROVE  Good(node, v)
  BY DEF Good, Fits, OneLength, Alike

(* The updates that change no other.                                       *)
LEMMA UpdateAlike ==
  ASSUME NEW q, Shape(q), NEW v, NEW w
  PROVE  /\ Alike(q, [q EXCEPT !.matched = v])
         /\ Alike(q, [q EXCEPT !.method = v, !.matched = w])
         /\ Alike(q, [q EXCEPT !.content_length = v])
         /\ Alike(q, [q EXCEPT !.http_major = v])
         /\ Alike(q, [q EXCEPT !.http_minor = v])
         /\ Alike(q, [q EXCEPT !.http_major = v, !.http_minor = w])
         /\ Alike(q, [q EXCEPT !.upgrade = v])
  BY DEF Alike, Shape, ResetParser, NoSpan

(* A span begins in a state that will end it.                              *)
LEMMA SpannedGood ==
  ASSUME NEW a, NEW q, Good(a, q), NEW node, NEW from,
         node \in ValueRegion => a \in ValueRegion,
         node \in LengthNodes => q.header_state = "CONTENT_LENGTH"
  PROVE  Good(node, [q EXCEPT !.span = [cb |-> SpanOf(node), from |-> from]])
  BY DEF Good, Shape, Fits, OneLength, ResetParser, NoSpan

(* A span ends before a state that has none.                               *)
LEMMA UnspannedGood ==
  ASSUME NEW a, NEW q, Good(a, q), NEW node, SpanOf(node) = "none",
         node \notin LengthNodes,
         node \in ValueRegion => a \in ValueRegion
  PROVE  Good(node, [q EXCEPT !.span = NoSpan])
  BY DEF Good, Shape, Fits, OneLength, ResetParser, NoSpan

(* In the state after an error only the flags matter.                      *)
LEMMA ErrorGood ==
  ASSUME NEW node, NEW q, Good(node, q), NEW e, e # "OK"
  PROVE  Good("error", [q EXCEPT !.error = e])
<1>1. "error" \notin ValueRegion /\ "error" \notin LengthNodes
  BY BetweenSpans DEF Between
<1> QED
  BY <1>1 DEF Good, Shape, Fits, OneLength, ResetParser, NoSpan

(* header_state may become anything outside the region of a value, and     *)
(* within it anything but one of the two lengths.                          *)
LEMMA StateGood ==
  ASSUME NEW node, NEW q, Good(node, q), NEW h, NEW s,
         node \in ValueRegion =>
           h \notin {"CONTENT_LENGTH", "TRANSFER_ENCODING"} /\ node \notin LengthNodes,
         node \notin ValueRegion => node \notin LengthNodes
  PROVE  Good(node, [q EXCEPT !.header_state = h, !.matched = s])
  BY DEF Good, Shape, Fits, OneLength, ResetParser, NoSpan

(* Flags other than the two may be set, and all may be cleared.            *)
LEMMA FlagsGood ==
  ASSUME NEW node, NEW q, Good(node, q), NEW fs,
         fs \cap {"F_CONTENT_LENGTH", "F_TRANSFER_ENCODING"}
           \subseteq q.flags \cap {"F_CONTENT_LENGTH", "F_TRANSFER_ENCODING"}
  PROVE  Good(node, [q EXCEPT !.flags = fs])
  BY DEF Good, Shape, Fits, OneLength, ResetParser, NoSpan

----------------------------------------------------------------------------
(* Moves of the state machine.                                             *)

(* A move to a state and fields that are good.                             *)
LEMMA MoveGood ==
  ASSUME NEW node, NEW k, NEW q, NEW r, Move(node, k, q, r), Good(node, q)
  PROVE  ParserInv'
  BY DEF Move, ParserInv, Good, Shape, Fits, OneLength

(* The fields are good in the kin of the state at hand.                    *)
LEMMA KinGood ==
  ASSUME ParserInv, NEW a, NEW b, At(a), Kin(a, b)
  PROVE  Good(b, parser)
  BY DEF ParserInv, At, Kin, Good, Fits, OneLength

(* Consuming a byte, or none, on the way to a kin.                         *)
LEMMA EatGood ==
  ASSUME ParserInv, NEW a, NEW b, At(a), Kin(a, b), Eat(b) \/ Goto(b)
  PROVE  ParserInv'
  BY KinGood, MoveGood DEF Eat, Goto

(* Matching one more byte of a word.                                       *)
LEMMA MatchGood ==
  ASSUME ParserInv, NEW a, NEW b, At(a), Kin(a, b), NEW k, NEW s,
         NEW r, Move(b, k, Matched(s), r)
  PROVE  ParserInv'
<1>1. Good(b, parser)
  BY KinGood
<1>2. Good(b, Matched(s))
  BY <1>1, AlikeGood, UpdateAlike DEF Good, Matched
<1> QED
  BY <1>2, MoveGood

(* Errors, found within a span or just after one was ended.                *)
LEMMA FailGood ==
  ASSUME ParserInv, NEW e, e # "OK", Fail(e) \/ FailAfterSpan(e)
  PROVE  ParserInv'
<1>1. CASE Fail(e)
  BY <1>1, MoveGood, ErrorGood DEF Fail, ParserInv
<1>2. CASE FailAfterSpan(e)
  <2>1. SpanOf("error") = "none" /\ "error" \notin ValueRegion /\ "error" \notin LengthNodes
    BY BetweenSpans DEF Between
  <2>2. Good("error", Unspanned)
    BY <2>1, UnspannedGood DEF ParserInv, Unspanned
  <2> QED
    BY <1>2, <2>2, MoveGood, ErrorGood DEF FailAfterSpan
<1> QED
  BY <1>1, <1>2

(* The end of a span.                                                      *)
LEMMA EndSpanGood ==
  ASSUME ParserInv, NEW node \in Between, NEW k, EndSpan(node, k)
  PROVE  ParserInv'
<1>1. Good(node, Unspanned)
  BY BetweenSpans, UnspannedGood DEF ParserInv, Unspanned
<1> QED
  BY <1>1, MoveGood DEF EndSpan

----------------------------------------------------------------------------
(* Steps of the parser.                                                    *)

(* A span that begins outside the region of a value.                       *)
LEMMA BeginSpanGood ==
  ASSUME ParserInv, NEW node, node \notin ValueRegion, NEW from
  PROVE  /\ Good(node, Spanned(SpanOf(node), from))
         /\ Good(node, [Spanned(SpanOf(node), from) EXCEPT !.matched = <<>>])
<1>1. node \notin LengthNodes
  BY SpanTable
<1>2. Good(node, Spanned(SpanOf(node), from))
  BY <1>1, SpannedGood DEF ParserInv, Spanned
<1>3. Good(node, [Spanned(SpanOf(node), from) EXCEPT !.matched = <<>>])
  BY <1>2, AlikeGood, UpdateAlike DEF Good
<1> QED
  BY <1>2, <1>3

(* Each state of the url goes on to one of the url, or ends it.            *)
LEMMA UrlGood ==
  ASSUME ParserInv, NEW a \in UrlNodes, At(a),
         UrlEnds \/ (\E b \in UrlNodes : Eat(b) \/ Goto(b)) \/ Fail("INVALID_URL")
  PROVE  ParserInv'
<1>1. CASE UrlEnds
  BY <1>1, EndSpanGood DEF UrlEnds, Between
<1>2. CASE \E b \in UrlNodes : Eat(b) \/ Goto(b)
  BY <1>2, EatGood, Kinship
<1>3. CASE Fail("INVALID_URL")
  BY <1>3, FailGood
<1> QED
  BY <1>1, <1>2, <1>3

(* The request line.                                                       *)
LEMMA RequestLineGood ==
  ASSUME ParserInv, RequestLineStep PROVE ParserInv'
<1>1. CASE Start
  <2>1. CASE Eat("start")
    BY <1>1, <2>1, EatGood, Kinship DEF Start, Between
  <2>2. CASE Move("after_start_req", 0,
                  [Spanned("on_method", p) EXCEPT !.matched = <<>>], request)
    BY <2>2, SpanTable, BeginSpanGood, MoveGood
  <2> QED
    BY <1>1, <2>1, <2>2 DEF Start
<1>2. CASE AfterStartReq
  <2> DEFINE words == Methods \cap DOMAIN Spell
             s     == Append(parser.matched, Byte)
  <2>1. CASE Move("after_start_req", 1, Matched(s), request)
    BY <1>2, <2>1, MatchGood, Kinship DEF AfterStartReq
  <2>2. ASSUME NEW m, NEW k, MethodComplete(m, k) PROVE ParserInv'
    <3>1. Good("req_first_space_before_url", Unspanned)
      BY BetweenSpans, UnspannedGood DEF ParserInv, Unspanned, Between
    <3>2. Good("req_first_space_before_url",
               [Unspanned EXCEPT !.method = m, !.matched = <<>>])
      BY <3>1, AlikeGood, UpdateAlike DEF Good
    <3> QED
      BY <2>2, <3>2, MoveGood DEF MethodComplete
  <2>3. CASE Fail("INVALID_METHOD")
    BY <2>3, FailGood
  <2> QED
    BY <1>2, <2>1, <2>2, <2>3 DEF AfterStartReq
<1>3. CASE ReqFirstSpaceBeforeUrl
  BY <1>3, EatGood, FailGood, Kinship DEF ReqFirstSpaceBeforeUrl, Between
<1>4. CASE ReqSpacesBeforeUrl
  BY <1>4, EatGood, Kinship DEF ReqSpacesBeforeUrl, Between
<1>5. ASSUME NEW node, NEW first \in UrlNodes, UrlEntry(node, first) PROVE ParserInv'
  <2>1. CASE Fail("INVALID_URL")
    BY <2>1, FailGood
  <2>2. CASE Move(first, 0, Spanned("on_url", p), request)
    BY <2>2, SpanTable, BeginSpanGood, MoveGood
  <2> QED
    BY <1>5, <2>1, <2>2 DEF UrlEntry
<1>6. CASE UrlEntryConnect \/ UrlEntryNormal
  BY <1>5, <1>6 DEF UrlEntryConnect, UrlEntryNormal, UrlNodes
<1>7. CASE UrlStart
  BY <1>7, UrlGood DEF UrlStart, UrlNodes
<1>8. CASE UrlSchema
  BY <1>8, UrlGood DEF UrlSchema, UrlNodes
<1>9. CASE UrlSchemaDelim
  BY <1>9, UrlGood DEF UrlSchemaDelim, UrlNodes
<1>10. CASE UrlSchemaDelim1
  BY <1>10, UrlGood DEF UrlSchemaDelim1, UrlNodes
<1>11. CASE UrlServer
  BY <1>11, UrlGood DEF UrlServer, UrlNodes
<1>12. CASE UrlServerWithAt
  BY <1>12, UrlGood DEF UrlServerWithAt, UrlNodes
<1>13. CASE UrlPath
  BY <1>13, UrlGood DEF UrlPath, UrlNodes
<1>14. CASE UrlQueryOrFragment
  BY <1>14, UrlGood DEF UrlQueryOrFragment, UrlNodes
<1>15. CASE UrlQuery
  BY <1>15, UrlGood DEF UrlQuery, UrlNodes
<1>16. CASE UrlFragment
  BY <1>16, UrlGood DEF UrlFragment, UrlNodes
<1>17. CASE UrlSkipToHttp
  BY <1>17, EatGood, FailGood, Kinship DEF UrlSkipToHttp, Between
<1>18. CASE UrlToHttp
  BY <1>18, MatchGood, FailGood, Kinship DEF UrlToHttp, Between
<1>19. CASE UrlSkipToHttp09
  BY <1>19, EatGood, FailGood, Kinship DEF UrlSkipToHttp09, Between
<1>20. CASE UrlSkipLfToHttp09
  BY <1>20, EatGood, FailGood, Kinship DEF UrlSkipLfToHttp09, Between
<1>21. CASE UrlSkipLfToHttp091
  BY <1>21, EatGood, FailGood, Kinship DEF UrlSkipLfToHttp091, Between
<1>22. CASE UrlToHttp09
  <2>1. CASE Fail("INVALID_URL")
    BY <2>1, FailGood
  <2>2. CASE Move("headers_start", 0,
                  [parser EXCEPT !.http_major = 0, !.http_minor = 9], UrlComplete)
    <3>1. Good("headers_start", parser)
      BY <1>22, KinGood, Kinship DEF UrlToHttp09, Between
    <3>2. Alike(parser, [parser EXCEPT !.http_major = 0, !.http_minor = 9])
      BY <3>1, UpdateAlike DEF Good
    <3>3. Good("headers_start", [parser EXCEPT !.http_major = 0, !.http_minor = 9])
      BY <3>1, <3>2, AlikeGood
    <3> QED
      BY <2>2, <3>3, MoveGood
  <2> QED
    BY <1>22, <2>1, <2>2 DEF UrlToHttp09
<1>23. CASE ReqHttpStart
  <2> DEFINE s == Append(parser.matched, Byte)
  <2>1. CASE Eat("req_http_start")
    BY <1>23, <2>1, EatGood, Kinship DEF ReqHttpStart, Between
  <2>2. CASE Move("req_http_start", 1, Matched(s), request)
    BY <1>23, <2>2, MatchGood, Kinship DEF ReqHttpStart, Between
  <2>3. CASE Move("req_http_major", 1,
                  [Spanned("on_version", p + 1) EXCEPT !.matched = <<>>], request)
    BY <2>3, SpanTable, BeginSpanGood, MoveGood DEF VersionNodes
  <2>4. CASE Fail("INVALID_CONSTANT")
    BY <2>4, FailGood
  <2> QED
    BY <1>23, <2>1, <2>2, <2>3, <2>4 DEF ReqHttpStart
<1>24. CASE ReqHttpMajor
  <2>1. CASE Fail("INVALID_VERSION")
    BY <2>1, FailGood
  <2>2. CASE Move("req_http_dot", 1, [parser EXCEPT !.http_major = Value(Byte)], request)
    <3>1. Good("req_http_dot", parser)
      BY <1>24, KinGood, Kinship DEF ReqHttpMajor, VersionNodes
    <3> QED
      BY <2>2, <3>1, AlikeGood, UpdateAlike, MoveGood DEF Good
  <2> QED
    BY <1>24, <2>1, <2>2 DEF ReqHttpMajor
<1>25. CASE ReqHttpDot
  BY <1>25, EatGood, FailGood, Kinship DEF ReqHttpDot, VersionNodes
<1>26. CASE ReqHttpMinor
  <2>1. CASE Fail("INVALID_VERSION")
    BY <2>1, FailGood
  <2>2. CASE VersionComplete
    <3>1. ASSUME NEW node \in {"req_pri_upgrade", "req_http_complete"}
          PROVE  Good(node, [Unspanned EXCEPT !.http_minor = Value(Byte)])
      <4>1. Good(node, Unspanned)
        BY BetweenSpans, UnspannedGood DEF ParserInv, Unspanned, Between
      <4> QED
        BY <4>1, AlikeGood, UpdateAlike DEF Good
    <3> QED
      BY <2>2, <3>1, MoveGood DEF VersionComplete
  <2> QED
    BY <1>26, <2>1, <2>2 DEF ReqHttpMinor
<1>27. CASE ReqPriUpgrade
  BY <1>27, MatchGood, FailGood, Kinship DEF ReqPriUpgrade, Between
<1>28. CASE ReqHttpComplete
  BY <1>28, EatGood, FailGood, Kinship DEF ReqHttpComplete, Between
<1>29. CASE ReqHttpCompleteCrlf
  BY <1>29, EatGood, FailGood, Kinship DEF ReqHttpCompleteCrlf, Between
<1> QED
  BY <1>1, <1>2, <1>3, <1>4, <1>6, <1>7, <1>8, <1>9, <1>10, <1>11, <1>12, <1>13, <1>14,
     <1>15, <1>16, <1>17, <1>18, <1>19, <1>20, <1>21, <1>22, <1>23, <1>24, <1>25, <1>26,
     <1>27, <1>28, <1>29 DEF RequestLineStep

(* The name of a header is complete: it goes on only with a length that    *)
(* the flags do not speak against.                                         *)
LEMMA FieldCompleteGood ==
  ASSUME ParserInv, FieldComplete PROVE ParserInv'
<1>1. CASE \E e \in {"INVALID_CONTENT_LENGTH", "INVALID_TRANSFER_ENCODING"} : FailAfterSpan(e)
  BY <1>1, FailGood
<1>2. CASE /\ parser.header_state = "CONTENT_LENGTH"
                => "F_TRANSFER_ENCODING" \notin parser.flags
           /\ parser.header_state = "TRANSFER_ENCODING"
                => "F_CONTENT_LENGTH" \notin parser.flags
           /\ EndSpan("header_value_discard_ws", 1)
  <2>1. SpanOf("header_value_discard_ws") = "none"
        /\ "header_value_discard_ws" \notin LengthNodes
    BY SpanTable DEF AroundValue
  <2>2. Good("header_value_discard_ws", Unspanned)
    BY <1>2, <2>1 DEF ParserInv, Good, Shape, Fits, OneLength, Unspanned, ResetParser, NoSpan
  <2> QED
    BY <1>2, <2>2, MoveGood DEF EndSpan
<1> QED
  BY <1>1, <1>2 DEF FieldComplete

(* The fields with which a value begins.                                   *)
LEMMA ValueSpanGood ==
  ASSUME NEW q, Good("header_value_lws", q), NEW node \in ValueNodes,
         node \in LengthNodes => q.header_state = "CONTENT_LENGTH", NEW from
  PROVE  LET v == [q EXCEPT !.span = [cb |-> "on_header_value", from |-> from],
                            !.matched = <<>>]
         IN  /\ Good(node, v)
             /\ v.header_state = q.header_state /\ v.flags = q.flags
<1> DEFINE v == [q EXCEPT !.span = [cb |-> "on_header_value", from |-> from],
                          !.matched = <<>>]
<1>1. SpanOf(node) = "on_header_value"
  BY SpanTable
<1>2. "header_value_lws" \in ValueRegion
  BY DEF ValueRegion, AroundValue
<1>3. /\ Shape(v) /\ v.span.cb = "on_header_value"
      /\ v.header_state = q.header_state /\ v.flags = q.flags
  BY DEF Good, Shape, ResetParser, NoSpan
<1>4. Good(node, v)
  BY <1>1, <1>2, <1>3 DEF Good, Fits, OneLength
<1> QED
  BY <1>3, <1>4

(* The value of a header begins, where the header is what it was.          *)
LEMMA BeginValueGood ==
  ASSUME ParserInv, NEW q, Good("header_value_lws", q), BeginValue(q)
  PROVE  ParserInv'
<1> DEFINE v == [q EXCEPT !.span = [cb |-> "on_header_value", from |-> p],
                          !.matched = <<>>]
<1>1. "header_value_lws" \in ValueRegion /\ LengthNodes \subseteq ValueNodes
  BY DEF ValueRegion, AroundValue, LengthNodes, ValueNodes
<1>2. ASSUME NEW node \in ValueNodes \ LengthNodes
      PROVE  Good(node, v) /\ v.header_state = q.header_state /\ v.flags = q.flags
  BY ValueSpanGood
<1>3. CASE \E e \in {"UNEXPECTED_CONTENT_LENGTH", "INVALID_TRANSFER_ENCODING"} : Fail(e)
  BY <1>3, FailGood
<1>4. CASE Move("header_value_connection", 0, v, request)
  BY <1>2, <1>4, MoveGood DEF ValueNodes, LengthNodes
<1>5. CASE /\ q.header_state = "CONTENT_LENGTH"
           /\ Move("header_value_content_length", 0, v, request)
  <2>1. Good("header_value_content_length", v)
    BY <1>5, ValueSpanGood DEF ValueNodes
  <2> QED
    BY <1>5, <2>1, MoveGood
<1>6. CASE /\ q.header_state = "TRANSFER_ENCODING"
           /\ Move("header_value_te_chunked", 0,
                   [v EXCEPT !.flags = @ \cup {"F_TRANSFER_ENCODING"}], request)
  <2> DEFINE w == [v EXCEPT !.flags = @ \cup {"F_TRANSFER_ENCODING"}]
  <2>1. "header_value_te_chunked" \in ValueNodes \ LengthNodes
    BY DEF ValueNodes, LengthNodes
  <2>2. Good("header_value_te_chunked", v) /\ v.header_state = "TRANSFER_ENCODING"
    BY <1>2, <1>6, <2>1
  <2>3. "F_CONTENT_LENGTH" \notin v.flags
    BY <1>1, <1>2, <1>6, <2>1 DEF Good, OneLength
  <2> HIDE DEF v
  <2>4. /\ Shape(w) /\ w.error = v.error /\ w.span = v.span
        /\ w.header_state = v.header_state
        /\ w.flags = v.flags \cup {"F_TRANSFER_ENCODING"}
    BY <2>2 DEF Good, Shape, ResetParser, NoSpan
  <2>5. Good("header_value_te_chunked", w)
    BY <2>1, <2>2, <2>3, <2>4 DEF Good, Fits, OneLength
  <2> QED
    BY <1>6, <2>5, MoveGood
<1>7. CASE Move("header_value", 0,
                [v EXCEPT !.flags = @ \cup {"F_UPGRADE"}, !.header_state = "GENERAL"],
                request)
  <2> DEFINE w == [v EXCEPT !.flags = @ \cup {"F_UPGRADE"}, !.header_state = "GENERAL"]
  <2>1. "header_value" \in ValueNodes \ LengthNodes
    BY DEF ValueNodes, LengthNodes
  <2>2. Good("header_value", v)
    BY <1>2, <2>1
  <2> HIDE DEF v
  <2>3. /\ Shape(w) /\ w.error = v.error /\ w.span = v.span
        /\ w.header_state = "GENERAL"
        /\ w.flags = v.flags \cup {"F_UPGRADE"}
    BY <2>2 DEF Good, Shape, ResetParser, NoSpan
  <2>4. Good("header_value", w)
    BY <2>1, <2>2, <2>3 DEF Good, Fits, OneLength
  <2> QED
    BY <1>7, <2>4, MoveGood
<1>8. CASE Move("header_value", 0, v, request)
  BY <1>2, <1>8, MoveGood DEF ValueNodes, LengthNodes
<1> QED
  BY <1>3, <1>4, <1>5, <1>6, <1>7, <1>8 DEF BeginValue

(* header_state changes within a value to what tells no length.            *)
LEMMA InStateGood ==
  ASSUME ParserInv, NEW a, At(a), NEW b, Kin(a, b), NEW h, NEW k, NEW r,
         b \in ValueRegion =>
           h \notin {"CONTENT_LENGTH", "TRANSFER_ENCODING"} /\ b \notin LengthNodes,
         Move(b, k, InState(h), r)
  PROVE  ParserInv'
<1>1. Good(b, parser) /\ LengthNodes \subseteq ValueRegion
  BY KinGood, SpanTable
<1>2. Good(b, InState(h))
  BY <1>1, StateGood DEF InState
<1> QED
  BY <1>2, MoveGood

(* What a value has told becomes a flag, and neither of the two.           *)
LEMMA CommittedGood ==
  ASSUME ParserInv, NEW a, At(a), NEW b, Kin(a, b), b \notin LengthNodes, NEW k, NEW r,
         Move(b, k, Committed, r)
  PROVE  ParserInv'
<1>1. Good(b, parser)
  BY KinGood
<1>2. FlagOf(parser.header_state) \cap {"F_CONTENT_LENGTH", "F_TRANSFER_ENCODING"} = {}
  BY DEF FlagOf
<1>3. /\ Shape(Committed)
      /\ Committed.error = parser.error /\ Committed.span = parser.span
      /\ Committed.flags = parser.flags \cup FlagOf(parser.header_state)
      /\ Committed.header_state
           = IF parser.header_state \in OptionStates THEN "CONNECTION"
             ELSE parser.header_state
  BY <1>1 DEF Good, Shape, Committed, ResetParser, NoSpan
<1>4. Good(b, Committed)
  BY <1>1, <1>2, <1>3 DEF Good, Fits, OneLength
<1> QED
  BY <1>4, MoveGood

(* The headers.                                                            *)
LEMMA HeaderGood ==
  ASSUME ParserInv, HeaderStep, ~HeadersAlmostDone PROVE ParserInv'
<1>1. CASE HeadersStart
  BY <1>1, EatGood, FailGood, Kinship DEF HeadersStart, Between
<1>2. CASE HeaderFieldStart
  <2>1. CASE Eat("headers_almost_done")
    BY <1>2, <2>1, EatGood, Kinship DEF HeaderFieldStart, Between
  <2>2. CASE Move("header_field", 0,
                  [Spanned("on_header_field", p) EXCEPT !.matched = <<>>], request)
    BY <2>2, SpanTable, BeginSpanGood, MoveGood DEF FieldNodes
  <2>3. CASE Fail("INVALID_HEADER_TOKEN")
    BY <2>3, FailGood
  <2> QED
    BY <1>2, <2>1, <2>2, <2>3 DEF HeaderFieldStart
<1>3. CASE HeaderField
  <2> DEFINE s == Append(parser.matched, LowerOf(Byte))
  <2>1. /\ At("header_field")
        /\ \A b \in FieldNodes : Kin("header_field", b) /\ b \notin ValueRegion
    BY <1>3, Kinship, SpanTable DEF HeaderField, FieldNodes
  <2>2. CASE Move("header_field", 1, Matched(s), request)
    BY <2>1, <2>2, MatchGood DEF FieldNodes
  <2>3. ASSUME NEW h, Move("header_field_colon", 1, InState(h), request) PROVE ParserInv'
    BY <2>1, <2>3, InStateGood DEF FieldNodes
  <2>4. CASE Move("header_field_general", 0, InState("GENERAL"), request)
    BY <2>1, <2>4, InStateGood DEF FieldNodes
  <2> QED
    BY <1>3, <2>2, <2>3, <2>4 DEF HeaderField
<1>4. CASE HeaderFieldColon
  <2>1. CASE FieldComplete
    BY <2>1, FieldCompleteGood
  <2>2. CASE FailAfterSpan("INVALID_HEADER_TOKEN")
    BY <2>2, FailGood
  <2>3. CASE Move("header_field_general", 0, InState("GENERAL"), request)
    BY <1>4, <2>3, Kinship, SpanTable, InStateGood DEF HeaderFieldColon, FieldNodes
  <2> QED
    BY <1>4, <2>1, <2>2, <2>3 DEF HeaderFieldColon
<1>5. CASE HeaderFieldGeneral
  BY <1>5, EatGood, FailGood, FieldCompleteGood, Kinship DEF HeaderFieldGeneral, FieldNodes
<1>6. CASE HeaderValueDiscardWs
  <2>1. CASE BeginValue(parser)
    <3>1. Good("header_value_lws", parser)
      BY <1>6, KinGood, Kinship DEF HeaderValueDiscardWs, AroundValue
    <3> QED
      BY <2>1, <3>1, BeginValueGood
  <2>2. CASE Fail("INVALID_HEADER_TOKEN")
    BY <2>2, FailGood
  <2>3. CASE \E b \in AroundValue : Eat(b)
    BY <1>6, <2>3, EatGood, Kinship DEF HeaderValueDiscardWs, AroundValue
  <2> QED
    BY <1>6, <2>1, <2>2, <2>3 DEF HeaderValueDiscardWs, AroundValue
<1>7. CASE HeaderValueDiscardWsAlmostDone
  BY <1>7, EatGood, FailGood, Kinship DEF HeaderValueDiscardWsAlmostDone, AroundValue
<1>8. ASSUME NEW a \in AroundValue, At(a),
             Move("header_field_start", 0, Committed, InsertHeader)
      PROVE  ParserInv'
  <2>1. Kin(a, "header_field_start") /\ "header_field_start" \notin LengthNodes
    BY BetweenSpans, Kinship DEF Between
  <2> QED
    BY <1>8, <2>1, CommittedGood
<1>9. CASE HeaderValueDiscardLws
  BY <1>8, <1>9, FailGood DEF HeaderValueDiscardLws, AroundValue
<1>10. CASE HeaderValue
  BY <1>10, EatGood, Kinship DEF HeaderValue, ValueNodes, LengthNodes
<1>11. CASE HeaderValueOtherwise
  <2>1. CASE EndSpan("header_value_almost_done", 1)
    <3>1. /\ SpanOf("header_value_almost_done") = "none"
          /\ "header_value_almost_done" \notin LengthNodes
          /\ cur \in ValueRegion
      BY <1>11, SpanTable DEF HeaderValueOtherwise, At, AroundValue, ValueRegion, ValueNodes
    <3>2. Good("header_value_almost_done", Unspanned)
      BY <3>1, UnspannedGood DEF ParserInv, Unspanned
    <3> QED
      BY <2>1, <3>2, MoveGood DEF EndSpan
  <2> QED
    BY <1>11, <2>1, FailGood DEF HeaderValueOtherwise
<1>12. CASE HeaderValueAlmostDone
  BY <1>12, EatGood, FailGood, Kinship DEF HeaderValueAlmostDone, AroundValue
<1>13. CASE HeaderValueLws
  <2>1. Good("header_value_lws", parser)
    BY <1>13 DEF HeaderValueLws, At, ParserInv
  <2>2. Good("header_value_lws", InState("GENERAL"))
    BY <2>1, SpanTable, StateGood DEF InState, AroundValue
  <2>3. ASSUME NEW q \in {parser, InState("GENERAL")}, BeginValue(q) PROVE ParserInv'
    BY <2>1, <2>2, <2>3, BeginValueGood
  <2> QED
    BY <1>8, <1>13, <2>3 DEF HeaderValueLws, AroundValue
<1>14. CASE HeaderValueConnection
  <2> DEFINE s == Append(parser.matched, LowerOf(Byte))
  <2>1. /\ At("header_value_connection")
        /\ \A b \in {"header_value_connection", "header_value_connection_ws",
                      "header_value_connection_token"} :
             Kin("header_value_connection", b) /\ b \notin LengthNodes
    BY <1>14, Kinship DEF HeaderValueConnection, ValueNodes, LengthNodes
  <2>2. CASE Eat("header_value_connection")
    BY <2>1, <2>2, EatGood
  <2>3. CASE Move("header_value_connection", 1, Matched(s), request)
    BY <2>1, <2>3, MatchGood
  <2>4. ASSUME NEW w \in DOMAIN OptionState,
               Move("header_value_connection_ws", 1, InState(OptionState[w]), request)
        PROVE  ParserInv'
    <3>1. OptionState[w] \in OptionStates
      BY DEF OptionState, OptionStates
    <3> QED
      BY <2>1, <2>4, <3>1, InStateGood DEF OptionStates
  <2>5. CASE Move("header_value_connection_token", 0, Matched(<<>>), request)
    BY <2>1, <2>5, MatchGood
  <2> QED
    BY <1>14, <2>2, <2>3, <2>4, <2>5 DEF HeaderValueConnection, Matches
<1>15. CASE HeaderValueConnectionWs
  <2>1. /\ At("header_value_connection_ws")
        /\ \A b \in ValueNodes \ LengthNodes : Kin("header_value_connection_ws", b)
    BY <1>15, Kinship DEF HeaderValueConnectionWs, ValueNodes
  <2>2. CASE \E b \in ValueNodes \ LengthNodes : Eat(b) \/ Goto(b)
    BY <2>1, <2>2, EatGood
  <2>3. CASE Move("header_value_connection", 1, Committed, request)
    BY <2>1, <2>3, CommittedGood DEF ValueNodes, LengthNodes
  <2>4. CASE Move("header_value_connection_token", 0, InState("GENERAL"), request)
    BY <2>1, <2>4, InStateGood DEF ValueNodes, LengthNodes
  <2> QED
    BY <1>15, <2>2, <2>3, <2>4 DEF HeaderValueConnectionWs, ValueNodes, LengthNodes
<1>16. CASE HeaderValueConnectionToken
  <2>1. \A b \in {"header_value_connection", "header_value_connection_token",
                   "header_value_otherwise"} : Kin("header_value_connection_token", b)
    BY Kinship DEF ValueNodes, LengthNodes
  <2> QED
    BY <1>16, <2>1, EatGood DEF HeaderValueConnectionToken
<1>17. CASE HeaderValueContentLength
  <2>1. CASE Move("header_value_content_length", 1, MulAdd(10, Value(Byte)), request)
    <3>1. Good("header_value_content_length", parser)
      BY <1>17 DEF HeaderValueContentLength, At, ParserInv
    <3>2. Alike(parser, MulAdd(10, Value(Byte)))
      BY <3>1, UpdateAlike DEF Good, MulAdd
    <3> QED
      BY <2>1, <3>1, <3>2, AlikeGood, MoveGood
  <2> QED
    BY <1>17, <2>1, FailGood, EatGood, Kinship DEF HeaderValueContentLength, LengthNodes
<1>18. CASE HeaderValueContentLengthWs
  <2>1. CASE Move("header_value_otherwise", 0,
                  [parser EXCEPT !.flags = @ \cup {"F_CONTENT_LENGTH"}], request)
    <3> DEFINE q == [parser EXCEPT !.flags = @ \cup {"F_CONTENT_LENGTH"}]
    <3>1. /\ Good("header_value_otherwise", parser)
          /\ "header_value_otherwise" \in ValueRegion \ LengthNodes
      BY <1>18, KinGood, Kinship DEF HeaderValueContentLengthWs, ValueRegion, ValueNodes,
         LengthNodes
    <3>2. parser.header_state = "CONTENT_LENGTH"
      BY <1>18 DEF HeaderValueContentLengthWs, At, ParserInv, Good, OneLength, LengthNodes
    <3>3. "F_TRANSFER_ENCODING" \notin parser.flags
      BY <3>1, <3>2 DEF Good, OneLength
    <3>4. /\ Shape(q) /\ q.error = parser.error /\ q.span = parser.span
          /\ q.header_state = parser.header_state
          /\ q.flags = parser.flags \cup {"F_CONTENT_LENGTH"}
      BY <3>1 DEF Good, Shape, ResetParser, NoSpan
    <3>5. Good("header_value_otherwise", q)
      BY <3>1, <3>2, <3>3, <3>4 DEF Good, Fits, OneLength
    <3> QED
      BY <2>1, <3>5, MoveGood
  <2> QED
    BY <1>18, <2>1, FailGood, EatGood, Kinship DEF HeaderValueContentLengthWs, LengthNodes
<1>19. CASE HeaderValueTeChunked
  <2>1. \A b \in {"header_value_te_chunked", "header_value_te_chunked_last",
                   "header_value_te_token"} : Kin("header_value_te_chunked", b)
    BY Kinship DEF ValueNodes, LengthNodes
  <2> QED
    BY <1>19, <2>1, MatchGood DEF HeaderValueTeChunked
<1>20. CASE HeaderValueTeChunkedLast
  <2>1. /\ At("header_value_te_chunked_last")
        /\ \A b \in ValueNodes \ LengthNodes : Kin("header_value_te_chunked_last", b)
    BY <1>20, Kinship DEF HeaderValueTeChunkedLast, ValueNodes
  <2>2. CASE Move("header_value_otherwise", 0, InState("TRANSFER_ENCODING_CHUNKED"),
                  request)
    BY <2>1, <2>2, InStateGood DEF ValueNodes, LengthNodes
  <2>3. CASE \E b \in ValueNodes \ LengthNodes : Eat(b) \/ Goto(b)
    BY <2>1, <2>3, EatGood
  <2> QED
    BY <1>20, <2>2, <2>3, FailGood DEF HeaderValueTeChunkedLast, ValueNodes, LengthNodes
<1>21. CASE HeaderValueTeToken
  <2>1. /\ At("header_value_te_token")
        /\ \A b \in ValueNodes \ LengthNodes : Kin("header_value_te_token", b)
    BY <1>21, Kinship DEF HeaderValueTeToken, ValueNodes
  <2>2. CASE Move("header_value", 0, InState("GENERAL"), request)
    BY <2>1, <2>2, InStateGood DEF ValueNodes, LengthNodes
  <2>3. CASE \E b \in ValueNodes \ LengthNodes : Eat(b)
    BY <2>1, <2>3, EatGood
  <2> QED
    BY <1>21, <2>2, <2>3 DEF HeaderValueTeToken, ValueNodes, LengthNodes
<1>22. CASE HeaderValueTeTokenOws
  <2>1. \A b \in {"header_value_te_token_ows", "header_value_te_chunked"} :
          Kin("header_value_te_token_ows", b)
    BY Kinship DEF ValueNodes, LengthNodes
  <2> QED
    BY <1>22, <2>1, EatGood, MatchGood DEF HeaderValueTeTokenOws
<1> QED
  BY <1>1, <1>2, <1>3, <1>4, <1>5, <1>6, <1>7, <1>9, <1>10, <1>11, <1>12, <1>13, <1>14,
     <1>15, <1>16, <1>17, <1>18, <1>19, <1>20, <1>21, <1>22 DEF HeaderStep

----------------------------------------------------------------------------
(* The end of the head, and bodies.                                        *)

(* A message is complete, and the next one, or nothing, may follow.        *)
LEMMA MessageCompleteGood ==
  ASSUME NEW a, NEW q, Good(a, q), SpanOf(a) = "none", NEW k, NEW r,
         MessageComplete(k, q, r) \/ AfterMessageComplete(k, q, r) \/ Paused(k, q, r)
  PROVE  ParserInv'
<1>1. ASSUME NEW b \in {"start", "closed"}
      PROVE  /\ Good(b, [q EXCEPT !.flags = {}])
             /\ Good(b, [q EXCEPT !.flags = {}, !.content_length = 0])
  <2>1. SpanOf(b) = "none" /\ b \notin ValueRegion /\ b \notin LengthNodes
    BY BetweenSpans DEF Between
  <2>2. Good(b, q)
    BY <2>1 DEF Good, Fits, OneLength
  <2>3. Good(b, [q EXCEPT !.flags = {}])
    BY <2>2, FlagsGood
  <2>4. /\ Shape([q EXCEPT !.flags = {}, !.content_length = 0])
        /\ [q EXCEPT !.flags = {}, !.content_length = 0].error = q.error
        /\ [q EXCEPT !.flags = {}, !.content_length = 0].span = q.span
        /\ [q EXCEPT !.flags = {}, !.content_length = 0].flags = {}
    BY DEF Good, Shape, ResetParser, NoSpan
  <2>5. Good(b, [q EXCEPT !.flags = {}, !.content_length = 0])
    BY <2>1, <2>2, <2>4 DEF Good, Fits, OneLength
  <2> QED
    BY <2>3, <2>5
<1>2. CASE Paused(k, q, r)
  BY <1>2, ErrorGood, MoveGood DEF Paused
<1>3. CASE AfterMessageComplete(k, q, r)
  BY <1>1, <1>3, MoveGood DEF AfterMessageComplete
<1> QED
  BY <1>2, <1>3 DEF MessageComplete

(* The blank line.                                                         *)
LEMMA HeadersAlmostDoneGood ==
  ASSUME ParserInv, HeadersAlmostDone PROVE ParserInv'
<1> DEFINE q == [parser EXCEPT !.upgrade = Upgrades]
           r == [request EXCEPT !.is_header_complete = TRUE]
<1>1. At("headers_almost_done") /\ SpanOf("headers_almost_done") = "none"
  BY BetweenSpans DEF HeadersAlmostDone, Between
<1>2. /\ Good("headers_almost_done", parser)
      /\ \A b \in Between : Kin("headers_almost_done", b)
  BY <1>1, Kinship DEF At, ParserInv, Between
<1>3. Good("headers_almost_done", q)
  BY <1>2, UpdateAlike, AlikeGood DEF Good
<1>4. \A b \in Between : Good(b, q)
  BY <1>2, <1>3 DEF Kin, Good, Fits, OneLength
<1>5. CASE Fail("STRICT")
  BY <1>5, FailGood
<1>6. CASE MessageComplete(1, parser, request)
  BY <1>1, <1>2, <1>6, MessageCompleteGood
<1>7. CASE HeadersComplete
  <2> HIDE DEF q, r
  <2>1. CASE Paused(1, q, r) \/ AfterMessageComplete(1, q, r)
    BY <1>1, <1>3, <2>1, MessageCompleteGood
  <2>2. CASE Move("chunk_size_digit", 1, [q EXCEPT !.content_length = 0], r)
    <3>1. Good("chunk_size_digit", q)
      BY <1>4 DEF Between
    <3>2. Good("chunk_size_digit", [q EXCEPT !.content_length = 0])
      BY <3>1, UpdateAlike, AlikeGood DEF Good
    <3> QED
      BY <2>2, <3>2, MoveGood
  <2>3. CASE Move("error", 1, [q EXCEPT !.error = "INVALID_TRANSFER_ENCODING"], r)
    BY <1>3, <2>3, ErrorGood, MoveGood
  <2>4. CASE Move("consume_content_length_1", 1,
                  [q EXCEPT !.span = [cb |-> "on_body", from |-> p + 1]], r)
    <3>1. /\ SpanOf("consume_content_length_1") = "on_body"
          /\ "consume_content_length_1" \notin ValueRegion
          /\ "consume_content_length_1" \notin LengthNodes
      BY SpanTable DEF BodyNodes
    <3>2. Good("consume_content_length_1",
               [q EXCEPT !.span = [cb |-> "on_body", from |-> p + 1]])
      BY <1>3, <3>1 DEF Good, Shape, Fits, OneLength, ResetParser, NoSpan
    <3> QED
      BY <2>4, <3>2, MoveGood
  <2> QED
    BY <1>7, <2>1, <2>2, <2>3, <2>4 DEF HeadersComplete, q, r
<1> QED
  BY <1>5, <1>6, <1>7 DEF HeadersAlmostDone

(* The fields after a part of a body.                                      *)
LEMMA ConsumedGood ==
  ASSUME ParserInv, NEW a \in BodyNodes, At(a)
  PROVE  /\ Good(a, Consumed)
         /\ \A b \in Between : Good(b, [Consumed EXCEPT !.span = NoSpan])
<1>1. Good(a, parser)
  BY DEF At, ParserInv
<1>2. Good(a, Consumed)
  <2>1. \A v : Alike(parser, [parser EXCEPT !.content_length = v])
    BY <1>1, UpdateAlike DEF Good
  <2>2. Alike(parser, Consumed)
    BY <2>1 DEF Consumed
  <2> QED
    BY <1>1, <2>2, AlikeGood
<1>3. ASSUME NEW b \in Between PROVE Good(b, [Consumed EXCEPT !.span = NoSpan])
  BY <1>2, BetweenSpans, UnspannedGood
<1> QED
  BY <1>2, <1>3

(* A digit of the size of a chunk.                                         *)
LEMMA AddHexByteGood ==
  ASSUME ParserInv, NEW a \in Between, At(a), AddHexByte
  PROVE  ParserInv'
<1>1. CASE Move("chunk_size", 1, MulAdd(16, Value(Byte)), request)
  <2>1. Good("chunk_size", parser)
    BY KinGood, Kinship DEF Between
  <2>2. Alike(parser, MulAdd(16, Value(Byte)))
    BY <2>1, UpdateAlike DEF Good, MulAdd
  <2> QED
    BY <1>1, <2>1, <2>2, AlikeGood, MoveGood
<1> QED
  BY <1>1, FailGood DEF AddHexByte

(* Bodies and chunks.                                                      *)
LEMMA BodyGood ==
  ASSUME ParserInv, BodyStep PROVE ParserInv'
<1>1. CASE ConsumeContentLength1
  <2>1. At("consume_content_length_1") /\ "consume_content_length_1" \in BodyNodes
    BY <1>1 DEF ConsumeContentLength1, BodyNodes
  <2>2. CASE Move("consume_content_length_1", AtHand, Consumed, request)
    BY <2>1, <2>2, ConsumedGood, MoveGood
  <2>3. CASE MessageComplete(AtHand, [Consumed EXCEPT !.span = NoSpan], Delivered(p + AtHand))
    <3>1. Good("start", [Consumed EXCEPT !.span = NoSpan]) /\ SpanOf("start") = "none"
      BY <2>1, ConsumedGood, BetweenSpans DEF Between
    <3> QED
      BY <2>3, <3>1, MessageCompleteGood
  <2> QED
    BY <1>1, <2>2, <2>3 DEF ConsumeContentLength1
<1>2. CASE ConsumeContentLength
  <2>1. At("consume_content_length") /\ "consume_content_length" \in BodyNodes
    BY <1>2 DEF ConsumeContentLength, BodyNodes
  <2>2. CASE Move("consume_content_length", AtHand, Consumed, request)
    BY <2>1, <2>2, ConsumedGood, MoveGood
  <2>3. CASE Move("chunk_data_almost_done", AtHand, [Consumed EXCEPT !.span = NoSpan],
                  Delivered(p + AtHand))
    BY <2>1, <2>3, ConsumedGood, MoveGood DEF Between
  <2> QED
    BY <1>2, <2>2, <2>3 DEF ConsumeContentLength
<1>3. CASE ChunkSizeDigit
  BY <1>3, AddHexByteGood, FailGood DEF ChunkSizeDigit, Between
<1>4. CASE ChunkSize
  BY <1>4, AddHexByteGood, EatGood, Kinship DEF ChunkSize, Between
<1>5. CASE ChunkSizeOtherwise
  BY <1>5, EatGood, FailGood, Kinship DEF ChunkSizeOtherwise, Between
<1>6. CASE ChunkSizeAlmostDone
  <2>1. CASE Move("header_field_start", 1,
                  [parser EXCEPT !.flags = @ \cup {"F_TRAILING"}], request)
    <3>1. Good("header_field_start", parser)
      BY <1>6, KinGood, Kinship DEF ChunkSizeAlmostDone, Between
    <3> QED
      BY <2>1, <3>1, FlagsGood, MoveGood
  <2>2. CASE Move("consume_content_length", 1, Spanned("on_body", p + 1), request)
    BY <2>2, SpanTable, BeginSpanGood, MoveGood DEF BodyNodes
  <2> QED
    BY <1>6, <2>1, <2>2, FailGood DEF ChunkSizeAlmostDone
<1>7. CASE ChunkExtensions
  BY <1>7, EatGood, FailGood, Kinship DEF ChunkExtensions, Between
<1>8. CASE ChunkExtensionName
  BY <1>8, EatGood, FailGood, Kinship DEF ChunkExtensionName, Between
<1>9. CASE ChunkExtensionValue
  BY <1>9, EatGood, FailGood, Kinship DEF ChunkExtensionValue, Between
<1>10. CASE ChunkExtensionQuotedValue
  BY <1>10, EatGood, FailGood, Kinship DEF ChunkExtensionQuotedValue, Between
<1>11. CASE ChunkExtensionQuotedPair
  BY <1>11, EatGood, FailGood, Kinship DEF ChunkExtensionQuotedPair, Between
<1>12. CASE ChunkExtensionQuotedValueDone
  BY <1>12, EatGood, FailGood, Kinship DEF ChunkExtensionQuotedValueDone, Between
<1>13. CASE ChunkDataAlmostDone
  BY <1>13, EatGood, FailGood, Kinship DEF ChunkDataAlmostDone, Between
<1>14. CASE ChunkDataAlmostDone1
  <2>1. CASE Move("chunk_size_digit", 1, [parser EXCEPT !.content_length = 0], request)
    <3>1. Good("chunk_size_digit", parser)
      BY <1>14, KinGood, Kinship DEF ChunkDataAlmostDone1, Between
    <3>2. Good("chunk_size_digit", [parser EXCEPT !.content_length = 0])
      BY <3>1, UpdateAlike, AlikeGood DEF Good
    <3> QED
      BY <2>1, <3>2, MoveGood
  <2> QED
    BY <1>14, <2>1, FailGood DEF ChunkDataAlmostDone1
<1>15. CASE Closed
  BY <1>15, EatGood, FailGood, Kinship DEF Closed, Between
<1> QED
  BY <1>1, <1>2, <1>3, <1>4, <1>5, <1>6, <1>7, <1>8, <1>9, <1>10, <1>11, <1>12, <1>13,
     <1>14, <1>15 DEF BodyStep

----------------------------------------------------------------------------
(* The channel.                                                            *)

(* The fields of a new or a reset parser.                                  *)
LEMMA ResetGood == Good("start", ResetParser)
<1>1. SpanOf("start") = "none" /\ "start" \notin ValueRegion /\ "start" \notin LengthNodes
  BY BetweenSpans DEF Between
<1> QED
  BY <1>1 DEF Good, Shape, Fits, OneLength, ResetParser, NoSpan

(* The calls of RequestParser.                                             *)
LEMMA ExecuteGood ==
  ASSUME ParserInv, NEW n, Execute(n) PROVE ParserInv'
<1>1. CASE parser' = parser
  BY <1>1 DEF Execute, ParserInv, Good, Shape, Fits, OneLength
<1>2. CASE parser' = [parser EXCEPT !.span.from = endp]
  <2>1. /\ Shape(parser') /\ parser'.span.cb = parser.span.cb
        /\ parser'.error = parser.error /\ parser'.flags = parser.flags
        /\ parser'.header_state = parser.header_state
    BY <1>2 DEF ParserInv, Good, Shape, ResetParser, NoSpan
  <2> QED
    BY <2>1 DEF Execute, ParserInv, Good, Fits, OneLength
<1> QED
  BY <1>1, <1>2 DEF Execute, Resumed

(* Every step of the channel.                                              *)
LEMMA NextGood ==
  ASSUME ParserInv, [Next]_vars PROVE ParserInv'
<1>1. CASE UNCHANGED <<cur, parser>>
  BY <1>1 DEF ParserInv, Good, Shape, Fits, OneLength
<1>2. CASE ParserStep
  BY <1>2, RequestLineGood, HeaderGood, HeadersAlmostDoneGood, BodyGood DEF ParserStep
<1>3. CASE Reset
  BY <1>3, ResetGood DEF Reset, ParserInv, Good, Shape, Fits, OneLength
<1>4. CASE Parse
  BY <1>1, <1>2, <1>4 DEF Parse, ExecuteReturns
<1>5. CASE ReadRemote
  BY <1>1, <1>5, ExecuteGood DEF ReadRemote, parserVars
<1>6. CASE EndOfHead
  BY <1>1, <1>3, <1>6 DEF EndOfHead, parserVars
<1>7. CASE \/ Parsed \/ WriteLine \/ TakeHeaders \/ WriteHeaders \/ ForwardReply
           \/ FlushLocal \/ FlushRemote \/ ReadLocal \/ CopyToLocal \/ CopyToRemote
           \/ SocketFails \/ UNCHANGED vars
  BY <1>1, <1>7 DEF Parsed, WriteLine, TakeHeaders, WriteHeaders, ForwardReply, FlushLocal,
                    FlushRemote, ReadLocal, CopyToLocal, CopyToRemote, SocketFails, vars,
                    parserVars
<1> QED
  BY <1>4, <1>5, <1>6, <1>7 DEF Next, TaskStep

(* The invariant holds throughout.                                         *)
LEMMA ParserInvariance == Spec => []ParserInv
<1>1. Init => ParserInv
  BY ResetGood DEF Init, ParserInit, ParserInv
<1> QED
  BY <1>1, NextGood, PTL DEF Spec

(* Whatever a visitor sends and however it is cut, every state finds the   *)
(* span open that it will end: no callback gets the bytes of another       *)
(* (llhttp.c, _span_pos0 and _span_cb0).                                   *)
THEOREM SpansFit == Spec => []SpanFitsState
<1>1. ParserInv => SpanFitsState
  BY DEF ParserInv, Good, Fits, SpanFitsState
<1> QED
  BY <1>1, ParserInvariance, PTL

(* Whatever a visitor sends and however it is cut, no head is accepted     *)
(* with both a Content-Length and a Transfer-Encoding (llhttp.c,           *)
(* invoke_load_header_state).                                              *)
THEOREM OneWayToTellTheLength == Spec => []NeverBothLengths
<1>1. ParserInv => NeverBothLengths
  BY DEF ParserInv, Good, OneLength, NeverBothLengths
<1> QED
  BY <1>1, ParserInvariance, PTL

----------------------------------------------------------------------------
(* The replies of the local service.                                       *)

(* What is read is put behind what a write has left over; the copy begins  *)
(* with nothing left over.                                                 *)
RepliesInv ==
  /\ replied \in Nat
  /\ local_buf \in Seq(Nat)
  /\ to_remote \in Seq(Nat)
  /\ phase = "copy" => local_buf = <<>>
  /\ RepliesInOrder

(* What a write takes and what it leaves make up the buffer.               *)
LEMMA Split ==
  ASSUME NEW S, NEW s \in Seq(S), NEW n \in 1 .. Len(s)
  PROVE  /\ SubSeq(s, 1, n) \in Seq(S)
         /\ SubSeq(s, n + 1, Len(s)) \in Seq(S)
         /\ SubSeq(s, 1, n) \o SubSeq(s, n + 1, Len(s)) = s
<1>1. Len(s) \in Nat /\ \A i \in 1 .. Len(s) : s[i] \in S
  BY LenProperties, ElementOfSeq
<1>2. SubSeq(s, 1, n) \in Seq(S) /\ SubSeq(s, n + 1, Len(s)) \in Seq(S)
  BY <1>1, SubSeqProperties
<1>3. SubSeq(s, 1, n) \o SubSeq(s, n + 1, Len(s)) = SubSeq(s, 1, Len(s))
  BY <1>1, ConcatAdjacentSubSeq
<1>4. SubSeq(s, 1, Len(s)) = s
  BY SubSeqFull
<1> QED
  BY <1>2, <1>3, <1>4

(* Concatenation of replies is associative.                                *)
LEMMA Regroup == \A s, t, u \in Seq(Nat) : (s \o t) \o u = s \o (t \o u)
<1>1. Associative(Nat)
  BY Associates, Zenon
<1> QED
  BY <1>1, Zenon DEF Associative

(* Counting on: the first n replies are the first m and the next n - m.    *)
LEMMA CountOn ==
  ASSUME NEW m \in Nat, NEW n \in Nat, m < n
  PROVE  /\ [i \in 1 .. n - m |-> m + i] \in Seq(Nat)
         /\ [i \in 1 .. m |-> i] \in Seq(Nat)
         /\ [i \in 1 .. m |-> i] \o [i \in 1 .. n - m |-> m + i] = [i \in 1 .. n |-> i]
<1> DEFINE s == [i \in 1 .. m |-> i]
           t == [i \in 1 .. n - m |-> m + i]
           u == [i \in 1 .. n |-> i]
<1>1. s \in Seq(Nat) /\ Len(s) = m
  OBVIOUS
<1>2. t \in Seq(Nat) /\ Len(t) = n - m
  OBVIOUS
<1>3. u \in Seq(Nat) /\ Len(u) = n
  OBVIOUS
<1>4. /\ s \o t \in Seq(Nat) /\ Len(s \o t) = n
      /\ \A i \in 1 .. n : (s \o t)[i] = IF i <= m THEN s[i] ELSE t[i - m]
  <2> HIDE DEF s, t, u
  <2>1. /\ s \o t \in Seq(Nat) /\ Len(s \o t) = Len(s) + Len(t)
        /\ \A i \in 1 .. Len(s) + Len(t) :
             (s \o t)[i] = IF i <= Len(s) THEN s[i] ELSE t[i - Len(s)]
    BY <1>1, <1>2, ConcatProperties, Zenon
  <2>2. Len(s) + Len(t) = n
    BY <1>1, <1>2
  <2> QED
    BY <1>1, <2>1, <2>2
<1>5. \A i \in 1 .. n : (s \o t)[i] = u[i]
  <2>1. \A i \in 1 .. n : IF i <= m THEN s[i] = i ELSE t[i - m] = i
    OBVIOUS
  <2> QED
    BY <1>4, <2>1
<1>6. s \o t = u
  <2> HIDE DEF s, t, u
  <2> QED
    BY <1>3, <1>4, <1>5, SeqEqual
<1> QED
  BY <1>1, <1>2, <1>6

(* A write moves replies on, in their order.                               *)
LEMMA WriteRemoteKeeps ==
  ASSUME RepliesInv, WriteRemote, replied' = replied
  PROVE  /\ local_buf' \in Seq(Nat)
         /\ to_remote' \in Seq(Nat)
         /\ RepliesInOrder'
<1>1. PICK n \in 1 .. Len(local_buf) :
        /\ to_remote' = to_remote \o SubSeq(local_buf, 1, n)
        /\ local_buf' = SubSeq(local_buf, n + 1, Len(local_buf))
  BY DEF WriteRemote
<1>2. PICK a \in Seq(Nat), b \in Seq(Nat) :
        a \o b = local_buf /\ to_remote' = to_remote \o a /\ local_buf' = b
  BY <1>1, Split DEF RepliesInv
<1>3. to_remote \in Seq(Nat)
  BY DEF RepliesInv
<1>4. (to_remote \o a) \o b = to_remote \o (a \o b)
  BY <1>3, Regroup, Zenon
<1>5. to_remote \o a \in Seq(Nat)
  BY <1>3, ConcatProperties
<1> QED
  BY <1>2, <1>4, <1>5 DEF RepliesInv, RepliesInOrder

(* Every step of the channel.                                              *)
LEMMA NextKeepsReplies ==
  ASSUME RepliesInv, [Next]_vars PROVE RepliesInv'
<1>1. CASE ReadLocal
  <2>1. PICK n \in replied + 1 .. Replies[stream] :
          /\ local_buf' = local_buf \o [i \in 1 .. n - replied |-> replied + i]
          /\ replied' = n
    BY <1>1 DEF ReadLocal
  <2>2. n \in Int /\ replied + 1 <= n
    BY <2>1 DEF RepliesInv
  <2>3. n \in Nat /\ replied < n
    BY <2>2 DEF RepliesInv
  <2> DEFINE more == [i \in 1 .. n - replied |-> replied + i]
  <2>4. /\ more \in Seq(Nat)
        /\ [i \in 1 .. replied |-> i] \o more = [i \in 1 .. n |-> i]
    BY <2>3, CountOn DEF RepliesInv
  <2>5. local_buf' = local_buf \o more
    BY <2>1
  <2> HIDE DEF more
  <2>6. local_buf' \in Seq(Nat)
    BY <2>4, <2>5, ConcatProperties DEF RepliesInv
  <2>7. to_remote \o local_buf' = (to_remote \o local_buf) \o more
    <3>1. to_remote \in Seq(Nat) /\ local_buf \in Seq(Nat)
      BY DEF RepliesInv
    <3>2. (to_remote \o local_buf) \o more = to_remote \o (local_buf \o more)
      BY <2>4, <3>1, Regroup, Zenon
    <3> QED
      BY <2>5, <3>2, Zenon
  <2>8. to_remote' = to_remote /\ phase' = "write_local"
    BY <1>1 DEF ReadLocal
  <2> QED
    BY <2>1, <2>3, <2>4, <2>6, <2>7, <2>8 DEF RepliesInv, RepliesInOrder
<1>2. CASE CopyToRemote
  <2>1. /\ local_buf = <<>> /\ local_buf' = <<>> /\ phase' = phase
        /\ to_remote' = Append(to_remote, replied + 1)
        /\ replied' = replied + 1
    BY <1>2 DEF CopyToRemote, RepliesInv
  <2>2. to_remote = [i \in 1 .. replied |-> i]
    BY <2>1, ConcatEmptySeq DEF RepliesInv, RepliesInOrder
  <2>3. to_remote' \in Seq(Nat) /\ replied' \in Nat
    BY <2>1, AppendProperties DEF RepliesInv
  <2>4. to_remote' = [i \in 1 .. replied' |-> i]
    <3>1. Len(to_remote) = replied
      BY <2>2 DEF RepliesInv
    <3>2. /\ Len(to_remote') = replied + 1
          /\ \A i \in 1 .. replied : to_remote'[i] = i
          /\ to_remote'[replied + 1] = replied + 1
      BY <2>1, <2>2, <3>1, AppendProperties DEF RepliesInv
    <3>3. \A i \in 1 .. replied + 1 : to_remote'[i] = i
      BY <3>2 DEF RepliesInv
    <3> DEFINE u == [i \in 1 .. replied' |-> i]
    <3>4. u \in Seq(Nat) /\ Len(u) = replied + 1 /\ \A i \in 1 .. replied + 1 : u[i] = i
      BY <2>1, <2>3
    <3> HIDE DEF u
    <3>5. to_remote' = u
      BY <2>3, <3>2, <3>3, <3>4, SeqEqual
    <3> QED
      BY <3>5 DEF u
  <2>5. to_remote' \o local_buf' = to_remote'
    BY <2>1, <2>3, ConcatEmptySeq
  <2> QED
    BY <2>1, <2>3, <2>4, <2>5, EmptySeq DEF RepliesInv, RepliesInOrder
<1>3. CASE ForwardReply
  <2>1. WriteRemote /\ replied' = replied /\ phase' = "select"
    BY <1>3 DEF ForwardReply
  <2> QED
    BY <2>1, WriteRemoteKeeps DEF RepliesInv
<1>4. CASE FlushRemote
  <2>1. CASE WriteRemote /\ UNCHANGED phase
    BY <1>4, <2>1, WriteRemoteKeeps DEF FlushRemote, RepliesInv
  <2>2. CASE local_buf = <<>> /\ phase' = "copy" /\ UNCHANGED <<local_buf, to_remote>>
    BY <1>4, <2>2 DEF FlushRemote, RepliesInv, RepliesInOrder
  <2> QED
    BY <1>4, <2>1, <2>2 DEF FlushRemote
<1>5. ASSUME UNCHANGED <<replied, local_buf, to_remote>>, phase' = "copy" => phase = "copy"
      PROVE  RepliesInv'
  BY <1>5 DEF RepliesInv, RepliesInOrder
<1>6. CASE \/ Parse \/ Parsed \/ WriteLine \/ TakeHeaders \/ WriteHeaders
  BY <1>5, <1>6 DEF Parse, Parsed, WriteLine, TakeHeaders, WriteHeaders, channelVars
<1>7. CASE \/ EndOfHead \/ FlushLocal \/ ReadRemote \/ CopyToLocal \/ SocketFails
           \/ UNCHANGED vars
  BY <1>5, <1>7 DEF EndOfHead, FlushLocal, ReadRemote, CopyToLocal, SocketFails, vars,
                    channelVars
<1> QED
  BY <1>1, <1>2, <1>3, <1>4, <1>6, <1>7 DEF Next, TaskStep

(* However the loop, the flush and the copy interleave and however little  *)
(* a write takes, the visitor gets what the local service answers in order *)
(* and once (client.rs:446-457, 523-531).                                  *)
THEOREM RepliesArriveInOrder == Spec => []RepliesInOrder
<1>1. Init => RepliesInv
  <2>1. <<>> \o <<>> = [i \in 1 .. 0 |-> i]
    OBVIOUS
  <2> QED
    BY <2>1, EmptySeq DEF Init, RepliesInv, RepliesInOrder
<1>2. RepliesInv => RepliesInOrder
  BY DEF RepliesInv
<1> QED
  BY <1>1, <1>2, NextKeepsReplies, PTL DEF Spec

-----------------------------------------------------------------------------
(* The types of the parser and of the channel, the head that the local     *)
(* service gets, and what the callbacks decode.                            *)
(*                                                                         *)
(* The types need more than themselves: the line of a request is put       *)
(* together from its method, url and version as soon as there is a         *)
(* version, so a version comes only after the other two.  The local        *)
(* service gets one head: one line and one blank line at most, the headers *)
(* before the blank line and the data after it.  And what the parser's     *)
(* callbacks decode is text, while the log line has decoded it first.      *)


(* The states between the end of the method, or of the url, and the version. *)
AfterMethod ==
  {"req_first_space_before_url", "req_spaces_before_url", "url_entry_connect",
   "url_entry_normal", "url_skip_to_http", "url_to_http", "req_http_start"}
    \cup UrlNodes \cup VersionNodes
AfterUrl == {"req_http_start"} \cup VersionNodes

(* What the fields of the request hold in the state `node`.                *)
RequestOK(node, r) ==
  /\ r \in RequestType
  /\ IsFiniteSet(r.headers)
  /\ node \in AfterMethod => r.method # {}
  /\ node \in AfterUrl => r.url # {}
  /\ r.version # {} => r.method # {} /\ r.url # {}

(* The fields of the parser when `upto` bytes are behind it.               *)
FieldsOK(q, upto) ==
  /\ q \in ParserType
  /\ q.span # NoSpan => q.span.cb \in Callbacks /\ q.span.from \in 1 .. upto

Within(at, end) == end \in 1 .. Len(stream) + 1 /\ at \in 1 .. end

Typed ==
  /\ stream \in Streams /\ executing \in BOOLEAN
  /\ Within(p, endp)
  /\ cur \in Nodes
  /\ FieldsOK(parser, p)
  /\ RequestOK(cur, request)

(* The bytes.                                                              *)
LEMMA Alphabet ==
  /\ Letter \subseteq Bytes /\ Digit \subseteq Bytes
  /\ \A b \in Bytes : LowerOf(b) \in Bytes
  /\ \A b \in Digit : LowerOf(b) = b
  /\ Streams \subseteq Seq(Bytes)
  BY LlHttpAssumption DEF LlHttpAssumption, Bytes, Ascii, Printable, LowerOf

(* The values of digits.                                                   *)
LEMMA DigitsAreHex == \A b \in Digit : \E v \in 0 .. 15 : HexOf[v + 1] = b
<1>1. \A i \in 1 .. 10 : HexOf[i] = DigitOf[i]
  BY DEF HexOf, DigitOf
<1>2. \A i \in 1 .. 10 : i - 1 \in 0 .. 15 /\ HexOf[(i - 1) + 1] = DigitOf[i]
  BY <1>1
<1> QED
  BY <1>2 DEF Digit

LEMMA Values ==
  /\ \A b \in Digit : Value(b) \in 0 .. 15
  /\ \A b : LowerOf(b) \in Hex => Value(b) \in 0 .. 15
<1>1. ASSUME NEW b, \E v \in 0 .. 15 : HexOf[v + 1] = LowerOf(b)
      PROVE  Value(b) \in 0 .. 15
  BY <1>1 DEF Value
<1>2. \A b \in Digit : Value(b) \in 0 .. 15
  BY <1>1, DigitsAreHex, Alphabet
<1>3. ASSUME NEW b, LowerOf(b) \in Hex PROVE \E v \in 0 .. 15 : HexOf[v + 1] = LowerOf(b)
  <2>1. PICK i \in 1 .. 16 : HexOf[i] = LowerOf(b)
    BY <1>3 DEF Hex
  <2>2. i - 1 \in 0 .. 15 /\ HexOf[(i - 1) + 1] = LowerOf(b)
    BY <2>1
  <2> QED
    BY <2>2
<1> QED
  BY <1>1, <1>2, <1>3

(* A remainder is less than the modulus.                                   *)
LEMMA Remainders == \A x \in Int, m \in Nat : x % (m + 1) \in 0 .. m
  OBVIOUS

----------------------------------------------------------------------------
(* Updates of the fields.                                                  *)

(* Each field of the parser by itself.                                     *)
LEMMA UpdateTyped ==
  ASSUME NEW q \in ParserType
  PROVE  /\ \A s \in Seq(Bytes) : [q EXCEPT !.matched = s] \in ParserType
         /\ \A e \in Errors : [q EXCEPT !.error = e] \in ParserType
         /\ \A h \in HeaderStates : [q EXCEPT !.header_state = h] \in ParserType
         /\ \A fs \in SUBSET Flags : [q EXCEPT !.flags = fs] \in ParserType
         /\ \A n \in 0 .. MaxLength : [q EXCEPT !.content_length = n] \in ParserType
         /\ \A m \in Methods : [q EXCEPT !.method = m] \in ParserType
         /\ \A n \in 0 .. 15 : [q EXCEPT !.http_major = n] \in ParserType
         /\ \A n \in 0 .. 15 : [q EXCEPT !.http_minor = n] \in ParserType
         /\ \A b \in BOOLEAN : [q EXCEPT !.upgrade = b] \in ParserType
         /\ \A c \in Callbacks \cup {"none"}, n \in Nat :
              [q EXCEPT !.span = [cb |-> c, from |-> n]] \in ParserType
         /\ [q EXCEPT !.span = NoSpan] \in ParserType
         /\ \A n \in Nat : [q EXCEPT !.span.from = n] \in ParserType
  BY DEF ParserType, NoSpan

(* Bytes behind the parser stay behind it.                                 *)
LEMMA FieldsLater ==
  ASSUME NEW q, NEW m \in Nat, NEW n \in Nat, m <= n, FieldsOK(q, m)
  PROVE  FieldsOK(q, n)
  BY DEF FieldsOK

(* Updates of typed fields are typed.                                      *)
LEMMA FieldsUpdated ==
  ASSUME NEW n \in Nat, NEW q, FieldsOK(q, n)
  PROVE  /\ \A s \in Seq(Bytes) : FieldsOK([q EXCEPT !.matched = s], n)
         /\ \A e \in Errors : FieldsOK([q EXCEPT !.error = e], n)
         /\ \A h \in HeaderStates : FieldsOK([q EXCEPT !.header_state = h], n)
         /\ \A h \in HeaderStates, s \in Seq(Bytes) :
              FieldsOK([q EXCEPT !.header_state = h, !.matched = s], n)
         /\ \A fs \in SUBSET Flags : FieldsOK([q EXCEPT !.flags = fs], n)
         /\ \A l \in 0 .. MaxLength : FieldsOK([q EXCEPT !.content_length = l], n)
         /\ \A m \in Methods, s \in Seq(Bytes) :
              FieldsOK([q EXCEPT !.method = m, !.matched = s], n)
         /\ \A v \in 0 .. 15 : FieldsOK([q EXCEPT !.http_major = v], n)
         /\ \A v \in 0 .. 15 : FieldsOK([q EXCEPT !.http_minor = v], n)
         /\ \A v, w \in 0 .. 15 : FieldsOK([q EXCEPT !.http_major = v, !.http_minor = w], n)
         /\ \A b \in BOOLEAN : FieldsOK([q EXCEPT !.upgrade = b], n)
         /\ FieldsOK([q EXCEPT !.span = NoSpan], n)
         /\ \A c \in Callbacks, f \in 1 .. n :
              FieldsOK([q EXCEPT !.span = [cb |-> c, from |-> f]], n)
<1>1. ASSUME NEW v \in ParserType, v.span = q.span PROVE FieldsOK(v, n)
  BY <1>1 DEF FieldsOK
<1>2. q \in ParserType
  BY DEF FieldsOK
<1>3. /\ \A s \in Seq(Bytes) : FieldsOK([q EXCEPT !.matched = s], n)
      /\ \A e \in Errors : FieldsOK([q EXCEPT !.error = e], n)
      /\ \A h \in HeaderStates : FieldsOK([q EXCEPT !.header_state = h], n)
      /\ \A fs \in SUBSET Flags : FieldsOK([q EXCEPT !.flags = fs], n)
      /\ \A l \in 0 .. MaxLength : FieldsOK([q EXCEPT !.content_length = l], n)
      /\ \A m \in Methods : FieldsOK([q EXCEPT !.method = m], n)
      /\ \A v \in 0 .. 15 : FieldsOK([q EXCEPT !.http_major = v], n)
      /\ \A v \in 0 .. 15 : FieldsOK([q EXCEPT !.http_minor = v], n)
      /\ \A b \in BOOLEAN : FieldsOK([q EXCEPT !.upgrade = b], n)
  BY <1>1, <1>2 DEF ParserType
<1>4. ASSUME NEW h \in HeaderStates, NEW s \in Seq(Bytes)
      PROVE  FieldsOK([q EXCEPT !.header_state = h, !.matched = s], n)
  BY <1>1, <1>2 DEF ParserType
<1>5. ASSUME NEW m \in Methods, NEW s \in Seq(Bytes)
      PROVE  FieldsOK([q EXCEPT !.method = m, !.matched = s], n)
  BY <1>1, <1>2 DEF ParserType
<1>6. ASSUME NEW v \in 0 .. 15, NEW w \in 0 .. 15
      PROVE  FieldsOK([q EXCEPT !.http_major = v, !.http_minor = w], n)
  BY <1>1, <1>2 DEF ParserType
<1>7. FieldsOK([q EXCEPT !.span = NoSpan], n)
  <2>1. [q EXCEPT !.span = NoSpan].span = NoSpan
    BY <1>2 DEF ParserType
  <2> QED
    BY <1>2, <2>1, UpdateTyped DEF FieldsOK
<1>8. ASSUME NEW c \in Callbacks, NEW f \in 1 .. n
      PROVE  FieldsOK([q EXCEPT !.span = [cb |-> c, from |-> f]], n)
  <2> DEFINE v == [q EXCEPT !.span = [cb |-> c, from |-> f]]
  <2>1. v.span = [cb |-> c, from |-> f]
    BY <1>2 DEF ParserType
  <2>2. f \in Nat /\ c \in Callbacks \cup {"none"}
    OBVIOUS
  <2>3. v \in ParserType
    BY <1>2, <2>2, UpdateTyped
  <2> QED
    BY <2>1, <2>3 DEF FieldsOK
<1> QED
  BY <1>3, <1>4, <1>5, <1>6, <1>7, <1>8

----------------------------------------------------------------------------
(* Moves of the state machine.                                             *)

(* Where a state looks at a byte, there is one.                            *)
LEMMA Here ==
  ASSUME Typed, NEW a, At(a)
  PROVE  /\ p \in Nat /\ endp \in Nat /\ 1 <= p /\ p + 1 <= endp /\ endp <= Len(stream) + 1
         /\ Len(stream) \in Nat /\ stream \in Seq(Bytes)
         /\ Byte \in Bytes
         /\ FieldsOK(parser, p) /\ FieldsOK(parser, p + 1)
         /\ RequestOK(a, request) /\ a \in Nodes
<1>1. stream \in Seq(Bytes)
  BY Alphabet DEF Typed
<1>2. Len(stream) \in Nat /\ \A i \in 1 .. Len(stream) : stream[i] \in Bytes
  BY <1>1, LenProperties, ElementOfSeq
<1>3. p \in Nat /\ endp \in Nat /\ 1 <= p /\ p + 1 <= endp /\ endp <= Len(stream) + 1
  BY <1>2 DEF Typed, Within, At
<1>4. Byte \in Bytes
  BY <1>2, <1>3 DEF Byte
<1> QED
  BY <1>1, <1>2, <1>3, <1>4, FieldsLater DEF Typed, At

(* A move to fields that are typed.                                        *)
LEMMA MoveTyped ==
  ASSUME Typed, NEW a, At(a), NEW node \in Nodes, NEW k \in Nat, p + k <= endp,
         NEW q, FieldsOK(q, p + k), NEW r, RequestOK(node, r), Move(node, k, q, r)
  PROVE  Typed'
<1>1. p \in Nat /\ 1 <= p
  BY Here
<1>2. Within(p, endp)'
  BY <1>1 DEF Move, Typed, Within
<1>3. FieldsOK(parser, p)' /\ RequestOK(cur, request)'
  BY DEF Move, FieldsOK, RequestOK
<1> QED
  BY <1>2, <1>3 DEF Move, Typed

(* The states that ask for no more than others do.                         *)
Follows(a, b) ==
  /\ b \in Nodes
  /\ b \in AfterMethod => a \in AfterMethod
  /\ b \in AfterUrl => a \in AfterUrl

LEMMA Following ==
  /\ \A a, b \in UrlNodes : Follows(a, b)
  /\ \A a : \A b \in Nodes \ AfterMethod : Follows(a, b)
  /\ \A a \in AfterMethod : \A b \in (Nodes \cap AfterMethod) \ AfterUrl : Follows(a, b)
  /\ \A a \in AfterUrl : \A b \in (Nodes \cap AfterUrl) : Follows(a, b)
  BY DEF Follows, UrlNodes, VersionNodes, AfterMethod, AfterUrl, Nodes

LEMMA FollowsOK ==
  ASSUME NEW a, NEW b, Follows(a, b), NEW r, RequestOK(a, r)
  PROVE  RequestOK(b, r)
  BY DEF Follows, RequestOK

(* A step that changes at most the fields.                                 *)
LEMMA PassTyped ==
  ASSUME Typed, NEW a, At(a), NEW b, Follows(a, b), NEW k \in {0, 1},
         NEW q, FieldsOK(q, p + k), Move(b, k, q, request)
  PROVE  Typed'
<1>1. RequestOK(b, request)
  BY Here, FollowsOK
<1>2. b \in Nodes /\ k \in Nat /\ p + k <= endp
  BY Here DEF Follows
<1> QED
  BY <1>1, <1>2, MoveTyped

LEMMA EatTyped ==
  ASSUME Typed, NEW a, At(a), NEW b, Follows(a, b), Eat(b) \/ Goto(b)
  PROVE  Typed'
<1>1. FieldsOK(parser, p + 0) /\ FieldsOK(parser, p + 1)
  BY Here
<1> QED
  BY <1>1, PassTyped DEF Eat, Goto

LEMMA MatchTyped ==
  ASSUME Typed, NEW a, At(a), NEW b, Follows(a, b), NEW k \in {0, 1},
         NEW s \in Seq(Bytes), Move(b, k, Matched(s), request)
  PROVE  Typed'
<1>1. p + k \in Nat /\ FieldsOK(parser, p + k)
  <2>1. p \in Nat /\ FieldsOK(parser, p) /\ FieldsOK(parser, p + 1)
    BY Here
  <2> QED
    BY <2>1
<1>2. FieldsOK(Matched(s), p + k)
  BY <1>1, FieldsUpdated DEF Matched
<1> QED
  BY <1>2, PassTyped

LEMMA FailTyped ==
  ASSUME Typed, NEW a, At(a), NEW e \in Errors, Fail(e)
  PROVE  Typed'
<1>1. FieldsOK([parser EXCEPT !.error = e], p)
  BY Here, FieldsUpdated
<1>2. Follows(a, "error")
  BY Following DEF Nodes, AfterMethod, UrlNodes, VersionNodes
<1>3. p + 0 = p
  BY Here
<1> QED
  BY <1>1, <1>2, <1>3, PassTyped DEF Fail

----------------------------------------------------------------------------
(* The callbacks.                                                          *)

(* The fields of the request that a callback leaves alone.                 *)
SameHead(r, v) ==
  /\ v.is_header_complete = r.is_header_complete
  /\ v.method = r.method /\ v.url = r.url /\ v.version = r.version
  /\ v.headers = r.headers

LEMMA SameHeadOK ==
  ASSUME NEW a, NEW b, Follows(a, b), NEW r, RequestOK(a, r), NEW v \in RequestType,
         SameHead(r, v)
  PROVE  RequestOK(b, v)
  BY DEF Follows, RequestOK, SameHead

(* Any stretch of the stream consists of bytes.                            *)
LEMMA StretchTyped ==
  ASSUME NEW s \in Seq(Bytes), NEW m \in Nat, 1 <= m, NEW n \in Int, n <= Len(s)
  PROVE  SubSeq(s, m, n) \in Seq(Bytes)
<1>1. Len(s) \in Nat /\ \A i \in 1 .. Len(s) : s[i] \in Bytes
  BY LenProperties, ElementOfSeq
<1>2. \A i \in m .. n : s[i] \in Bytes
  BY <1>1
<1> QED
  BY <1>2, SubSeqProperties

(* What a callback is given.                                               *)
LEMMA DeliveredTyped ==
  ASSUME NEW r \in RequestType, NEW c \in Callbacks, NEW piece \in Seq(Bytes), NEW bad \in BOOLEAN
  PROVE  LET v == [r EXCEPT !.buf[c] = @ \o piece, !.aborted = @ \/ bad]
         IN  v \in RequestType /\ SameHead(r, v)
<1> DEFINE v == [r EXCEPT !.buf[c] = @ \o piece, !.aborted = @ \/ bad]
<1>1. r.buf \in [Callbacks -> Seq(Bytes)] /\ r.aborted \in BOOLEAN
  BY DEF RequestType
<1>2. r.buf[c] \o piece \in Seq(Bytes)
  BY <1>1, ConcatProperties
<1>3. [r.buf EXCEPT ![c] = @ \o piece] \in [Callbacks -> Seq(Bytes)]
  BY <1>1, <1>2
<1>4. v = [r EXCEPT !.buf = [r.buf EXCEPT ![c] = @ \o piece], !.aborted = r.aborted \/ bad]
  BY DEF RequestType
<1>5. (r.aborted \/ bad) \in BOOLEAN
  OBVIOUS
<1>6. v \in RequestType
  BY <1>3, <1>4, <1>5 DEF RequestType
<1> QED
  BY <1>6 DEF SameHead, RequestType

LEMMA DeliveredWhole ==
  ASSUME Typed, parser.span # NoSpan, NEW n \in Int, n <= Len(stream) + 1
  PROVE  Delivered(n) \in RequestType /\ SameHead(request, Delivered(n))
<1>1. request \in RequestType /\ parser.span.cb \in Callbacks /\ stream \in Seq(Bytes)
  BY Alphabet DEF Typed, FieldsOK, RequestOK
<1>2. parser.span.from \in Nat /\ 1 <= parser.span.from
  BY DEF Typed, FieldsOK, Within
<1>3. n - 1 \in Int /\ n - 1 <= Len(stream)
  BY <1>1, LenProperties
<1> DEFINE piece == SubSeq(stream, parser.span.from, n - 1)
           bad   == parser.span.cb # "on_body" /\ ~Utf8(piece)
<1>4. piece \in Seq(Bytes)
  BY <1>1, <1>2, <1>3, StretchTyped
<1>5. bad \in BOOLEAN
  OBVIOUS
<1>6. Delivered(n) = [request EXCEPT !.buf[parser.span.cb] = @ \o piece, !.aborted = @ \/ bad]
  BY DEF Delivered
<1> HIDE DEF piece, bad
<1> DEFINE v == [request EXCEPT !.buf[parser.span.cb] = @ \o piece, !.aborted = @ \/ bad]
<1>7. v \in RequestType /\ SameHead(request, v)
  BY <1>1, <1>4, <1>5, DeliveredTyped, Zenon
<1> QED
  BY <1>6, <1>7, Zenon

LEMMA DeliveredOK ==
  ASSUME Typed, ParserInv, NEW a, At(a), SpanOf(a) # "none",
         NEW n \in Int, n <= Len(stream) + 1
  PROVE  Delivered(n) \in RequestType /\ SameHead(request, Delivered(n))
<1>1. parser.span # NoSpan
  BY DEF ParserInv, Good, Fits, At, NoSpan
<1> QED
  BY <1>1, DeliveredWhole

(* A callback at the end of a span.                                        *)
LEMMA EndSpanTyped ==
  ASSUME Typed, ParserInv, NEW a, At(a), SpanOf(a) # "none", NEW b, Follows(a, b),
         NEW k \in {0, 1}, NEW q, FieldsOK(q, p), Move(b, k, q, Delivered(p))
  PROVE  Typed'
<1>1. p \in Nat /\ p <= Len(stream) + 1 /\ p + k <= endp /\ p + k \in Nat /\ p <= p + k
  BY Here
<1>2. RequestOK(b, Delivered(p))
  BY <1>1, DeliveredOK, SameHeadOK, Here
<1>3. FieldsOK(q, p + k) /\ b \in Nodes
  BY <1>1, FieldsLater DEF Follows
<1> QED
  BY <1>1, <1>2, <1>3, MoveTyped

LEMMA UnspannedTyped ==
  ASSUME Typed, NEW a, At(a) PROVE FieldsOK(Unspanned, p)
  BY Here, FieldsUpdated DEF Unspanned

LEMMA EndSpanStepTyped ==
  ASSUME Typed, ParserInv, NEW a, At(a), SpanOf(a) # "none", NEW b, Follows(a, b),
         NEW k \in {0, 1}, EndSpan(b, k)
  PROVE  Typed'
  BY UnspannedTyped, EndSpanTyped DEF EndSpan

LEMMA FailAfterSpanTyped ==
  ASSUME Typed, ParserInv, NEW a, At(a), SpanOf(a) # "none", NEW e \in Errors,
         FailAfterSpan(e)
  PROVE  Typed'
<1>1. FieldsOK([Unspanned EXCEPT !.error = e], p)
  BY UnspannedTyped, FieldsUpdated, Here
<1>2. Follows(a, "error")
  BY Following DEF Nodes, AfterMethod, UrlNodes, VersionNodes
<1> QED
  BY <1>1, <1>2, EndSpanTyped DEF FailAfterSpan

(* A span begins.                                                          *)
LEMMA SpannedTyped ==
  ASSUME Typed, NEW a, At(a), NEW c \in Callbacks, NEW k \in {0, 1}
  PROVE  FieldsOK(Spanned(c, p + k), p + k)
         /\ FieldsOK([Spanned(c, p + k) EXCEPT !.matched = <<>>], p + k)
<1>1. p + k \in Nat /\ p + k \in 1 .. p + k /\ FieldsOK(parser, p + k)
  <2>1. p \in Nat /\ 1 <= p /\ FieldsOK(parser, p) /\ FieldsOK(parser, p + 1)
    BY Here
  <2> QED
    BY <2>1
<1>2. FieldsOK(Spanned(c, p + k), p + k)
  BY <1>1, FieldsUpdated DEF Spanned
<1> QED
  BY <1>1, <1>2, FieldsUpdated, EmptySeq

----------------------------------------------------------------------------
(* The request line.                                                       *)

(* One more byte of a word.                                                *)
LEMMA OneMore ==
  ASSUME Typed, NEW a, At(a)
  PROVE  /\ Append(parser.matched, Byte) \in Seq(Bytes)
         /\ Append(parser.matched, LowerOf(Byte)) \in Seq(Bytes)
<1>1. parser.matched \in Seq(Bytes)
  BY DEF Typed, FieldsOK, ParserType
<1>2. Byte \in Bytes /\ LowerOf(Byte) \in Bytes
  BY Here, Alphabet
<1> QED
  BY <1>1, <1>2, AppendProperties

(* The parts of the line become fields of the request.                     *)
LEMMA MethodTyped ==
  ASSUME NEW r \in RequestType
  PROVE  LET v == [r EXCEPT !.method = {r.buf["on_method"]}, !.buf["on_method"] = <<>>]
         IN  /\ v \in RequestType /\ v.method # {} /\ v.url = r.url
             /\ v.version = r.version /\ v.headers = r.headers
<1>1. r.buf \in [Callbacks -> Seq(Bytes)] /\ "on_method" \in Callbacks /\ <<>> \in Seq(Bytes)
  BY EmptySeq DEF RequestType, Callbacks
<1>2. r.buf["on_method"] \in Seq(Bytes)
      /\ [r.buf EXCEPT !["on_method"] = <<>>] \in [Callbacks -> Seq(Bytes)]
  BY <1>1
<1> QED
  BY <1>1, <1>2 DEF RequestType

LEMMA UrlTyped ==
  ASSUME NEW r \in RequestType
  PROVE  LET v == [r EXCEPT !.url = {r.buf["on_url"]}, !.buf["on_url"] = <<>>]
         IN  /\ v \in RequestType /\ v.url # {} /\ v.method = r.method
             /\ v.version = r.version /\ v.headers = r.headers
<1>1. r.buf \in [Callbacks -> Seq(Bytes)] /\ "on_url" \in Callbacks /\ <<>> \in Seq(Bytes)
  BY EmptySeq DEF RequestType, Callbacks
<1>2. r.buf["on_url"] \in Seq(Bytes)
      /\ [r.buf EXCEPT !["on_url"] = <<>>] \in [Callbacks -> Seq(Bytes)]
  BY <1>1
<1> QED
  BY <1>1, <1>2 DEF RequestType

LEMMA VersionTyped ==
  ASSUME NEW r \in RequestType
  PROVE  LET v == [r EXCEPT !.version = {r.buf["on_version"]}, !.buf["on_version"] = <<>>]
         IN  /\ v \in RequestType /\ v.method = r.method /\ v.url = r.url
             /\ v.headers = r.headers
<1>1. r.buf \in [Callbacks -> Seq(Bytes)] /\ "on_version" \in Callbacks /\ <<>> \in Seq(Bytes)
  BY EmptySeq DEF RequestType, Callbacks
<1>2. r.buf["on_version"] \in Seq(Bytes)
      /\ [r.buf EXCEPT !["on_version"] = <<>>] \in [Callbacks -> Seq(Bytes)]
  BY <1>1
<1> QED
  BY <1>1, <1>2 DEF RequestType

LEMMA MethodCompleteTyped ==
  ASSUME Typed, ParserInv, At("after_start_req"), NEW m \in Methods, NEW k \in {0, 1},
         MethodComplete(m, k)
  PROVE  Typed'
<1> DEFINE node == "req_first_space_before_url"
           r    == Delivered(p + k)
           v    == [r EXCEPT !.method = {r.buf["on_method"]}, !.buf["on_method"] = <<>>]
           q    == [Unspanned EXCEPT !.method = m, !.matched = <<>>]
<1>1. SpanOf("after_start_req") # "none" /\ node \in Nodes /\ node \notin AfterUrl
  BY SpanTable DEF Nodes, AfterUrl, VersionNodes
<1>2. p + k \in Nat /\ p + k <= endp /\ p + k <= Len(stream) + 1 /\ p \in Nat /\ p <= p + k
  BY Here
<1>3. r \in RequestType /\ SameHead(request, r)
  BY <1>1, <1>2, DeliveredOK
<1>4. RequestOK("after_start_req", request)
  BY Here
<1>5. RequestOK(node, v)
  <2>1. /\ v \in RequestType /\ v.method # {} /\ v.url = r.url
        /\ v.version = r.version /\ v.headers = r.headers
    BY <1>3, MethodTyped
  <2> HIDE DEF v, r
  <2> QED
    BY <1>1, <1>3, <1>4, <2>1 DEF RequestOK, SameHead
<1>6. FieldsOK(Unspanned, p + k)
  BY <1>2, UnspannedTyped, FieldsLater
<1>7. FieldsOK(q, p + k)
  BY <1>2, <1>6, FieldsUpdated, EmptySeq
<1>8. Move(node, k, q, v)
  BY DEF MethodComplete
<1> HIDE DEF node, r, v, q
<1> QED
  BY <1>1, <1>2, <1>5, <1>7, <1>8, MoveTyped

LEMMA UrlCompleteTyped ==
  ASSUME Typed, NEW a, At(a), NEW b \in Nodes, b \in AfterMethod => a \in AfterMethod,
         NEW q, FieldsOK(q, p), Move(b, 0, q, UrlComplete)
  PROVE  Typed'
<1>1. request \in RequestType /\ RequestOK(a, request)
  BY Here DEF Typed, RequestOK
<1>2. /\ UrlComplete \in RequestType /\ UrlComplete.url # {}
      /\ UrlComplete.method = request.method /\ UrlComplete.version = request.version
      /\ UrlComplete.headers = request.headers
  BY <1>1, UrlTyped DEF UrlComplete
<1>3. RequestOK(b, UrlComplete)
  BY <1>1, <1>2 DEF RequestOK
<1>4. p + 0 = p /\ p <= endp
  BY Here
<1> QED
  BY <1>3, <1>4, MoveTyped

LEMMA VersionCompleteTyped ==
  ASSUME Typed, ParserInv, At("req_http_minor"), Byte \in Digit, VersionComplete
  PROVE  Typed'
<1> DEFINE node == IF parser.method = "PRI" THEN "req_pri_upgrade" ELSE "req_http_complete"
           r    == Delivered(p + 1)
           v    == [r EXCEPT !.version = {r.buf["on_version"]}, !.buf["on_version"] = <<>>]
           q    == [Unspanned EXCEPT !.http_minor = Value(Byte)]
<1>1. /\ SpanOf("req_http_minor") # "none" /\ node \in Nodes /\ node \notin AfterMethod
      /\ "req_http_minor" \in AfterMethod \cap AfterUrl
  BY SpanTable DEF Nodes, AfterMethod, AfterUrl, UrlNodes, VersionNodes
<1>2. p + 1 \in Nat /\ p + 1 <= endp /\ p + 1 <= Len(stream) + 1 /\ p \in Nat /\ p <= p + 1
  BY Here
<1>3. r \in RequestType /\ SameHead(request, r)
  BY <1>1, <1>2, DeliveredOK
<1>4. RequestOK("req_http_minor", request)
  BY Here
<1>5. RequestOK(node, v)
  <2>1. /\ v \in RequestType /\ v.method = r.method /\ v.url = r.url
        /\ v.headers = r.headers
    BY <1>3, VersionTyped
  <2> HIDE DEF v, r, node
  <2>2. AfterUrl \subseteq AfterMethod
    BY DEF AfterUrl, AfterMethod
  <2> QED
    BY <1>1, <1>3, <1>4, <2>1, <2>2 DEF RequestOK, SameHead
<1>6. FieldsOK(Unspanned, p + 1)
  BY <1>2, UnspannedTyped, FieldsLater
<1>7. FieldsOK(q, p + 1)
  BY <1>2, <1>6, FieldsUpdated, Values
<1>8. Move(node, 1, q, v)
  BY DEF VersionComplete
<1> HIDE DEF node, r, v, q
<1> QED
  BY <1>1, <1>2, <1>5, <1>7, <1>8, MoveTyped

(* Which states of the line ask for no more than those before them.        *)
Before == (Nodes \cap AfterMethod) \ AfterUrl
Rest   == Nodes \ AfterMethod

LEMMA LineNodes ==
  /\ {"start", "after_start_req", "error", "url_skip_lf_to_http09", "url_skip_to_http09",
      "url_skip_lf_to_http09_1", "url_to_http_09", "headers_start", "req_pri_upgrade",
      "req_http_complete", "req_http_complete_crlf"} \subseteq Rest
  /\ {"req_first_space_before_url", "req_spaces_before_url", "url_entry_connect",
      "url_entry_normal", "url_skip_to_http", "url_to_http"} \subseteq Before
  /\ UrlNodes \subseteq Before
  /\ Before \subseteq AfterMethod
  /\ AfterUrl \subseteq Nodes \cap AfterMethod
  BY DEF Rest, Before, Nodes, AfterMethod, AfterUrl, UrlNodes, VersionNodes

LEMMA UrlNodesTyped ==
  ASSUME Typed, ParserInv, NEW a \in UrlNodes, At(a),
         UrlEnds \/ (\E b \in UrlNodes : Eat(b) \/ Goto(b)) \/ Fail("INVALID_URL")
  PROVE  Typed'
<1>1. CASE UrlEnds
  <2>1. SpanOf(a) # "none" /\ a \in AfterMethod
    BY SpanTable DEF AfterMethod
  <2>2. \A b \in {"url_skip_to_http", "url_skip_lf_to_http09", "url_skip_to_http09"} :
          Follows(a, b)
    BY <2>1, Following, LineNodes DEF Rest, Before
  <2> QED
    BY <1>1, <2>1, <2>2, EndSpanStepTyped DEF UrlEnds
<1>2. CASE \E b \in UrlNodes : Eat(b) \/ Goto(b)
  BY <1>2, EatTyped, Following
<1>3. CASE Fail("INVALID_URL")
  BY <1>3, FailTyped DEF Errors
<1> QED
  BY <1>1, <1>2, <1>3

(* The request line.                                                       *)
LEMMA RequestLineTyped ==
  ASSUME Typed, ParserInv, RequestLineStep PROVE Typed'
<1>0. /\ \A a : \A b \in Rest : Follows(a, b)
      /\ \A a \in AfterMethod : \A b \in Before : Follows(a, b)
      /\ \A a \in AfterUrl : \A b \in AfterUrl : Follows(a, b)
  BY Following, LineNodes DEF Rest, Before
<1>1. CASE Start
  <2>1. CASE Eat("start")
    BY <1>0, <1>1, <2>1, EatTyped, LineNodes DEF Start
  <2>2. CASE Move("after_start_req", 0,
                  [Spanned("on_method", p) EXCEPT !.matched = <<>>], request)
    <3>1. At("start") /\ Follows("start", "after_start_req") /\ p + 0 = p
      BY <1>0, <1>1, Here, LineNodes DEF Start
    <3>2. FieldsOK([Spanned("on_method", p) EXCEPT !.matched = <<>>], p + 0)
      BY <3>1, SpannedTyped DEF Callbacks
    <3> QED
      BY <2>2, <3>1, <3>2, PassTyped
  <2> QED
    BY <1>1, <2>1, <2>2 DEF Start
<1>2. CASE AfterStartReq
  <2> DEFINE words == Methods \cap DOMAIN Spell
             s     == Append(parser.matched, Byte)
  <2>1. At("after_start_req") /\ s \in Seq(Bytes) /\ Follows("after_start_req", "after_start_req")
    BY <1>0, <1>2, OneMore, LineNodes DEF AfterStartReq
  <2>2. CASE Move("after_start_req", 1, Matched(s), request)
    BY <2>1, <2>2, MatchTyped
  <2>3. ASSUME NEW t, NEW m \in Matches(t, words), NEW k \in {0, 1}, MethodComplete(m, k)
        PROVE  Typed'
    <3>1. m \in Methods
      BY DEF Matches
    <3> QED
      BY <2>1, <2>3, <3>1, MethodCompleteTyped
  <2>4. CASE Fail("INVALID_METHOD")
    BY <2>1, <2>4, FailTyped DEF Errors
  <2> QED
    BY <1>2, <2>2, <2>3, <2>4 DEF AfterStartReq
<1>3. CASE ReqFirstSpaceBeforeUrl
  BY <1>0, <1>3, EatTyped, FailTyped, LineNodes DEF ReqFirstSpaceBeforeUrl, Errors
<1>4. CASE ReqSpacesBeforeUrl
  BY <1>0, <1>4, EatTyped, FailTyped, LineNodes DEF ReqSpacesBeforeUrl, Errors
<1>5. ASSUME NEW node \in Before, NEW first \in UrlNodes, UrlEntry(node, first) PROVE Typed'
  <2>1. At(node) /\ Follows(node, first) /\ p + 0 = p
    BY <1>0, <1>5, Here, LineNodes DEF UrlEntry
  <2>2. CASE Fail("INVALID_URL")
    BY <2>1, <2>2, FailTyped DEF Errors
  <2>3. CASE Move(first, 0, Spanned("on_url", p), request)
    <3>1. FieldsOK(Spanned("on_url", p), p + 0)
      BY <2>1, SpannedTyped DEF Callbacks
    <3> QED
      BY <2>1, <2>3, <3>1, PassTyped
  <2> QED
    BY <1>5, <2>2, <2>3 DEF UrlEntry
<1>6. CASE UrlEntryConnect \/ UrlEntryNormal
  BY <1>5, <1>6, LineNodes DEF UrlEntryConnect, UrlEntryNormal, UrlNodes
<1>7. CASE UrlStart
  BY <1>7, UrlNodesTyped DEF UrlStart, UrlNodes
<1>8. CASE UrlSchema
  BY <1>8, UrlNodesTyped DEF UrlSchema, UrlNodes
<1>9. CASE UrlSchemaDelim
  BY <1>9, UrlNodesTyped DEF UrlSchemaDelim, UrlNodes
<1>10. CASE UrlSchemaDelim1
  BY <1>10, UrlNodesTyped DEF UrlSchemaDelim1, UrlNodes
<1>11. CASE UrlServer
  BY <1>11, UrlNodesTyped DEF UrlServer, UrlNodes
<1>12. CASE UrlServerWithAt
  BY <1>12, UrlNodesTyped DEF UrlServerWithAt, UrlNodes
<1>13. CASE UrlPath
  BY <1>13, UrlNodesTyped DEF UrlPath, UrlNodes
<1>14. CASE UrlQueryOrFragment
  BY <1>14, UrlNodesTyped DEF UrlQueryOrFragment, UrlNodes
<1>15. CASE UrlQuery
  BY <1>15, UrlNodesTyped DEF UrlQuery, UrlNodes
<1>16. CASE UrlFragment
  BY <1>16, UrlNodesTyped DEF UrlFragment, UrlNodes
<1>17. CASE UrlSkipToHttp
  BY <1>0, <1>17, EatTyped, FailTyped, LineNodes DEF UrlSkipToHttp, Errors
<1>18. CASE UrlToHttp
  <2>1. At("url_to_http") /\ "url_to_http" \in AfterMethod
    BY <1>18, LineNodes DEF UrlToHttp
  <2>2. CASE Fail("INVALID_URL")
    BY <2>1, <2>2, FailTyped DEF Errors
  <2>3. CASE Move("req_http_start", 0, Matched(<<>>), UrlComplete)
    <3>1. FieldsOK(Matched(<<>>), p)
      BY <2>1, Here, FieldsUpdated, EmptySeq DEF Matched
    <3> QED
      BY <2>1, <2>3, <3>1, UrlCompleteTyped DEF Nodes
  <2> QED
    BY <1>18, <2>2, <2>3 DEF UrlToHttp
<1>19. CASE UrlSkipToHttp09
  BY <1>0, <1>19, EatTyped, FailTyped, LineNodes DEF UrlSkipToHttp09, Errors
<1>20. CASE UrlSkipLfToHttp09
  BY <1>0, <1>20, EatTyped, FailTyped, LineNodes DEF UrlSkipLfToHttp09, Errors
<1>21. CASE UrlSkipLfToHttp091
  BY <1>0, <1>21, EatTyped, FailTyped, LineNodes DEF UrlSkipLfToHttp091, Errors
<1>22. CASE UrlToHttp09
  <2>1. At("url_to_http_09")
    BY <1>22 DEF UrlToHttp09
  <2>2. CASE Fail("INVALID_URL")
    BY <2>1, <2>2, FailTyped DEF Errors
  <2>3. CASE Move("headers_start", 0,
                  [parser EXCEPT !.http_major = 0, !.http_minor = 9], UrlComplete)
    <3>1. p \in Nat /\ FieldsOK(parser, p)
      BY <2>1, Here
    <3>2. FieldsOK([parser EXCEPT !.http_major = 0, !.http_minor = 9], p)
      <4>1. 0 \in 0 .. 15 /\ 9 \in 0 .. 15
        OBVIOUS
      <4> QED
        BY <3>1, <4>1, FieldsUpdated, Zenon
    <3> QED
      BY <2>1, <2>3, <3>2, LineNodes, UrlCompleteTyped DEF Rest
  <2> QED
    BY <1>22, <2>2, <2>3 DEF UrlToHttp09
<1>23. CASE ReqHttpStart
  <2> DEFINE s == Append(parser.matched, Byte)
  <2>1. At("req_http_start") /\ s \in Seq(Bytes) /\ {"req_http_start", "req_http_major"} \subseteq AfterUrl
    BY <1>23, OneMore DEF ReqHttpStart, AfterUrl, VersionNodes
  <2>2. CASE Eat("req_http_start")
    BY <1>0, <2>1, <2>2, EatTyped
  <2>3. CASE Move("req_http_start", 1, Matched(s), request)
    BY <1>0, <2>1, <2>3, MatchTyped
  <2>4. CASE Move("req_http_major", 1,
                  [Spanned("on_version", p + 1) EXCEPT !.matched = <<>>], request)
    <3>1. FieldsOK([Spanned("on_version", p + 1) EXCEPT !.matched = <<>>], p + 1)
      BY <2>1, SpannedTyped DEF Callbacks
    <3> QED
      BY <1>0, <2>1, <2>4, <3>1, PassTyped
  <2>5. CASE Fail("INVALID_CONSTANT")
    BY <2>1, <2>5, FailTyped DEF Errors
  <2> QED
    BY <1>23, <2>2, <2>3, <2>4, <2>5 DEF ReqHttpStart
<1>24. CASE ReqHttpMajor
  <2>1. At("req_http_major") /\ {"req_http_major", "req_http_dot"} \subseteq AfterUrl
    BY <1>24 DEF ReqHttpMajor, AfterUrl, VersionNodes
  <2>2. CASE Fail("INVALID_VERSION")
    BY <2>1, <2>2, FailTyped DEF Errors
  <2>3. CASE Byte \in Digit
             /\ Move("req_http_dot", 1, [parser EXCEPT !.http_major = Value(Byte)], request)
    <3>1. p + 1 \in Nat /\ FieldsOK(parser, p + 1) /\ Value(Byte) \in 0 .. 15
      BY <2>1, <2>3, Here, Values
    <3>2. FieldsOK([parser EXCEPT !.http_major = Value(Byte)], p + 1)
      BY <3>1, FieldsUpdated
    <3> QED
      BY <1>0, <2>1, <2>3, <3>2, PassTyped
  <2> QED
    BY <1>24, <2>2, <2>3 DEF ReqHttpMajor
<1>25. CASE ReqHttpDot
  BY <1>0, <1>25, EatTyped, FailTyped DEF ReqHttpDot, AfterUrl, VersionNodes, Errors
<1>26. CASE ReqHttpMinor
  BY <1>26, VersionCompleteTyped, FailTyped DEF ReqHttpMinor, Errors
<1>27. CASE ReqPriUpgrade
  <2> DEFINE s == Append(parser.matched, Byte)
  <2>1. At("req_pri_upgrade") /\ s \in Seq(Bytes) /\ Follows("req_pri_upgrade", "req_pri_upgrade")
    BY <1>0, <1>27, OneMore, LineNodes DEF ReqPriUpgrade
  <2>2. CASE Move("req_pri_upgrade", 1, Matched(s), request)
    BY <2>1, <2>2, MatchTyped
  <2>3. CASE \E e \in {"PAUSED_H2_UPGRADE", "INVALID_VERSION"} : Fail(e)
    BY <2>1, <2>3, FailTyped DEF Errors
  <2> QED
    BY <1>27, <2>2, <2>3 DEF ReqPriUpgrade
<1>28. CASE ReqHttpComplete
  BY <1>0, <1>28, EatTyped, FailTyped, LineNodes DEF ReqHttpComplete, Errors
<1>29. CASE ReqHttpCompleteCrlf
  BY <1>0, <1>29, EatTyped, FailTyped, LineNodes DEF ReqHttpCompleteCrlf, Errors
<1> QED
  BY <1>1, <1>2, <1>3, <1>4, <1>6, <1>7, <1>8, <1>9, <1>10, <1>11, <1>12, <1>13, <1>14,
     <1>15, <1>16, <1>17, <1>18, <1>19, <1>20, <1>21, <1>22, <1>23, <1>24, <1>25, <1>26,
     <1>27, <1>28, <1>29 DEF RequestLineStep

----------------------------------------------------------------------------
(* The headers.                                                            *)

LEMMA RestNodes ==
  /\ {"headers_start", "header_field_start", "header_value_discard_ws",
      "header_value_discard_ws_almost_done", "header_value_discard_lws",
      "header_value_almost_done", "header_value_lws", "headers_almost_done",
      "consume_content_length_1", "chunk_size_digit", "chunk_size",
      "chunk_size_otherwise", "chunk_size_almost_done", "chunk_extensions",
      "chunk_extension_name", "chunk_extension_value",
      "chunk_extension_quoted_value", "chunk_extension_quoted_value_quoted_pair",
      "chunk_extension_quoted_value_done", "consume_content_length",
      "chunk_data_almost_done", "chunk_data_almost_done_1", "closed", "error",
      "start"} \subseteq Rest
  /\ FieldNodes \subseteq Rest /\ ValueNodes \subseteq Rest
  /\ \A a : \A b \in Rest : Follows(a, b) /\ b \in Nodes
<1>1. /\ {"headers_start", "header_field_start", "header_value_discard_ws",
          "header_value_discard_ws_almost_done", "header_value_discard_lws",
          "header_value_almost_done", "header_value_lws", "headers_almost_done",
          "consume_content_length_1", "chunk_size_digit", "chunk_size",
          "chunk_size_otherwise", "chunk_size_almost_done", "chunk_extensions",
          "chunk_extension_name", "chunk_extension_value",
          "chunk_extension_quoted_value", "chunk_extension_quoted_value_quoted_pair",
          "chunk_extension_quoted_value_done", "consume_content_length",
          "chunk_data_almost_done", "chunk_data_almost_done_1", "closed", "error",
          "start"} \subseteq Rest
  BY DEF Rest, Nodes, AfterMethod, UrlNodes, VersionNodes
<1>2. FieldNodes \subseteq Rest /\ ValueNodes \subseteq Rest
  BY DEF Rest, Nodes, AfterMethod, UrlNodes, VersionNodes, FieldNodes, ValueNodes
<1> QED
  BY <1>1, <1>2, Following DEF Rest

(* A step to fields that are typed where the parser is.                    *)
LEMMA StayTyped ==
  ASSUME Typed, NEW a, At(a), NEW b \in Rest, NEW k \in {0, 1},
         NEW q, FieldsOK(q, p), Move(b, k, q, request)
  PROVE  Typed'
<1>1. FieldsOK(q, p + k)
  <2>1. p \in Nat /\ p + k \in Nat /\ p <= p + k
    BY Here
  <2> QED
    BY <2>1, FieldsLater
<1> QED
  BY <1>1, PassTyped, RestNodes

(* Fields that a header leaves.                                            *)
LEMMA InStateTyped ==
  ASSUME Typed, NEW a, At(a), NEW h \in HeaderStates
  PROVE  FieldsOK(InState(h), p)
  BY Here, FieldsUpdated, EmptySeq DEF InState

LEMMA CommittedTyped ==
  ASSUME Typed, NEW a, At(a)
  PROVE  FieldsOK(Committed, p)
<1>1. p \in Nat /\ FieldsOK(parser, p)
  BY Here
<1>2. parser.flags \cup FlagOf(parser.header_state) \in SUBSET Flags
      /\ parser.header_state \in HeaderStates
  <2>1. FlagOf(parser.header_state) \subseteq Flags
    BY DEF FlagOf, Flags
  <2> QED
    BY <1>1, <2>1 DEF FieldsOK, ParserType
<1> DEFINE q == [parser EXCEPT !.flags = parser.flags \cup FlagOf(parser.header_state)]
           h == IF parser.header_state \in OptionStates THEN "CONNECTION"
                ELSE parser.header_state
<1>3. FieldsOK(q, p)
  BY <1>1, <1>2, FieldsUpdated
<1>4. h \in HeaderStates
  BY <1>2 DEF HeaderStates
<1>5. Committed = [q EXCEPT !.header_state = h]
  BY <1>1 DEF Committed, FieldsOK, ParserType
<1> HIDE DEF q, h
<1> QED
  BY <1>1, <1>3, <1>4, <1>5, FieldsUpdated

(* A header that is inserted.                                              *)
LEMMA InsertHeaderOK ==
  ASSUME Typed, NEW a, At(a), NEW b \in Rest
  PROVE  RequestOK(b, InsertHeader)
<1> DEFINE name  == request.buf["on_header_field"]
           value == request.buf["on_header_value"]
           same  == {h \in request.headers : LowerAll(h.name) = LowerAll(name)}
           names == IF same = {} THEN {name} ELSE {h.name : h \in same}
           new   == {[name |-> n, value |-> value] : n \in names}
           buf   == [request.buf EXCEPT !["on_header_field"] = <<>>,
                                        !["on_header_value"] = <<>>]
           HeaderType == [name : Seq(Bytes), value : Seq(Bytes)]
<1>1. RequestOK(a, request)
  BY Here
<1>2. /\ request.buf \in [Callbacks -> Seq(Bytes)] /\ request.headers \subseteq HeaderType
      /\ IsFiniteSet(request.headers) /\ <<>> \in Seq(Bytes)
      /\ {"on_header_field", "on_header_value"} \subseteq Callbacks
  BY <1>1, EmptySeq DEF RequestOK, RequestType, Callbacks
<1>3. name \in Seq(Bytes) /\ value \in Seq(Bytes) /\ buf \in [Callbacks -> Seq(Bytes)]
  BY <1>2
<1>4. IsFiniteSet(same) /\ same \subseteq HeaderType
  BY <1>2, FS_Subset
<1>5. names \subseteq Seq(Bytes) /\ new \subseteq HeaderType
  BY <1>3, <1>4
<1>6. IsFiniteSet(new)
  <2>1. CASE same = {}
    <3>1. new = {[name |-> name, value |-> value]}
      BY <2>1
    <3> HIDE DEF new, name, value
    <3> QED
      BY <3>1, FS_Singleton
  <2>2. CASE same # {}
    <3> DEFINE f == [h \in same |-> [name |-> h.name, value |-> value]]
    <3>1. f \in Surjection(same, new)
      <4>1. f \in [same -> new]
        BY <2>2
      <4>2. \A e \in new : \E h \in same : f[h] = e
        BY <2>2
      <4> HIDE DEF f, same, new
      <4> QED
        BY <4>1, <4>2 DEF Surjection
    <3> HIDE DEF f, same, new
    <3> QED
      BY <1>4, <3>1, FS_Surjection
  <2> QED
    BY <2>1, <2>2
<1>7. InsertHeader = [request EXCEPT !.headers = (request.headers \ same) \cup new, !.buf = buf]
  BY <1>1 DEF InsertHeader, RequestOK, RequestType
<1> HIDE DEF name, value, same, names, new, buf
<1>8. IsFiniteSet((request.headers \ same) \cup new)
  BY <1>2, <1>6, FS_Difference, FS_Union
<1>9. (request.headers \ same) \cup new \subseteq HeaderType
  BY <1>2, <1>5
<1> QED
  BY <1>1, <1>3, <1>7, <1>8, <1>9 DEF RequestOK, RequestType, Rest, AfterUrl, AfterMethod

LEMMA FieldCompleteTyped ==
  ASSUME Typed, ParserInv, NEW a \in FieldNodes, At(a), FieldComplete
  PROVE  Typed'
<1>1. SpanOf(a) # "none"
  BY SpanTable
<1>2. CASE \E e \in {"INVALID_CONTENT_LENGTH", "INVALID_TRANSFER_ENCODING"} : FailAfterSpan(e)
  BY <1>1, <1>2, FailTyped, FailAfterSpanTyped DEF Errors
<1>3. CASE EndSpan("header_value_discard_ws", 1)
  BY <1>1, <1>3, EndSpanStepTyped, RestNodes
<1> QED
  BY <1>2, <1>3 DEF FieldComplete

(* A value begins.                                                         *)
LEMMA BeginValueTyped ==
  ASSUME Typed, ParserInv, NEW a, At(a), NEW q, FieldsOK(q, p), BeginValue(q)
  PROVE  Typed'
<1> DEFINE v == [q EXCEPT !.span = [cb |-> "on_header_value", from |-> p], !.matched = <<>>]
           w == [v EXCEPT !.flags = @ \cup {"F_TRANSFER_ENCODING"}]
           x == [v EXCEPT !.flags = @ \cup {"F_UPGRADE"}, !.header_state = "GENERAL"]
<1>1. p \in Nat /\ p \in 1 .. p
  BY Here
<1>2. FieldsOK(v, p)
  <2>1. FieldsOK([q EXCEPT !.span = [cb |-> "on_header_value", from |-> p]], p)
    BY <1>1, FieldsUpdated DEF Callbacks
  <2> QED
    BY <1>1, <2>1, FieldsUpdated, EmptySeq
<1>3. v.flags \subseteq Flags
  BY <1>2 DEF FieldsOK, ParserType
<1> HIDE DEF v
<1>4. \A f \in {"F_TRANSFER_ENCODING", "F_UPGRADE"} :
        FieldsOK([v EXCEPT !.flags = @ \cup {f}], p)
  <2>1. \A f \in {"F_TRANSFER_ENCODING", "F_UPGRADE"} : v.flags \cup {f} \in SUBSET Flags
    BY <1>3 DEF Flags
  <2> QED
    BY <1>1, <1>2, <2>1, FieldsUpdated
<1>5. FieldsOK(w, p)
  BY <1>4
<1>6. FieldsOK(x, p)
  <2> DEFINE y == [v EXCEPT !.flags = @ \cup {"F_UPGRADE"}]
  <2>1. FieldsOK(y, p) /\ x = [y EXCEPT !.header_state = "GENERAL"] /\ "GENERAL" \in HeaderStates
    BY <1>2, <1>4 DEF FieldsOK, ParserType, HeaderStates
  <2> HIDE DEF y, x
  <2> QED
    BY <1>1, <2>1, FieldsUpdated
<1>7. ASSUME NEW node \in ValueNodes, NEW u, FieldsOK(u, p), Move(node, 0, u, request)
      PROVE  Typed'
  BY <1>7, StayTyped, RestNodes
<1>8. ValueNodes # {} /\ {"header_value_connection", "header_value_content_length",
                          "header_value_te_chunked", "header_value"} \subseteq ValueNodes
  BY DEF ValueNodes
<1>9. CASE \E e \in {"UNEXPECTED_CONTENT_LENGTH", "INVALID_TRANSFER_ENCODING"} : Fail(e)
  BY <1>9, FailTyped, FailAfterSpanTyped DEF Errors
<1>10. CASE \/ Move("header_value_connection", 0, v, request)
            \/ Move("header_value_content_length", 0, v, request)
            \/ Move("header_value_te_chunked", 0, w, request)
            \/ Move("header_value", 0, x, request)
            \/ Move("header_value", 0, v, request)
  BY <1>2, <1>5, <1>6, <1>7, <1>8, <1>10
<1> QED
  BY <1>9, <1>10 DEF BeginValue, v

(* content_length stays within its 64 bits.                                *)
LEMMA MulAddTyped ==
  ASSUME Typed, NEW a, At(a), NEW base \in Nat, NEW digit \in 0 .. 15
  PROVE  FieldsOK(MulAdd(base, digit), p)
<1>1. p \in Nat /\ FieldsOK(parser, p) /\ MaxLength \in Nat
  BY Here, LlHttpAssumption DEF LlHttpAssumption
<1>2. parser.content_length \in Nat
  BY <1>1 DEF FieldsOK, ParserType
<1>3. parser.content_length * base + digit \in Int
  BY <1>2
<1>4. (parser.content_length * base + digit) % (MaxLength + 1) \in 0 .. MaxLength
  BY <1>1, <1>3, Remainders
<1> QED
  BY <1>1, <1>4, FieldsUpdated DEF MulAdd

LEMMA HeaderTyped ==
  ASSUME Typed, ParserInv, HeaderStep, ~HeadersAlmostDone PROVE Typed'
<1>1. CASE HeadersStart
  BY <1>1, EatTyped, FailTyped, FailAfterSpanTyped, RestNodes DEF HeadersStart, Errors
<1>2. CASE HeaderFieldStart
  <2>1. At("header_field_start") /\ p + 0 = p
    BY <1>2, Here DEF HeaderFieldStart
  <2>2. CASE Move("header_field", 0,
                  [Spanned("on_header_field", p) EXCEPT !.matched = <<>>], request)
    <3>1. FieldsOK([Spanned("on_header_field", p) EXCEPT !.matched = <<>>], p)
      BY <2>1, SpannedTyped DEF Callbacks
    <3> QED
      BY <2>1, <2>2, <3>1, StayTyped, RestNodes DEF FieldNodes
  <2>3. CASE Eat("headers_almost_done") \/ Fail("INVALID_HEADER_TOKEN")
    BY <2>1, <2>3, EatTyped, FailTyped, FailAfterSpanTyped, RestNodes DEF Errors
  <2> QED
    BY <1>2, <2>2, <2>3 DEF HeaderFieldStart
<1>3. CASE HeaderField
  <2> DEFINE words == DOMAIN FieldState \cap DOMAIN Spell
             s     == Append(parser.matched, LowerOf(Byte))
  <2>1. At("header_field") /\ s \in Seq(Bytes)
    BY <1>3, OneMore DEF HeaderField
  <2>2. CASE Move("header_field", 1, Matched(s), request)
    BY <2>1, <2>2, MatchTyped, RestNodes DEF FieldNodes
  <2>3. ASSUME NEW w \in words, Move("header_field_colon", 1, InState(FieldState[w]), request)
        PROVE  Typed'
    <3>1. FieldState[w] \in HeaderStates
      BY DEF FieldState, HeaderStates
    <3> QED
      BY <2>1, <2>3, <3>1, InStateTyped, StayTyped, RestNodes DEF FieldNodes
  <2>4. CASE Move("header_field_general", 0, InState("GENERAL"), request)
    BY <2>1, <2>4, InStateTyped, StayTyped, RestNodes DEF FieldNodes, HeaderStates
  <2> QED
    BY <1>3, <2>2, <2>3, <2>4 DEF HeaderField, Matches
<1>4. CASE HeaderFieldColon
  <2>1. At("header_field_colon") /\ "header_field_colon" \in FieldNodes
    BY <1>4 DEF HeaderFieldColon, FieldNodes
  <2>2. CASE FieldComplete
    BY <2>1, <2>2, FieldCompleteTyped
  <2>3. CASE FailAfterSpan("INVALID_HEADER_TOKEN")
    BY <2>1, <2>3, FailTyped, FailAfterSpanTyped, SpanTable DEF Errors
  <2>4. CASE Move("header_field_general", 0, InState("GENERAL"), request)
    BY <2>1, <2>4, InStateTyped, StayTyped, RestNodes DEF FieldNodes, HeaderStates
  <2> QED
    BY <1>4, <2>2, <2>3, <2>4 DEF HeaderFieldColon
<1>5. CASE HeaderFieldGeneral
  BY <1>5, EatTyped, FailTyped, FailAfterSpanTyped, FieldCompleteTyped, RestNodes
     DEF HeaderFieldGeneral, FieldNodes, Errors
<1>6. CASE HeaderValueDiscardWs
  BY <1>6, EatTyped, FailTyped, FailAfterSpanTyped, BeginValueTyped, Here, RestNodes
     DEF HeaderValueDiscardWs, Errors
<1>7. CASE HeaderValueDiscardWsAlmostDone
  BY <1>7, EatTyped, FailTyped, FailAfterSpanTyped, RestNodes DEF HeaderValueDiscardWsAlmostDone, Errors
<1>8. CASE HeaderValueDiscardLws
  <2>1. At("header_value_discard_lws") /\ p + 0 = p
    BY <1>8, Here DEF HeaderValueDiscardLws
  <2>2. CASE Move("header_field_start", 0, Committed, InsertHeader)
    <3>1. /\ FieldsOK(Committed, p) /\ p <= endp
          /\ RequestOK("header_field_start", InsertHeader) /\ "header_field_start" \in Nodes
      BY <2>1, Here, CommittedTyped, InsertHeaderOK, RestNodes
    <3> QED
      BY <2>1, <2>2, <3>1, MoveTyped
  <2> QED
    BY <1>8, <2>2, FailTyped, FailAfterSpanTyped DEF HeaderValueDiscardLws, Errors
<1>9. CASE HeaderValue
  BY <1>9, EatTyped, FailTyped, FailAfterSpanTyped, RestNodes, SpanTable DEF HeaderValue, ValueNodes, Errors
<1>10. CASE HeaderValueOtherwise
  <2>1. SpanOf("header_value_otherwise") # "none"
    BY SpanTable DEF ValueNodes
  <2> QED
    BY <1>10, <2>1, EndSpanStepTyped, FailTyped, FailAfterSpanTyped, RestNodes DEF HeaderValueOtherwise, Errors
<1>11. CASE HeaderValueAlmostDone
  BY <1>11, EatTyped, FailTyped, FailAfterSpanTyped, RestNodes DEF HeaderValueAlmostDone, Errors
<1>12. CASE HeaderValueLws
  <2>1. At("header_value_lws") /\ p + 0 = p
    BY <1>12, Here DEF HeaderValueLws
  <2>2. CASE Move("header_field_start", 0, Committed, InsertHeader)
    <3>1. /\ FieldsOK(Committed, p) /\ p <= endp
          /\ RequestOK("header_field_start", InsertHeader) /\ "header_field_start" \in Nodes
      BY <2>1, Here, CommittedTyped, InsertHeaderOK, RestNodes
    <3> QED
      BY <2>1, <2>2, <3>1, MoveTyped
  <2>3. ASSUME NEW q \in {InState("GENERAL"), parser}, BeginValue(q) PROVE Typed'
    <3>1. FieldsOK(q, p)
      BY <2>1, Here, InStateTyped DEF HeaderStates
    <3> QED
      BY <2>1, <2>3, <3>1, BeginValueTyped
  <2> QED
    BY <1>12, <2>2, <2>3 DEF HeaderValueLws
<1>13. CASE HeaderValueConnection
  <2> DEFINE words == DOMAIN OptionState \cap DOMAIN Spell
             s     == Append(parser.matched, LowerOf(Byte))
  <2>1. At("header_value_connection") /\ s \in Seq(Bytes) /\ <<>> \in Seq(Bytes)
    BY <1>13, OneMore, EmptySeq DEF HeaderValueConnection
  <2>2. CASE Eat("header_value_connection")
    BY <2>1, <2>2, EatTyped, RestNodes DEF ValueNodes
  <2>3. CASE \/ Move("header_value_connection", 1, Matched(s), request)
             \/ Move("header_value_connection_token", 0, Matched(<<>>), request)
    BY <2>1, <2>3, MatchTyped, RestNodes DEF ValueNodes
  <2>4. ASSUME NEW w \in words,
               Move("header_value_connection_ws", 1, InState(OptionState[w]), request)
        PROVE  Typed'
    <3>1. OptionState[w] \in HeaderStates
      BY DEF OptionState, HeaderStates, OptionStates
    <3> QED
      BY <2>1, <2>4, <3>1, InStateTyped, StayTyped, RestNodes DEF ValueNodes
  <2> QED
    BY <1>13, <2>2, <2>3, <2>4 DEF HeaderValueConnection, Matches
<1>14. CASE HeaderValueConnectionWs
  <2>1. At("header_value_connection_ws")
    BY <1>14 DEF HeaderValueConnectionWs
  <2>2. CASE Move("header_value_connection", 1, Committed, request)
    BY <2>1, <2>2, CommittedTyped, StayTyped, RestNodes DEF ValueNodes
  <2>3. CASE Move("header_value_connection_token", 0, InState("GENERAL"), request)
    BY <2>1, <2>3, InStateTyped, StayTyped, RestNodes DEF ValueNodes, HeaderStates
  <2>4. CASE Goto("header_value_otherwise") \/ Eat("header_value_connection_ws")
    BY <2>1, <2>4, EatTyped, RestNodes DEF ValueNodes
  <2> QED
    BY <1>14, <2>2, <2>3, <2>4 DEF HeaderValueConnectionWs
<1>15. CASE HeaderValueConnectionToken
  BY <1>15, EatTyped, FailTyped, FailAfterSpanTyped, RestNodes, SpanTable DEF HeaderValueConnectionToken, ValueNodes, Errors
<1>16. CASE HeaderValueContentLength
  <2>1. At("header_value_content_length") /\ SpanOf("header_value_content_length") # "none"
    BY <1>16, SpanTable DEF HeaderValueContentLength, ValueNodes
  <2>2. CASE Byte \in Digit
             /\ Move("header_value_content_length", 1, MulAdd(10, Value(Byte)), request)
    BY <2>1, <2>2, Values, MulAddTyped, StayTyped, RestNodes DEF ValueNodes
  <2>3. CASE FailAfterSpan("INVALID_CONTENT_LENGTH")
    BY <2>1, <2>3, FailTyped, FailAfterSpanTyped DEF Errors
  <2>4. CASE Goto("header_value_content_length_ws")
    BY <2>1, <2>4, EatTyped, RestNodes DEF ValueNodes
  <2> QED
    BY <1>16, <2>2, <2>3, <2>4 DEF HeaderValueContentLength
<1>17. CASE HeaderValueContentLengthWs
  <2>1. At("header_value_content_length_ws") /\ SpanOf("header_value_content_length_ws") # "none"
    BY <1>17, SpanTable DEF HeaderValueContentLengthWs, ValueNodes
  <2>2. CASE Move("header_value_otherwise", 0,
                  [parser EXCEPT !.flags = @ \cup {"F_CONTENT_LENGTH"}], request)
    <3>1. p \in Nat /\ FieldsOK(parser, p)
      BY <2>1, Here
    <3>2. parser.flags \cup {"F_CONTENT_LENGTH"} \in SUBSET Flags
      BY <3>1 DEF FieldsOK, ParserType, Flags
    <3>3. FieldsOK([parser EXCEPT !.flags = @ \cup {"F_CONTENT_LENGTH"}], p)
      BY <3>1, <3>2, FieldsUpdated
    <3> QED
      BY <2>1, <2>2, <3>3, StayTyped, RestNodes DEF ValueNodes
  <2>3. CASE FailAfterSpan("INVALID_CONTENT_LENGTH")
    BY <2>1, <2>3, FailTyped, FailAfterSpanTyped DEF Errors
  <2>4. CASE Eat("header_value_content_length_ws")
    BY <2>1, <2>4, EatTyped, RestNodes DEF ValueNodes
  <2> QED
    BY <1>17, <2>2, <2>3, <2>4 DEF HeaderValueContentLengthWs
<1>18. CASE HeaderValueTeChunked
  <2> DEFINE s == Append(parser.matched, LowerOf(Byte))
  <2>1. At("header_value_te_chunked") /\ s \in Seq(Bytes) /\ <<>> \in Seq(Bytes)
    BY <1>18, OneMore, EmptySeq DEF HeaderValueTeChunked
  <2>2. CASE \/ Move("header_value_te_chunked", 1, Matched(s), request)
             \/ Move("header_value_te_chunked_last", 1, Matched(<<>>), request)
             \/ Move("header_value_te_token", 0, Matched(<<>>), request)
    BY <2>1, <2>2, MatchTyped, RestNodes DEF ValueNodes
  <2> QED
    BY <1>18, <2>2 DEF HeaderValueTeChunked
<1>19. CASE HeaderValueTeChunkedLast
  <2>1. At("header_value_te_chunked_last") /\ SpanOf("header_value_te_chunked_last") # "none"
    BY <1>19, SpanTable DEF HeaderValueTeChunkedLast, ValueNodes
  <2>2. CASE Move("header_value_otherwise", 0, InState("TRANSFER_ENCODING_CHUNKED"), request)
    BY <2>1, <2>2, InStateTyped, StayTyped, RestNodes DEF ValueNodes, HeaderStates
  <2>3. CASE FailAfterSpan("INVALID_TRANSFER_ENCODING")
    BY <2>1, <2>3, FailTyped, FailAfterSpanTyped DEF Errors
  <2>4. CASE Eat("header_value_te_chunked_last") \/ Goto("header_value_te_token")
    BY <2>1, <2>4, EatTyped, RestNodes DEF ValueNodes
  <2> QED
    BY <1>19, <2>2, <2>3, <2>4 DEF HeaderValueTeChunkedLast
<1>20. CASE HeaderValueTeToken
  <2>1. At("header_value_te_token")
    BY <1>20 DEF HeaderValueTeToken
  <2>2. CASE Move("header_value", 0, InState("GENERAL"), request)
    BY <2>1, <2>2, InStateTyped, StayTyped, RestNodes DEF ValueNodes, HeaderStates
  <2>3. CASE Eat("header_value_te_token_ows") \/ Eat("header_value_te_token")
    BY <2>1, <2>3, EatTyped, RestNodes DEF ValueNodes
  <2> QED
    BY <1>20, <2>2, <2>3 DEF HeaderValueTeToken
<1>21. CASE HeaderValueTeTokenOws
  <2>1. At("header_value_te_token_ows") /\ <<>> \in Seq(Bytes)
    BY <1>21, EmptySeq DEF HeaderValueTeTokenOws
  <2>2. CASE Move("header_value_te_chunked", 0, Matched(<<>>), request)
    BY <2>1, <2>2, MatchTyped, RestNodes DEF ValueNodes
  <2>3. CASE Eat("header_value_te_token_ows")
    BY <2>1, <2>3, EatTyped, RestNodes DEF ValueNodes
  <2> QED
    BY <1>21, <2>2, <2>3 DEF HeaderValueTeTokenOws
<1> QED
  BY <1>1, <1>2, <1>3, <1>4, <1>5, <1>6, <1>7, <1>8, <1>9, <1>10, <1>11, <1>12, <1>13,
     <1>14, <1>15, <1>16, <1>17, <1>18, <1>19, <1>20, <1>21 DEF HeaderStep

----------------------------------------------------------------------------
(* The end of the head, and bodies.                                        *)

LEMMA NoLength == 0 \in 0 .. MaxLength
  BY LlHttpAssumption DEF LlHttpAssumption

(* A message is complete.                                                  *)
LEMMA MessageEndTyped ==
  ASSUME Typed, NEW a, At(a), NEW k \in Nat, p + k <= endp,
         NEW q, FieldsOK(q, p + k), NEW r, \A b \in Rest : RequestOK(b, r),
         AfterMessageComplete(k, q, r) \/ Paused(k, q, r) \/ MessageComplete(k, q, r)
  PROVE  Typed'
<1>1. p + k \in Nat
  BY Here
<1>2. \A v : \A b \in Rest : FieldsOK(v, p + k) /\ Move(b, k, v, r) => Typed'
  BY MoveTyped, RestNodes
<1>3. {"start", "closed", "error"} \subseteq Rest
  BY RestNodes
<1>4. /\ FieldsOK([q EXCEPT !.flags = {}], p + k)
      /\ FieldsOK([q EXCEPT !.flags = {}, !.content_length = 0], p + k)
  <2>1. FieldsOK([q EXCEPT !.flags = {}], p + k)
    BY <1>1, FieldsUpdated
  <2>2. 0 \in 0 .. MaxLength
    BY NoLength
  <2>3. FieldsOK([[q EXCEPT !.flags = {}] EXCEPT !.content_length = 0], p + k)
    BY <1>1, <2>1, <2>2, FieldsUpdated
  <2> QED
    BY <2>1, <2>3
<1>5. CASE AfterMessageComplete(k, q, r)
  BY <1>2, <1>3, <1>4, <1>5 DEF AfterMessageComplete
<1>6. CASE Paused(k, q, r)
  <2>1. FieldsOK([q EXCEPT !.error = "PAUSED_UPGRADE"], p + k)
    BY <1>1, FieldsUpdated DEF Errors
  <2> QED
    BY <1>2, <1>3, <1>6, <2>1 DEF Paused
<1> QED
  BY <1>5, <1>6 DEF MessageComplete

LEMMA HeadersCompleteTyped ==
  ASSUME Typed, At("headers_almost_done"), HeadersComplete
  PROVE  Typed'
<1> DEFINE q == [parser EXCEPT !.upgrade = Upgrades]
           r == [request EXCEPT !.is_header_complete = TRUE]
<1>1. p + 1 \in Nat /\ p + 1 <= endp /\ FieldsOK(parser, p + 1) /\ p + 1 \in 1 .. p + 1
  BY Here
<1>2. FieldsOK(q, p + 1)
  <2>1. Upgrades \in BOOLEAN
    BY DEF Upgrades
  <2> QED
    BY <1>1, <2>1, FieldsUpdated
<1>3. \A b \in Rest : RequestOK(b, r)
  <2>1. \A b \in Rest : RequestOK(b, request)
    BY Here, RestNodes, FollowsOK
  <2> QED
    BY <2>1 DEF RequestOK, RequestType
<1> HIDE DEF q, r
<1>4. \A b \in Rest : \A v : FieldsOK(v, p + 1) /\ Move(b, 1, v, r) => Typed'
  BY <1>1, <1>3, MoveTyped, RestNodes
<1>5. CASE Paused(1, q, r) \/ AfterMessageComplete(1, q, r)
  BY <1>1, <1>2, <1>3, <1>5, MessageEndTyped
<1>6. CASE Move("chunk_size_digit", 1, [q EXCEPT !.content_length = 0], r)
  <2>1. FieldsOK([q EXCEPT !.content_length = 0], p + 1)
    BY <1>1, <1>2, FieldsUpdated, NoLength
  <2> QED
    BY <1>4, <1>6, <2>1, RestNodes
<1>7. CASE Move("error", 1, [q EXCEPT !.error = "INVALID_TRANSFER_ENCODING"], r)
  <2>1. FieldsOK([q EXCEPT !.error = "INVALID_TRANSFER_ENCODING"], p + 1)
    BY <1>1, <1>2, FieldsUpdated DEF Errors
  <2> QED
    BY <1>4, <1>7, <2>1, RestNodes
<1>8. CASE Move("consume_content_length_1", 1,
                [q EXCEPT !.span = [cb |-> "on_body", from |-> p + 1]], r)
  <2>1. FieldsOK([q EXCEPT !.span = [cb |-> "on_body", from |-> p + 1]], p + 1)
    BY <1>1, <1>2, FieldsUpdated DEF Callbacks
  <2> QED
    BY <1>4, <1>8, <2>1, RestNodes
<1> QED
  BY <1>5, <1>6, <1>7, <1>8 DEF HeadersComplete, q, r

LEMMA HeadersAlmostDoneTyped ==
  ASSUME Typed, ParserInv, HeadersAlmostDone PROVE Typed'
<1>1. At("headers_almost_done")
  BY DEF HeadersAlmostDone
<1>2. CASE MessageComplete(1, parser, request)
  <2>1. p + 1 <= endp /\ FieldsOK(parser, p + 1) /\ 1 \in Nat
    BY <1>1, Here
  <2>2. \A b \in Rest : RequestOK(b, request)
    BY <1>1, Here, RestNodes, FollowsOK
  <2> QED
    BY <1>1, <1>2, <2>1, <2>2, MessageEndTyped
<1>3. CASE HeadersComplete
  BY <1>1, <1>3, HeadersCompleteTyped
<1>4. CASE Fail("STRICT")
  BY <1>1, <1>4, FailTyped DEF Errors
<1> QED
  BY <1>2, <1>3, <1>4 DEF HeadersAlmostDone

(* What is consumed is at hand, and leaves a length that is none too large. *)
LEMMA ConsumedTyped ==
  ASSUME Typed, NEW a, At(a)
  PROVE  /\ AtHand \in Nat /\ p + AtHand <= endp
         /\ FieldsOK(Consumed, p + AtHand)
<1>1. /\ p \in Nat /\ endp \in Nat /\ p + 1 <= endp /\ FieldsOK(parser, p)
      /\ MaxLength \in Nat
  BY Here, LlHttpAssumption DEF LlHttpAssumption
<1>2. parser.content_length \in 0 .. MaxLength
  BY <1>1 DEF FieldsOK, ParserType
<1>3. AtHand \in Nat /\ AtHand <= parser.content_length /\ p + AtHand <= endp
  BY <1>1, <1>2 DEF AtHand
<1>4. parser.content_length - AtHand \in 0 .. MaxLength
  BY <1>1, <1>2, <1>3
<1>5. FieldsOK(parser, p + AtHand) /\ p + AtHand \in Nat
  <2>1. p + AtHand \in Nat /\ p <= p + AtHand
    BY <1>1, <1>3
  <2> QED
    BY <1>1, <2>1, FieldsLater
<1> QED
  BY <1>3, <1>4, <1>5, FieldsUpdated DEF Consumed

(* The body of a request, or a chunk, is consumed.                         *)
LEMMA ConsumeTyped ==
  ASSUME Typed, ParserInv, ConsumeContentLength1 \/ ConsumeContentLength
  PROVE  Typed'
<1>1. ASSUME NEW a \in BodyNodes, At(a)
      PROVE  /\ \A b \in Rest : Move(b, AtHand, Consumed, request) => Typed'
             /\ FieldsOK([Consumed EXCEPT !.span = NoSpan], p + AtHand)
             /\ \A b \in Rest : RequestOK(b, Delivered(p + AtHand))
             /\ AtHand \in Nat /\ p + AtHand <= endp
  <2>1. /\ AtHand \in Nat /\ p + AtHand <= endp /\ FieldsOK(Consumed, p + AtHand)
        /\ p \in Nat /\ endp \in Nat /\ Len(stream) \in Nat /\ endp <= Len(stream) + 1
    BY <1>1, ConsumedTyped, Here
  <2>2. p + AtHand \in Int /\ p + AtHand <= Len(stream) + 1 /\ p + AtHand \in Nat
    BY <2>1
  <2>3. Delivered(p + AtHand) \in RequestType /\ SameHead(request, Delivered(p + AtHand))
    BY <1>1, <2>2, DeliveredOK, SpanTable
  <2>4. \A b \in Rest : RequestOK(b, request) /\ RequestOK(b, Delivered(p + AtHand))
    BY <1>1, <2>3, Here, RestNodes, FollowsOK, SameHeadOK
  <2>5. \A b \in Rest : Move(b, AtHand, Consumed, request) => Typed'
    BY <1>1, <2>1, <2>4, MoveTyped, RestNodes
  <2> QED
    BY <2>1, <2>2, <2>4, <2>5, FieldsUpdated
<1>2. CASE ConsumeContentLength1
  <2>1. "consume_content_length_1" \in BodyNodes /\ At("consume_content_length_1")
    BY <1>2 DEF ConsumeContentLength1, BodyNodes
  <2>2. CASE Move("consume_content_length_1", AtHand, Consumed, request)
    BY <1>1, <2>1, <2>2, RestNodes
  <2>3. CASE MessageComplete(AtHand, [Consumed EXCEPT !.span = NoSpan], Delivered(p + AtHand))
    BY <1>1, <2>1, <2>3, MessageEndTyped
  <2> QED
    BY <1>2, <2>2, <2>3 DEF ConsumeContentLength1
<1>3. CASE ConsumeContentLength
  <2>1. "consume_content_length" \in BodyNodes /\ At("consume_content_length")
    BY <1>3 DEF ConsumeContentLength, BodyNodes
  <2>2. CASE Move("consume_content_length", AtHand, Consumed, request)
    BY <1>1, <2>1, <2>2, RestNodes
  <2>3. CASE Move("chunk_data_almost_done", AtHand, [Consumed EXCEPT !.span = NoSpan],
                  Delivered(p + AtHand))
    BY <1>1, <2>1, <2>3, MoveTyped, RestNodes
  <2> QED
    BY <1>3, <2>2, <2>3 DEF ConsumeContentLength
<1> QED
  BY <1>2, <1>3

LEMMA AddHexByteTyped ==
  ASSUME Typed, NEW a, At(a), HexByte, AddHexByte
  PROVE  Typed'
<1>1. Value(Byte) \in 0 .. 15
  BY Values DEF HexByte
<1>2. FieldsOK(MulAdd(16, Value(Byte)), p)
  BY <1>1, MulAddTyped
<1>3. CASE Move("chunk_size", 1, MulAdd(16, Value(Byte)), request)
  BY <1>2, <1>3, StayTyped, RestNodes
<1>4. CASE Fail("INVALID_CHUNK_SIZE")
  BY <1>4, FailTyped DEF Errors
<1> QED
  BY <1>3, <1>4 DEF AddHexByte

LEMMA BodyTyped ==
  ASSUME Typed, ParserInv, BodyStep PROVE Typed'
<1>1. CASE ConsumeContentLength1 \/ ConsumeContentLength
  BY <1>1, ConsumeTyped
<1>2. CASE ChunkSizeDigit
  BY <1>2, AddHexByteTyped, FailTyped DEF ChunkSizeDigit, Errors
<1>3. CASE ChunkSize
  BY <1>3, AddHexByteTyped, EatTyped, RestNodes DEF ChunkSize
<1>4. CASE ChunkSizeOtherwise
  BY <1>4, EatTyped, FailTyped, RestNodes DEF ChunkSizeOtherwise, Errors
<1>5. CASE ChunkSizeAlmostDone
  <2>1. /\ At("chunk_size_almost_done") /\ p \in Nat /\ p + 1 \in Nat
        /\ FieldsOK(parser, p)
    BY <1>5, Here DEF ChunkSizeAlmostDone
  <2>2. CASE Move("header_field_start", 1,
                  [parser EXCEPT !.flags = @ \cup {"F_TRAILING"}], request)
    <3>1. parser.flags \cup {"F_TRAILING"} \in SUBSET Flags
      BY <2>1 DEF FieldsOK, ParserType, Flags
    <3>2. FieldsOK([parser EXCEPT !.flags = @ \cup {"F_TRAILING"}], p)
      BY <2>1, <3>1, FieldsUpdated
    <3> QED
      BY <2>1, <2>2, <3>2, StayTyped, RestNodes
  <2>3. CASE Move("consume_content_length", 1, Spanned("on_body", p + 1), request)
    <3>1. FieldsOK(Spanned("on_body", p + 1), p + 1)
      BY <2>1, SpannedTyped DEF Callbacks
    <3> QED
      BY <2>1, <2>3, <3>1, PassTyped, RestNodes
  <2>4. CASE Fail("STRICT")
    BY <2>1, <2>4, FailTyped DEF Errors
  <2> QED
    BY <1>5, <2>2, <2>3, <2>4 DEF ChunkSizeAlmostDone
<1>6. CASE ChunkExtensions
  BY <1>6, EatTyped, FailTyped, RestNodes DEF ChunkExtensions, Errors
<1>7. CASE ChunkExtensionName
  BY <1>7, EatTyped, FailTyped, RestNodes DEF ChunkExtensionName, Errors
<1>8. CASE ChunkExtensionValue
  BY <1>8, EatTyped, FailTyped, RestNodes DEF ChunkExtensionValue, Errors
<1>9. CASE ChunkExtensionQuotedValue
  BY <1>9, EatTyped, FailTyped, RestNodes DEF ChunkExtensionQuotedValue, Errors
<1>10. CASE ChunkExtensionQuotedPair
  BY <1>10, EatTyped, FailTyped, RestNodes DEF ChunkExtensionQuotedPair, Errors
<1>11. CASE ChunkExtensionQuotedValueDone
  BY <1>11, EatTyped, FailTyped, RestNodes DEF ChunkExtensionQuotedValueDone, Errors
<1>12. CASE ChunkDataAlmostDone
  BY <1>12, EatTyped, FailTyped, RestNodes DEF ChunkDataAlmostDone, Errors
<1>13. CASE ChunkDataAlmostDone1
  <2>1. At("chunk_data_almost_done_1") /\ p \in Nat /\ FieldsOK(parser, p)
    BY <1>13, Here DEF ChunkDataAlmostDone1
  <2>2. CASE Move("chunk_size_digit", 1, [parser EXCEPT !.content_length = 0], request)
    <3>1. FieldsOK([parser EXCEPT !.content_length = 0], p)
      BY <2>1, FieldsUpdated, NoLength
    <3> QED
      BY <2>1, <2>2, <3>1, StayTyped, RestNodes
  <2> QED
    BY <1>13, <2>1, <2>2, FailTyped DEF ChunkDataAlmostDone1, Errors
<1>14. CASE Closed
  BY <1>14, EatTyped, FailTyped, RestNodes DEF Closed, Errors
<1> QED
  BY <1>1, <1>2, <1>3, <1>4, <1>5, <1>6, <1>7, <1>8, <1>9, <1>10, <1>11, <1>12, <1>13,
     <1>14 DEF BodyStep

(* Every step of the parser.                                               *)
LEMMA ParserStepTyped ==
  ASSUME Typed, ParserInv, ParserStep PROVE Typed'
  BY RequestLineTyped, HeaderTyped, HeadersAlmostDoneTyped, BodyTyped DEF ParserStep

----------------------------------------------------------------------------
(* The calls of RequestParser.                                             *)

LEMMA ExecuteTyped ==
  ASSUME Typed, NEW n \in Nat, Execute(n) PROVE Typed'
<1>1. /\ p \in Nat /\ endp \in Nat /\ 1 <= p /\ p <= endp /\ endp <= endp + n
      /\ endp + n \in 1 .. Len(stream) + 1
  <2>1. stream \in Seq(Bytes)
    BY Alphabet DEF Typed
  <2>2. Len(stream) \in Nat
    BY <2>1, LenProperties
  <2> QED
    BY <2>2 DEF Typed, Within, Execute
<1>2. FieldsOK(Resumed, endp)
  <2>1. CASE parser.span = NoSpan \/ parser.error # "OK"
    BY <1>1, <2>1, FieldsLater DEF Resumed, Typed
  <2>2. CASE parser.span # NoSpan /\ parser.error = "OK"
    <3>1. /\ parser \in ParserType /\ parser.span.cb \in Callbacks
          /\ endp \in 1 .. endp
      BY <1>1, <2>2 DEF Typed, FieldsOK
    <3> DEFINE q == [parser EXCEPT !.span.from = endp]
    <3>2. q \in ParserType /\ q.span.cb = parser.span.cb /\ q.span.from = endp
      BY <1>1, <3>1 DEF ParserType
    <3>3. Resumed = q
      BY <2>2 DEF Resumed
    <3> HIDE DEF q
    <3> QED
      BY <3>1, <3>2, <3>3 DEF FieldsOK
  <2> QED
    BY <2>1, <2>2
<1>3. Within(p, endp)'
  BY <1>1 DEF Execute, Within
<1>4. FieldsOK(parser, p)' /\ RequestOK(cur, request)'
  BY <1>2 DEF Execute, Typed, FieldsOK, RequestOK
<1> QED
  BY <1>3, <1>4 DEF Execute, Typed

LEMMA ReturnsTyped ==
  ASSUME Typed, ExecuteReturns PROVE Typed'
<1>1. p \in Int /\ p <= Len(stream) + 1
  <2>1. stream \in Seq(Bytes)
    BY Alphabet DEF Typed
  <2>2. Len(stream) \in Nat
    BY <2>1, LenProperties
  <2> QED
    BY <2>2 DEF Typed, Within
<1>2. RequestOK(cur, request')
  <2>1. CASE request' = request
    BY <2>1 DEF Typed
  <2>2. CASE parser.span # NoSpan /\ request' = Delivered(p)
    <3>1. request' \in RequestType /\ SameHead(request, request')
      BY <1>1, <2>2, DeliveredWhole
    <3> QED
      BY <3>1 DEF Typed, RequestOK, SameHead
  <2> QED
    BY <2>1, <2>2 DEF ExecuteReturns
<1>3. Within(p, endp)' /\ FieldsOK(parser, p)' /\ RequestOK(cur, request)'
  BY <1>2 DEF ExecuteReturns, Typed, Within, FieldsOK, RequestOK
<1> QED
  BY <1>3 DEF ExecuteReturns, Typed

(* The fields of a new parser, and of one that is reset.                   *)
LEMMA ResetTyped ==
  /\ FieldsOK(ResetParser, 1)
  /\ \A n \in Nat : 1 <= n => FieldsOK(ResetParser, n)
  /\ \A b \in BOOLEAN : RequestOK("start", [ResetRequest EXCEPT !.aborted = b])
  /\ RequestOK("start", ResetRequest)
<1>1. ResetParser \in ParserType /\ ResetParser.span = NoSpan
  BY NoLength, EmptySeq DEF ResetParser, ParserType, NoSpan, Errors, HeaderStates, Methods,
                            HttpMethods
<1>2. ResetRequest \in RequestType
  BY EmptySeq DEF ResetRequest, RequestType
<1>3. "start" \notin AfterMethod /\ "start" \notin AfterUrl
  BY LineNodes DEF Rest
<1>4. \A b \in BOOLEAN : RequestOK("start", [ResetRequest EXCEPT !.aborted = b])
  BY <1>2, <1>3, FS_EmptySet DEF RequestOK, RequestType, ResetRequest
<1> QED
  BY <1>1, <1>2, <1>3, <1>4, FS_EmptySet DEF FieldsOK, RequestOK, ResetRequest

LEMMA ResetStepTyped ==
  ASSUME Typed, Reset PROVE Typed'
<1>1. p \in Nat /\ 1 <= p
  BY DEF Typed, Within
<1>2. request.aborted \in BOOLEAN
  BY DEF Typed, RequestOK, RequestType
<1>3. FieldsOK(parser, p)' /\ RequestOK(cur, request)' /\ Within(p, endp)'
  BY <1>1, <1>2, ResetTyped DEF Reset, Typed, FieldsOK, RequestOK, Within
<1> QED
  BY <1>3 DEF Reset, Typed, Nodes

----------------------------------------------------------------------------
(* The channel.                                                            *)

(* Its variables other than those of the replies (RepliesInv).             *)
ChannelTyped ==
  /\ phase \in Phases
  /\ executing => phase = "execute"
  /\ info \in BOOLEAN /\ line_sent \in BOOLEAN
  /\ override_remote_buf \in Seq(Unit) /\ to_local \in Seq(Unit)
  /\ replied \in 0 .. Replies[stream]

TypedInv == ParserInv /\ RepliesInv /\ Typed /\ ChannelTyped

(* The units that the local service is sent.                               *)
LEMMA UnitsTyped ==
  /\ Crlf \in Unit
  /\ \A s \in Seq(Bytes) : Data(s) \in Seq(Unit)
  /\ \A h \in [name : Seq(Bytes), value : Seq(Bytes)] : Header(Overridden(h)) \in Unit
<1>1. Crlf \in Unit
  BY DEF Unit
<1>2. ASSUME NEW s \in Seq(Bytes) PROVE Data(s) \in Seq(Unit)
  <2>1. Len(s) \in Nat /\ \A i \in 1 .. Len(s) : s[i] \in Bytes
    BY LenProperties, ElementOfSeq
  <2>2. \A i \in 1 .. Len(s) : [kind |-> "data", byte |-> s[i]] \in Unit
    BY <2>1 DEF Unit
  <2> QED
    BY <2>1, <2>2 DEF Data
<1>3. ASSUME NEW h \in [name : Seq(Bytes), value : Seq(Bytes)]
      PROVE  Header(Overridden(h)) \in Unit
  <2> DEFINE values == {o.value : o \in {o \in Overrides : LowerAll(o.name) = LowerAll(h.name)}}
  <2>1. \A o \in Overrides : o.value \in Seq(Bytes)
    BY HttpAssumption DEF HttpAssumption, Overrides
  <2>2. values \subseteq Seq(Bytes)
    BY <2>1
  <2>3. Overridden(h) = IF values = {} THEN h ELSE [h EXCEPT !.value = CHOOSE v \in values : TRUE]
    BY DEF Overridden
  <2> HIDE DEF values
  <2>4. values # {} => (CHOOSE v \in values : TRUE) \in Seq(Bytes)
    BY <2>2
  <2>5. Overridden(h) \in [name : Seq(Bytes), value : Seq(Bytes)]
    BY <2>3, <2>4
  <2> QED
    BY <2>5 DEF Header, Unit
<1> QED
  BY <1>1, <1>2, <1>3

LEMMA LineTyped ==
  ASSUME Typed, request.version # {}
  PROVE  Line \in Unit
<1>1. /\ request.method \subseteq Seq(Bytes) /\ request.method # {}
      /\ request.url \subseteq Seq(Bytes) /\ request.url # {}
      /\ request.version \subseteq Seq(Bytes)
  BY DEF Typed, RequestOK, RequestType
<1>2. /\ Unwrapped(request.method) \in Seq(Bytes)
      /\ Unwrapped(request.url) \in Seq(Bytes)
      /\ Unwrapped(request.version) \in Seq(Bytes)
  BY <1>1 DEF Unwrapped
<1> QED
  BY <1>2 DEF Line, Unit

LEMMA RegroupUnits == \A s, t, u \in Seq(Unit) : (s \o t) \o u = s \o (t \o u)
<1>1. Associative(Unit)
  BY Associates, Zenon
<1> QED
  BY <1>1, Zenon DEF Associative

(* A write to the local socket moves units on, in their order.             *)
LEMMA WriteLocalKeeps ==
  ASSUME ChannelTyped, WriteLocal
  PROVE  /\ override_remote_buf' \in Seq(Unit) /\ to_local' \in Seq(Unit)
         /\ Forwarded' = Forwarded
<1>1. PICK n \in 1 .. Len(override_remote_buf) :
        /\ to_local' = to_local \o SubSeq(override_remote_buf, 1, n)
        /\ override_remote_buf'
             = SubSeq(override_remote_buf, n + 1, Len(override_remote_buf))
  BY DEF WriteLocal
<1>2. PICK a \in Seq(Unit), b \in Seq(Unit) :
        a \o b = override_remote_buf /\ to_local' = to_local \o a /\ override_remote_buf' = b
  BY <1>1, Split DEF ChannelTyped
<1>3. to_local \in Seq(Unit)
  BY DEF ChannelTyped
<1>4. (to_local \o a) \o b = to_local \o (a \o b)
  BY <1>3, RegroupUnits, Zenon
<1>5. to_local \o a \in Seq(Unit)
  BY <1>3, ConcatProperties
<1> QED
  BY <1>2, <1>4, <1>5 DEF Forwarded

(* What TakeHeaders puts into the buffer.                                  *)
LEMMA HeadersTyped ==
  ASSUME Typed, NEW hs \in SetToSeqs(request.headers)
  PROVE  /\ [i \in DOMAIN hs |-> Header(Overridden(hs[i]))] \in Seq(Unit)
         /\ \A i \in DOMAIN hs : Header(Overridden(hs[i])).kind = "header"
<1>1. Cardinality(request.headers) \in Nat
  BY FS_CardinalityType DEF Typed, RequestOK
<1>2. hs \in [1 .. Cardinality(request.headers) -> request.headers]
  BY DEF SetToSeqs
<1>3. request.headers \subseteq [name : Seq(Bytes), value : Seq(Bytes)]
  BY DEF Typed, RequestOK, RequestType
<1>4. DOMAIN hs = 1 .. Cardinality(request.headers)
      /\ \A i \in DOMAIN hs : Header(Overridden(hs[i])) \in Unit
  BY <1>2, <1>3, UnitsTyped
<1>5. \A i \in DOMAIN hs : Header(Overridden(hs[i])).kind = "header"
  BY DEF Header
<1> DEFINE N == Cardinality(request.headers)
           U(i) == Header(Overridden(hs[i]))
<1>6. [i \in 1 .. N |-> U(i)] \in Seq(Unit)
  <2> HIDE DEF N, U
  <2>1. N \in Nat /\ \A i \in 1 .. N : U(i) \in Unit
    BY <1>1, <1>4 DEF N, U
  <2> QED
    BY <2>1
<1> QED
  BY <1>4, <1>5, <1>6

(* A step of the parser neither reads more of the stream nor returns.      *)
Steady == UNCHANGED <<stream, endp, executing>>

LEMMA ParserIsSteady == ParserStep => Steady
<1>0. ASSUME NEW node, NEW k, NEW q, NEW r, Move(node, k, q, r) PROVE Steady
  BY <1>0 DEF Move, Steady
<1>1. CASE RequestLineStep
  BY <1>0, <1>1
     DEF RequestLineStep, Start, AfterStartReq, ReqFirstSpaceBeforeUrl,
         ReqSpacesBeforeUrl, UrlEntryConnect, UrlEntryNormal, UrlStart, UrlSchema,
         UrlSchemaDelim, UrlSchemaDelim1, UrlServer, UrlServerWithAt, UrlPath,
         UrlQueryOrFragment, UrlQuery, UrlFragment, UrlSkipToHttp, UrlToHttp,
         UrlSkipToHttp09, UrlSkipLfToHttp09, UrlSkipLfToHttp091, UrlToHttp09,
         ReqHttpStart, ReqHttpMajor, ReqHttpDot, ReqHttpMinor, ReqPriUpgrade,
         ReqHttpComplete, ReqHttpCompleteCrlf, Eat, Goto, Fail, EndSpan,
         MethodComplete, UrlEntry, UrlEnds, VersionComplete
<1>2. CASE HeaderStep
  BY <1>0, <1>2
     DEF HeaderStep, HeadersStart, HeaderFieldStart, HeaderField, HeaderFieldColon,
         HeaderFieldGeneral, HeaderValueDiscardWs, HeaderValueDiscardWsAlmostDone,
         HeaderValueDiscardLws, HeaderValue, HeaderValueOtherwise,
         HeaderValueAlmostDone, HeaderValueLws, HeaderValueConnection,
         HeaderValueConnectionWs, HeaderValueConnectionToken, HeaderValueContentLength,
         HeaderValueContentLengthWs, HeaderValueTeChunked, HeaderValueTeChunkedLast,
         HeaderValueTeToken, HeaderValueTeTokenOws, HeadersAlmostDone, Eat, Goto, Fail,
         EndSpan, FailAfterSpan, FieldComplete, BeginValue, HeadersComplete,
         MessageComplete, AfterMessageComplete, Paused
<1>3. CASE BodyStep
  BY <1>0, <1>3
     DEF BodyStep, ConsumeContentLength1, ConsumeContentLength, ChunkSizeDigit,
         ChunkSize, ChunkSizeOtherwise, ChunkSizeAlmostDone, ChunkExtensions,
         ChunkExtensionName, ChunkExtensionValue, ChunkExtensionQuotedValue,
         ChunkExtensionQuotedPair, ChunkExtensionQuotedValueDone, ChunkDataAlmostDone,
         ChunkDataAlmostDone1, Closed, Eat, Goto, Fail, AddHexByte, MessageComplete,
         AfterMessageComplete, Paused
<1> QED
  BY <1>1, <1>2, <1>3 DEF ParserStep

(* Every step of the channel.                                              *)
LEMMA NextTyped ==
  ASSUME TypedInv, [Next]_vars PROVE Typed' /\ ChannelTyped'
<1>1. Typed /\ ChannelTyped /\ ParserInv
  BY DEF TypedInv
<1>2. ASSUME UNCHANGED parserVars PROVE Typed'
  BY <1>1, <1>2 DEF parserVars, Typed, Within, FieldsOK, RequestOK
<1>3. CASE Parse
  <2>1. Typed'
    BY <1>1, <1>3, ParserStepTyped, ReturnsTyped DEF Parse
  <2>2. stream' = stream /\ phase = "execute"
    BY <1>3, ParserIsSteady DEF Parse, ExecuteReturns, Steady
  <2> QED
    BY <1>1, <1>3, <2>1, <2>2 DEF Parse, ChannelTyped, channelVars
<1>4. CASE ReadRemote
  <2>1. CASE phase' = "panicked" /\ UNCHANGED parserVars
    BY <1>1, <1>2, <1>4, <2>1 DEF ReadRemote, ChannelTyped, parserVars, Phases
  <2>2. CASE phase' = "execute" /\ \E n \in 1 .. Len(stream) : Execute(n)
    <3>1. stream \in Seq(Bytes)
      BY <1>1, Alphabet DEF Typed
    <3>2. \A n \in 1 .. Len(stream) : n \in Nat
      BY <3>1, LenProperties
    <3>3. Typed' /\ stream' = stream
      BY <1>1, <2>2, <3>2, ExecuteTyped DEF Execute
    <3> QED
      BY <1>1, <1>4, <2>2, <3>3 DEF ReadRemote, ChannelTyped, Phases
  <2> QED
    BY <1>4, <2>1, <2>2 DEF ReadRemote
<1>5. CASE Parsed
  <2>1. Typed' /\ stream' = stream /\ executing' = executing /\ ~executing
    BY <1>2, <1>5 DEF Parsed, parserVars
  <2>2. override_remote_buf' \in Seq(Unit)
    <3>1. CASE override_remote_buf' = Append(override_remote_buf, Line) /\ LineDue
      BY <1>1, <3>1, LineTyped, AppendProperties DEF LineDue, ChannelTyped
    <3>2. CASE override_remote_buf' = override_remote_buf
      BY <1>1, <3>2 DEF ChannelTyped
    <3> QED
      BY <1>5, <3>1, <3>2 DEF Parsed
  <2>3. line_sent' \in BOOLEAN /\ phase' \in Phases
    BY <1>1, <1>5 DEF Parsed, ChannelTyped, Phases
  <2> QED
    BY <1>1, <1>5, <2>1, <2>2, <2>3 DEF Parsed, ChannelTyped
<1>6. CASE WriteLine \/ WriteHeaders \/ (FlushLocal /\ WriteLocal)
  <2>1. WriteLocal /\ UNCHANGED <<parserVars, info, line_sent, replied>>
        /\ phase \in {"write_line", "write_headers", "flush_local"}
        /\ phase' \in {"headers", "head_end", "flush_local", "flush_remote"}
    BY <1>6 DEF WriteLine, WriteHeaders, FlushLocal
  <2>2. override_remote_buf' \in Seq(Unit) /\ to_local' \in Seq(Unit)
    BY <1>1, <2>1, WriteLocalKeeps
  <2>3. Typed' /\ stream' = stream /\ executing' = executing
    BY <1>2, <2>1 DEF parserVars
  <2> QED
    BY <1>1, <2>1, <2>2, <2>3 DEF ChannelTyped, Phases
<1>7. CASE TakeHeaders
  <2>1. /\ request' = [request EXCEPT !.headers = {}]
        /\ UNCHANGED <<stream, p, endp, executing, cur, parser>>
    BY <1>7 DEF TakeHeaders
  <2>2. RequestOK(cur, request')
    BY <1>1, <2>1, FS_EmptySet DEF Typed, RequestOK, RequestType
  <2>3. Typed'
    BY <1>1, <2>1, <2>2 DEF Typed, Within, FieldsOK, RequestOK
  <2>4. override_remote_buf' \in Seq(Unit)
    <3>1. CASE override_remote_buf' = override_remote_buf
      BY <1>1, <3>1 DEF ChannelTyped
    <3>2. CASE \E hs \in SetToSeqs(request.headers) :
                 override_remote_buf' = override_remote_buf
                   \o [i \in DOMAIN hs |-> Header(Overridden(hs[i]))]
      <4>1. PICK u \in Seq(Unit) : override_remote_buf' = override_remote_buf \o u
        BY <1>1, <3>2, HeadersTyped
      <4> QED
        BY <1>1, <4>1, ConcatProperties DEF ChannelTyped
    <3> QED
      BY <1>7, <3>1, <3>2 DEF TakeHeaders
  <2> QED
    BY <1>1, <1>7, <2>1, <2>3, <2>4 DEF TakeHeaders, ChannelTyped, Phases
<1>8. CASE EndOfHead
  <2>1. CASE phase' = "select" /\ UNCHANGED <<parserVars, override_remote_buf>>
    BY <1>1, <1>2, <1>8, <2>1 DEF EndOfHead, ChannelTyped, parserVars, Phases
  <2>2. CASE /\ override_remote_buf' =
                  Append(override_remote_buf, Crlf) \o Data(request.buf["on_body"])
             /\ Reset /\ phase' = "flush_local"
    <3>1. Typed' /\ stream' = stream /\ executing' = executing /\ ~executing
      BY <1>1, <2>2, ResetStepTyped DEF Reset
    <3>2. request.buf["on_body"] \in Seq(Bytes)
      BY <1>1 DEF Typed, RequestOK, RequestType, Callbacks
    <3>3. Append(override_remote_buf, Crlf) \in Seq(Unit)
      BY <1>1, UnitsTyped, AppendProperties DEF ChannelTyped
    <3>4. override_remote_buf' \in Seq(Unit)
      BY <2>2, <3>2, <3>3, UnitsTyped, ConcatProperties
    <3> QED
      BY <1>1, <1>8, <2>2, <3>1, <3>4 DEF EndOfHead, ChannelTyped, Phases
  <2> QED
    BY <1>8, <2>1, <2>2 DEF EndOfHead
<1>9. CASE ReadLocal
  <2>1. Typed' /\ stream' = stream /\ executing' = executing /\ phase = "select"
    BY <1>2, <1>9 DEF ReadLocal, parserVars
  <2>2. replied' \in 0 .. Replies[stream]
    <3>1. replied \in Nat /\ replied' \in replied + 1 .. Replies[stream]
      BY <1>1, <1>9 DEF ReadLocal, TypedInv, RepliesInv
    <3>2. Replies[stream] \in Nat
      BY <1>1, HttpAssumption DEF HttpAssumption, Typed
    <3> QED
      BY <3>1, <3>2
  <2> QED
    BY <1>1, <1>9, <2>1, <2>2 DEF ReadLocal, ChannelTyped, Phases
<1>10. CASE CopyToLocal
  <2>1. Len(stream) \in Nat /\ stream \in Seq(Bytes) /\ endp \in Nat /\ 1 <= endp
        /\ p \in Nat /\ 1 <= p /\ p <= endp /\ endp <= Len(stream)
    <3>1. stream \in Seq(Bytes)
      BY <1>1, Alphabet DEF Typed
    <3>2. Len(stream) \in Nat
      BY <3>1, LenProperties
    <3> QED
      BY <1>1, <1>10, <3>1, <3>2 DEF Typed, Within, CopyToLocal
  <2>2. stream[endp] \in Bytes
    BY <2>1, ElementOfSeq
  <2>3. <<stream[endp]>> \in Seq(Bytes)
    BY <2>2
  <2>4. to_local' \in Seq(Unit)
    BY <1>1, <1>10, <2>3, UnitsTyped, ConcatProperties DEF CopyToLocal, ChannelTyped
  <2>5. Typed'
    <3>1. Within(p, endp)' /\ stream' = stream
      BY <1>10, <2>1 DEF CopyToLocal, Within
    <3>2. FieldsOK(parser, endp + 1)
      BY <1>1, <2>1, FieldsLater DEF Typed
    <3>3. FieldsOK(parser, p)' /\ RequestOK(cur, request)'
      BY <1>1, <1>10, <3>2 DEF CopyToLocal, Typed, FieldsOK, RequestOK
    <3> QED
      BY <1>1, <1>10, <3>1, <3>3 DEF CopyToLocal, Typed
  <2> QED
    BY <1>1, <1>10, <2>4, <2>5 DEF CopyToLocal, ChannelTyped, Phases
<1>11. CASE CopyToRemote
  <2>1. Typed' /\ stream' = stream /\ executing' = executing
    BY <1>2, <1>11 DEF CopyToRemote, parserVars
  <2>2. replied' \in 0 .. Replies[stream]
    <3>1. replied \in Nat /\ replied < Replies[stream] /\ replied' = replied + 1
      BY <1>1, <1>11 DEF CopyToRemote, TypedInv, RepliesInv
    <3>2. Replies[stream] \in Nat
      BY <1>1, HttpAssumption DEF HttpAssumption, Typed
    <3> QED
      BY <3>1, <3>2
  <2> QED
    BY <1>1, <1>11, <2>1, <2>2 DEF CopyToRemote, ChannelTyped
<1>12. CASE \/ ForwardReply \/ FlushRemote \/ SocketFails
            \/ (FlushLocal /\ ~WriteLocal) \/ UNCHANGED vars
  <2> DEFINE Rests ==
               /\ UNCHANGED <<parserVars, info, line_sent, override_remote_buf, to_local, replied>>
               /\ phase' = phase \/ (phase # "execute" /\ phase' \in Phases)
  <2>1. Rests
    <3>1. CASE ForwardReply
      BY <3>1 DEF ForwardReply, Phases
    <3>2. CASE FlushRemote
      BY <3>2 DEF FlushRemote, Phases
    <3>3. CASE SocketFails
      BY <3>3 DEF SocketFails, Phases
    <3>4. CASE FlushLocal /\ ~WriteLocal
      BY <3>4 DEF FlushLocal, Phases
    <3>5. CASE UNCHANGED vars
      <4>1. UNCHANGED <<parserVars, info, line_sent, override_remote_buf, to_local, replied>>
        BY <3>5 DEF vars, channelVars
      <4>2. phase' = phase
        BY <3>5 DEF vars, channelVars
      <4> QED
        BY <4>1, <4>2
    <3> QED
      BY <1>12, <3>1, <3>2, <3>3, <3>4, <3>5
  <2>2. Typed' /\ stream' = stream /\ executing' = executing
    BY <1>2, <2>1 DEF parserVars
  <2> QED
    BY <1>1, <2>1, <2>2 DEF ChannelTyped
<1> QED
  BY <1>3, <1>4, <1>5, <1>6, <1>7, <1>8, <1>9, <1>10, <1>11, <1>12 DEF Next, TaskStep

(* The types, with what they rest on, hold throughout.                     *)
LEMMA InitTyped == Init => TypedInv
<1> SUFFICES ASSUME Init PROVE TypedInv
  OBVIOUS
<1>1. ParserInv /\ RepliesInv
  <2>1. <<>> \o <<>> = [i \in 1 .. 0 |-> i]
    OBVIOUS
  <2> QED
    BY <2>1, ResetGood, EmptySeq DEF Init, ParserInit, ParserInv, RepliesInv, RepliesInOrder
<1>2. Typed
  <2>1. stream \in Seq(Bytes)
    BY Alphabet DEF Init, ParserInit
  <2>2. Within(p, endp)
    BY <2>1, LenProperties DEF Init, ParserInit, Within
  <2> QED
    BY <2>2, ResetTyped DEF Init, ParserInit, Typed, Nodes
<1>3. ChannelTyped
  <2>1. Replies[stream] \in Nat /\ info \in BOOLEAN
    BY HttpAssumption DEF HttpAssumption, Init, ParserInit
  <2> QED
    <3>1. replied \in 0 .. Replies[stream]
      BY <2>1 DEF Init
    <3>2. <<>> \in Seq(Unit)
      BY EmptySeq
    <3> QED
      BY <2>1, <3>1, <3>2 DEF Init, ParserInit, ChannelTyped, Phases
<1> QED
  BY <1>1, <1>2, <1>3 DEF TypedInv

LEMMA TypedInvariance == Spec => []TypedInv
<1>1. TypedInv /\ [Next]_vars => TypedInv'
  BY NextTyped, NextGood, NextKeepsReplies DEF TypedInv
<1> QED
  BY <1>1, InitTyped, PTL DEF Spec

(* Whatever a visitor sends and however it is cut, every field of the      *)
(* parser and every buffer of the channel keeps its type: in particular a  *)
(* span lies in the bytes received, and the line of a request is put       *)
(* together only when its method, url and version are there                *)
(* (client.rs:469-476 unwraps them).                                       *)
THEOREM HttpTypes == Spec => []HttpTypeOK
<1>1. TypedInv => HttpTypeOK
  BY DEF TypedInv, Typed, ChannelTyped, RepliesInv, HttpTypeOK, ParserTypeOK, Within,
         FieldsOK, RequestOK
<1> QED
  BY <1>1, TypedInvariance, PTL

-----------------------------------------------------------------------------
(* The head that the local service gets.                                   *)

Rank == [line |-> 1, header |-> 1, crlf |-> 2, data |-> 3]
Precedes(k, l) ==
  \/ Rank[k] < Rank[l]
  \/ Rank[k] = Rank[l] /\ {k, l} \notin {{"line"}, {"crlf"}}
MayPrecede(a, b) == Precedes(a.kind, b.kind)
Orderly(units) == \A i, j \in DOMAIN units : i < j => MayPrecede(units[i], units[j])
HasLine(units) == \E i \in DOMAIN units : units[i].kind = "line"

(* In the loop nothing but the line and headers has been forwarded, and    *)
(* is_request_line_send says whether the line has.  Except between the     *)
(* parser and the line, the line of a request whose version is known is    *)
(* among it.  What the flush of the local socket leaves behind is empty.   *)
Loop ==
  {"select", "execute", "write_line", "headers", "write_headers", "head_end",
   "write_local"}
HeadInv ==
  /\ Orderly(Forwarded)
  /\ phase \in Loop =>
       /\ \A i \in DOMAIN Forwarded : Forwarded[i].kind \in {"line", "header"}
       /\ HasLine(Forwarded) <=> line_sent
  /\ phase \in Loop \ {"execute"} /\ request.version # {} => line_sent
  /\ phase \in {"flush_remote", "copy"} => override_remote_buf = <<>>

LEMMA Precedence ==
  /\ Precedes("header", "line")
  /\ \A k \in {"line", "header"} : Precedes(k, "header") /\ Precedes(k, "crlf")
  /\ \A k \in {"line", "header", "crlf", "data"} : Precedes(k, "data")
<1>1. /\ Rank["line"] = 1 /\ Rank["header"] = 1
      /\ Rank["crlf"] = 2 /\ Rank["data"] = 3
  BY DEF Rank
<1>2. \A k, l \in {"line", "header", "crlf", "data"} :
        Rank[k] < Rank[l] => Precedes(k, l)
  BY DEF Precedes
<1>3. \A k, l : (Rank[k] = Rank[l] /\ (k \in {"header", "data"} \/ l \in {"header", "data"}))
        => Precedes(k, l)
  <2> TAKE k, l
  <2>1. (k \in {"header", "data"} \/ l \in {"header", "data"}) =>
          ({k, l} # {"line"} /\ {k, l} # {"crlf"})
    OBVIOUS
  <2> QED
    BY <2>1 DEF Precedes
<1> QED
  BY <1>1, <1>2, <1>3

LEMMA OrderlyConcat ==
  ASSUME NEW s \in Seq(Unit), NEW t \in Seq(Unit), Orderly(s), Orderly(t),
         \A i \in DOMAIN s : \A j \in DOMAIN t : MayPrecede(s[i], t[j])
  PROVE  Orderly(s \o t)
<1>1. /\ Len(s) \in Nat /\ Len(t) \in Nat
      /\ DOMAIN s = 1 .. Len(s) /\ DOMAIN t = 1 .. Len(t)
  BY LenProperties
<1>2. /\ DOMAIN (s \o t) = 1 .. Len(s) + Len(t)
      /\ \A i \in 1 .. Len(s) : (s \o t)[i] = s[i]
      /\ \A i \in Len(s) + 1 .. Len(s) + Len(t) : (s \o t)[i] = t[i - Len(s)]
  <2>1. s \o t \in Seq(Unit) /\ Len(s \o t) = Len(s) + Len(t)
        /\ \A i \in 1 .. Len(s) + Len(t) :
             (s \o t)[i] = IF i <= Len(s) THEN s[i] ELSE t[i - Len(s)]
    BY ConcatProperties
  <2> QED
    BY <1>1, <2>1, LenProperties
<1> SUFFICES ASSUME NEW i \in DOMAIN (s \o t), NEW j \in DOMAIN (s \o t), i < j
             PROVE  MayPrecede((s \o t)[i], (s \o t)[j])
  BY DEF Orderly
<1>3. CASE j <= Len(s)
  BY <1>1, <1>2, <1>3 DEF Orderly
<1>4. CASE i > Len(s)
  <2>1. i - Len(s) \in DOMAIN t /\ j - Len(s) \in DOMAIN t /\ i - Len(s) < j - Len(s)
    BY <1>1, <1>2, <1>4
  <2>2. (s \o t)[i] = t[i - Len(s)] /\ (s \o t)[j] = t[j - Len(s)]
    BY <1>1, <1>2, <1>4
  <2> QED
    BY <2>1, <2>2 DEF Orderly
<1>5. CASE i <= Len(s) /\ j > Len(s)
  <2>1. i \in DOMAIN s /\ j - Len(s) \in DOMAIN t
    BY <1>1, <1>2, <1>5
  <2>2. (s \o t)[i] = s[i] /\ (s \o t)[j] = t[j - Len(s)]
    BY <1>1, <1>2, <1>5
  <2> QED
    BY <2>1, <2>2
<1> QED
  BY <1>1, <1>2, <1>3, <1>4, <1>5

(* The kinds of units put behind others.                                   *)
LEMMA KindsConcat ==
  ASSUME NEW s \in Seq(Unit), NEW t \in Seq(Unit), NEW K,
         \A i \in DOMAIN s : s[i].kind \in K, \A i \in DOMAIN t : t[i].kind \in K
  PROVE  \A i \in DOMAIN (s \o t) : (s \o t)[i].kind \in K
<1>1. s \o t \in Seq(Unit) /\ Len(s \o t) = Len(s) + Len(t)
      /\ \A i \in 1 .. Len(s) + Len(t) :
           (s \o t)[i] = IF i <= Len(s) THEN s[i] ELSE t[i - Len(s)]
  BY ConcatProperties
<1>2. /\ Len(s) \in Nat /\ Len(t) \in Nat
      /\ DOMAIN s = 1 .. Len(s) /\ DOMAIN t = 1 .. Len(t)
      /\ DOMAIN (s \o t) = 1 .. Len(s) + Len(t)
  BY <1>1, LenProperties
<1> QED
  BY <1>1, <1>2

LEMMA LineConcat ==
  ASSUME NEW s \in Seq(Unit), NEW t \in Seq(Unit)
  PROVE  HasLine(s \o t) <=> HasLine(s) \/ HasLine(t)
<1>1. s \o t \in Seq(Unit) /\ Len(s \o t) = Len(s) + Len(t)
      /\ \A i \in 1 .. Len(s) + Len(t) :
           (s \o t)[i] = IF i <= Len(s) THEN s[i] ELSE t[i - Len(s)]
  BY ConcatProperties
<1>2. /\ Len(s) \in Nat /\ Len(t) \in Nat
      /\ DOMAIN s = 1 .. Len(s) /\ DOMAIN t = 1 .. Len(t)
      /\ DOMAIN (s \o t) = 1 .. Len(s) + Len(t)
  BY <1>1, LenProperties
<1>3. ASSUME HasLine(s \o t) PROVE HasLine(s) \/ HasLine(t)
  <2>1. PICK i \in 1 .. Len(s) + Len(t) : (s \o t)[i].kind = "line"
    BY <1>2, <1>3 DEF HasLine
  <2>2. i > Len(s) => i - Len(s) \in 1 .. Len(t)
    BY <1>2
  <2> QED
    BY <1>1, <1>2, <2>1, <2>2 DEF HasLine
<1>4. ASSUME HasLine(s) PROVE HasLine(s \o t)
  BY <1>1, <1>2, <1>4 DEF HasLine
<1>5. ASSUME HasLine(t) PROVE HasLine(s \o t)
  <2>1. PICK i \in 1 .. Len(t) : t[i].kind = "line"
    BY <1>2, <1>5 DEF HasLine
  <2>2. Len(s) + i \in 1 .. Len(s) + Len(t) /\ ~(Len(s) + i <= Len(s))
        /\ (Len(s) + i) - Len(s) = i
    BY <1>2
  <2>3. (s \o t)[Len(s) + i] = t[i]
    BY <1>1, <2>2
  <2> QED
    BY <1>2, <2>1, <2>2, <2>3 DEF HasLine
<1> QED
  BY <1>3, <1>4, <1>5

(* Data comes last, and one unit is in order.                              *)
LEMMA DataUnits ==
  ASSUME NEW s \in Seq(Bytes)
  PROVE  /\ Data(s) \in Seq(Unit) /\ Orderly(Data(s))
         /\ \A i \in DOMAIN Data(s) : Data(s)[i].kind = "data"
<1>1. \A i \in DOMAIN Data(s) : Data(s)[i].kind = "data"
  BY DEF Data
<1> QED
  BY <1>1, UnitsTyped, Precedence DEF Orderly, MayPrecede

LEMMA OneUnit ==
  ASSUME NEW u \in Unit
  PROVE  /\ <<u>> \in Seq(Unit) /\ Orderly(<<u>>)
         /\ \A i \in DOMAIN <<u>> : <<u>>[i] = u
         /\ HasLine(<<u>>) <=> u.kind = "line"
<1>1. <<u>> \in Seq(Unit) /\ DOMAIN <<u>> = 1 .. 1 /\ <<u>>[1] = u
  OBVIOUS
<1> QED
  BY <1>1 DEF Orderly, HasLine

LEMMA UnitIsConcat ==
  ASSUME NEW s \in Seq(Unit), NEW u \in Unit PROVE Append(s, u) = s \o <<u>>
  OBVIOUS

(* What each step adds to what has been forwarded.                         *)
LEMMA AddsLine ==
  ASSUME TypedInv, HeadInv, phase \in Loop, ~line_sent, NEW u \in Unit,
         u.kind = "line",
         to_local' = to_local, override_remote_buf' = Append(override_remote_buf, u)
  PROVE  /\ Orderly(Forwarded') /\ HasLine(Forwarded')
         /\ \A i \in DOMAIN Forwarded' : Forwarded'[i].kind \in {"line", "header"}
<1>1. /\ to_local \in Seq(Unit) /\ override_remote_buf \in Seq(Unit)
      /\ Forwarded \in Seq(Unit)
  BY ConcatProperties DEF TypedInv, ChannelTyped, Forwarded
<1>2. Forwarded' = Forwarded \o <<u>>
  <2>1. Append(override_remote_buf, u) = override_remote_buf \o <<u>>
    BY <1>1, UnitIsConcat
  <2> QED
    BY <1>1, <2>1, OneUnit, RegroupUnits DEF Forwarded
<1> DEFINE f == Forwarded
<1>3. \A i \in DOMAIN f : f[i].kind = "header"
  BY DEF HeadInv, HasLine
<1>4. Orderly(f) /\ f \in Seq(Unit)
  BY <1>1 DEF HeadInv
<1> HIDE DEF f
<1>5. \A i \in DOMAIN f : \A j \in DOMAIN <<u>> : MayPrecede(f[i], <<u>>[j])
  <2>1. \A j \in DOMAIN <<u>> : <<u>>[j].kind = "line"
    BY OneUnit
  <2> QED
    BY <1>3, <2>1, Precedence DEF MayPrecede
<1>6. Orderly(f \o <<u>>)
  BY <1>4, <1>5, OneUnit, OrderlyConcat
<1>7. \A i \in DOMAIN (f \o <<u>>) : (f \o <<u>>)[i].kind \in {"line", "header"}
  BY <1>3, <1>4, OneUnit, KindsConcat
<1>8. HasLine(f \o <<u>>)
  BY <1>4, OneUnit, LineConcat
<1> QED
  BY <1>2, <1>6, <1>7, <1>8 DEF f

LEMMA AddsHeaders ==
  ASSUME TypedInv, HeadInv, phase \in Loop, NEW t \in Seq(Unit),
         \A i \in DOMAIN t : t[i].kind = "header",
         to_local' = to_local, override_remote_buf' = override_remote_buf \o t
  PROVE  /\ Orderly(Forwarded')
         /\ HasLine(Forwarded') <=> HasLine(Forwarded)
         /\ \A i \in DOMAIN Forwarded' : Forwarded'[i].kind \in {"line", "header"}
<1>1. /\ to_local \in Seq(Unit) /\ override_remote_buf \in Seq(Unit)
      /\ Forwarded \in Seq(Unit)
  BY ConcatProperties DEF TypedInv, ChannelTyped, Forwarded
<1>2. Forwarded' = Forwarded \o t
  BY <1>1, RegroupUnits DEF Forwarded
<1> DEFINE f == Forwarded
<1>3. /\ \A i \in DOMAIN f : f[i].kind \in {"line", "header"}
      /\ Orderly(f) /\ f \in Seq(Unit)
  BY <1>1 DEF HeadInv
<1> HIDE DEF f
<1>4. Orderly(t) /\ ~HasLine(t)
  BY Precedence DEF Orderly, MayPrecede, HasLine
<1>5. \A i \in DOMAIN f : \A j \in DOMAIN t : MayPrecede(f[i], t[j])
  BY <1>3, Precedence DEF MayPrecede
<1>6. Orderly(f \o t)
  BY <1>3, <1>4, <1>5, OrderlyConcat
<1>7. \A i \in DOMAIN (f \o t) : (f \o t)[i].kind \in {"line", "header"}
  BY <1>3, KindsConcat
<1>8. HasLine(f \o t) <=> HasLine(f)
  BY <1>3, <1>4, LineConcat
<1> QED
  BY <1>2, <1>6, <1>7, <1>8 DEF f

LEMMA AddsEnd ==
  ASSUME TypedInv, HeadInv, phase \in Loop, NEW s \in Seq(Bytes),
         to_local' = to_local,
         override_remote_buf' = Append(override_remote_buf, Crlf) \o Data(s)
  PROVE  Orderly(Forwarded')
<1>1. /\ to_local \in Seq(Unit) /\ override_remote_buf \in Seq(Unit)
      /\ Forwarded \in Seq(Unit)
  BY ConcatProperties DEF TypedInv, ChannelTyped, Forwarded
<1>2. Crlf \in Unit /\ <<Crlf>> \in Seq(Unit) /\ Data(s) \in Seq(Unit)
  BY UnitsTyped, OneUnit
<1>3. Forwarded' = Forwarded \o (<<Crlf>> \o Data(s))
  <2>1. Append(override_remote_buf, Crlf) = override_remote_buf \o <<Crlf>>
    BY <1>1, <1>2, UnitIsConcat
  <2>2. (override_remote_buf \o <<Crlf>>) \o Data(s) = override_remote_buf \o (<<Crlf>> \o Data(s))
    BY <1>1, <1>2, RegroupUnits
  <2>3. <<Crlf>> \o Data(s) \in Seq(Unit)
    BY <1>2, ConcatProperties
  <2>4. to_local \o (override_remote_buf \o (<<Crlf>> \o Data(s)))
          = (to_local \o override_remote_buf) \o (<<Crlf>> \o Data(s))
    BY <1>1, <2>3, RegroupUnits
  <2> QED
    BY <2>1, <2>2, <2>4 DEF Forwarded
<1> DEFINE f == Forwarded
           t == <<Crlf>> \o Data(s)
           d == Data(s)
<1>4. /\ \A i \in DOMAIN f : f[i].kind \in {"line", "header"}
      /\ Orderly(f) /\ f \in Seq(Unit)
  BY <1>1 DEF HeadInv
<1>5. /\ \A i \in DOMAIN d : d[i].kind = "data"
      /\ \A i \in DOMAIN <<Crlf>> : <<Crlf>>[i].kind = "crlf"
      /\ Orderly(d) /\ Orderly(<<Crlf>>) /\ d \in Seq(Unit)
  BY <1>2, DataUnits, OneUnit DEF Crlf
<1> HIDE DEF f, d
<1>6. \A i \in DOMAIN <<Crlf>> : \A j \in DOMAIN d : MayPrecede(<<Crlf>>[i], d[j])
  BY <1>5, Precedence DEF MayPrecede
<1>7. Orderly(t) /\ t \in Seq(Unit)
  BY <1>2, <1>5, <1>6, OrderlyConcat, ConcatProperties DEF d
<1>8. \A i \in DOMAIN t : t[i].kind \in {"crlf", "data"}
  <2>1. /\ \A i \in DOMAIN <<Crlf>> : <<Crlf>>[i].kind \in {"crlf", "data"}
        /\ \A i \in DOMAIN d : d[i].kind \in {"crlf", "data"}
    BY <1>5
  <2> QED
    BY <1>2, <1>5, <2>1, KindsConcat DEF d
<1> HIDE DEF t
<1>9. \A i \in DOMAIN f : \A j \in DOMAIN t : MayPrecede(f[i], t[j])
  BY <1>4, <1>8, Precedence DEF MayPrecede
<1>10. Orderly(f \o t)
  BY <1>4, <1>7, <1>9, OrderlyConcat
<1> QED
  BY <1>3, <1>10 DEF f, t

LEMMA AddsCopied ==
  ASSUME TypedInv, HeadInv, phase = "copy", NEW s \in Seq(Bytes),
         to_local' = to_local \o Data(s), override_remote_buf' = override_remote_buf
  PROVE  Orderly(Forwarded')
<1>1. to_local \in Seq(Unit) /\ override_remote_buf = <<>> /\ Data(s) \in Seq(Unit)
  BY UnitsTyped DEF TypedInv, ChannelTyped, HeadInv
<1>2. to_local \o <<>> = to_local /\ (to_local \o Data(s)) \o <<>> = to_local \o Data(s)
  BY <1>1, ConcatEmptySeq, ConcatProperties
<1>3. Orderly(to_local) /\ Forwarded' = to_local \o Data(s)
  BY <1>1, <1>2 DEF HeadInv, Forwarded
<1> DEFINE d == Data(s)
<1>4. d \in Seq(Unit) /\ Orderly(d) /\ \A i \in DOMAIN d : d[i].kind = "data"
  BY DataUnits
<1>5. \A i \in DOMAIN to_local : to_local[i] \in Unit
  BY <1>1, ElementOfSeq, LenProperties
<1>6. \A u \in Unit : u.kind \in {"line", "header", "crlf", "data"}
  BY DEF Unit, Crlf
<1> HIDE DEF d
<1>7. \A i \in DOMAIN to_local : \A j \in DOMAIN d : MayPrecede(to_local[i], d[j])
  <2>1. \A i \in DOMAIN to_local : to_local[i].kind \in {"line", "header", "crlf", "data"}
    BY <1>5, <1>6
  <2> QED
    BY <1>4, <2>1, Precedence DEF MayPrecede
<1> QED
  BY <1>1, <1>3, <1>4, <1>7, OrderlyConcat DEF d

(* Every step of the channel.  Only a step of the parser changes what is   *)
(* known of the line, and it is taken in phase "execute".                  *)
LEMMA NextKeepsHead ==
  ASSUME TypedInv, HeadInv, [Next]_vars PROVE HeadInv'
<1>0. /\ to_local \in Seq(Unit) /\ override_remote_buf \in Seq(Unit)
      /\ Typed /\ ChannelTyped
  BY DEF TypedInv, ChannelTyped
<1> DEFINE Orders == Orderly(Forwarded')
           Loops == /\ \A i \in DOMAIN Forwarded' : Forwarded'[i].kind \in {"line", "header"}
                    /\ HasLine(Forwarded') <=> line_sent'
           LineOut == phase' \in Loop \ {"execute"} /\ request'.version # {} => line_sent'
           Left == phase' \in {"flush_remote", "copy"} => override_remote_buf' = <<>>
<1>1. SUFFICES Orders /\ (phase' \in Loop => Loops) /\ LineOut /\ Left
  BY DEF HeadInv
<1>2. ASSUME Forwarded' = Forwarded PROVE Orders
  BY <1>2 DEF HeadInv
<1>3. ASSUME Forwarded' = Forwarded, phase \in Loop, line_sent' = line_sent PROVE Loops
  BY <1>3 DEF HeadInv
<1>4. ASSUME UNCHANGED <<override_remote_buf, to_local>> PROVE Forwarded' = Forwarded
  BY <1>4 DEF Forwarded
<1> HIDE DEF Orders, Loops
<1>5. CASE Parse \/ ReadRemote
  <2>1. /\ phase \in {"execute", "select"}
        /\ phase' \in {"execute", "panicked"}
        /\ UNCHANGED <<override_remote_buf, to_local, line_sent>>
    BY <1>5 DEF Parse, ReadRemote, channelVars
  <2> QED
    BY <1>2, <1>3, <1>4, <2>1 DEF Loop
<1>6. CASE Parsed
  <2>0. phase = "execute" /\ UNCHANGED <<parserVars, to_local>>
    BY <1>6 DEF Parsed
  <2>1. CASE /\ LineDue /\ line_sent' = TRUE
             /\ override_remote_buf' = Append(override_remote_buf, Line)
             /\ phase' = "write_line"
    <3>1. Line \in Unit /\ Line.kind = "line"
      BY <1>0, <2>1, LineTyped DEF LineDue, Line
    <3>2. Orders /\ Loops
      BY <2>0, <2>1, <3>1, AddsLine DEF LineDue, Loop, Orders, Loops
    <3> QED
      BY <2>1, <3>2
  <2>2. CASE ~LineDue /\ phase' = "headers" /\ UNCHANGED <<line_sent, override_remote_buf>>
    BY <1>2, <1>3, <1>4, <2>0, <2>2 DEF LineDue, Loop, parserVars
  <2>3. CASE phase' \in {"panicked", "ended"} /\ UNCHANGED <<line_sent, override_remote_buf>>
    BY <1>2, <1>4, <2>0, <2>3 DEF Loop
  <2> QED
    BY <1>6, <2>1, <2>2, <2>3 DEF Parsed
<1>7. CASE WriteLine \/ WriteHeaders
  <2>1. /\ WriteLocal /\ UNCHANGED <<parserVars, line_sent>>
        /\ phase \in {"write_line", "write_headers"}
        /\ phase' \in {"headers", "head_end"}
    BY <1>7 DEF WriteLine, WriteHeaders
  <2>2. Forwarded' = Forwarded
    BY <1>0, <2>1, WriteLocalKeeps
  <2>3. LineOut
    BY <2>1 DEF HeadInv, Loop, parserVars
  <2> QED
    BY <1>2, <1>3, <2>1, <2>2, <2>3 DEF Loop
<1>8. CASE TakeHeaders
  <2>1. /\ phase = "headers" /\ phase' \in {"head_end", "write_headers"}
        /\ to_local' = to_local /\ line_sent' = line_sent
        /\ request'.version = request.version
    <3>1. request' = [request EXCEPT !.headers = {}]
      BY <1>8 DEF TakeHeaders
    <3>2. request'.version = request.version
      BY <1>0, <3>1 DEF Typed, RequestOK, RequestType
    <3> QED
      BY <1>8, <3>2 DEF TakeHeaders
  <2>2. LineOut /\ Left
    BY <2>1 DEF HeadInv, Loop
  <2>3. CASE override_remote_buf' = override_remote_buf
    BY <1>2, <1>3, <1>4, <2>1, <2>2, <2>3 DEF Loop
  <2>4. CASE \E hs \in SetToSeqs(request.headers) :
               override_remote_buf' = override_remote_buf
                 \o [i \in DOMAIN hs |-> Header(Overridden(hs[i]))]
    <3>1. PICK t \in Seq(Unit) :
            /\ \A i \in DOMAIN t : t[i].kind = "header"
            /\ override_remote_buf' = override_remote_buf \o t
      BY <1>0, <2>4, HeadersTyped
    <3>2. Orders /\ Loops
      BY <2>1, <3>1, AddsHeaders DEF HeadInv, Loop, Orders, Loops
    <3> QED
      BY <2>2, <3>2
  <2> QED
    BY <1>8, <2>3, <2>4 DEF TakeHeaders
<1>9. CASE EndOfHead
  <2>1. CASE phase' = "select" /\ UNCHANGED <<parserVars, override_remote_buf>>
    <3>1. phase = "head_end" /\ UNCHANGED <<to_local, line_sent, request>>
      BY <1>9, <2>1 DEF EndOfHead, parserVars
    <3> QED
      BY <1>2, <1>3, <1>4, <2>1, <3>1 DEF HeadInv, Loop
  <2>2. CASE /\ override_remote_buf' =
                  Append(override_remote_buf, Crlf) \o Data(request.buf["on_body"])
             /\ Reset /\ phase' = "flush_local"
    <3>1. request.buf["on_body"] \in Seq(Bytes)
      BY <1>0 DEF Typed, RequestOK, RequestType, Callbacks
    <3>2. phase = "head_end" /\ to_local' = to_local
      BY <1>9 DEF EndOfHead
    <3>3. Orders
      BY <2>2, <3>1, <3>2, AddsEnd DEF Loop, Orders
    <3> QED
      BY <2>2, <3>3 DEF Loop
  <2> QED
    BY <1>9, <2>1, <2>2 DEF EndOfHead
<1>10. CASE ReadLocal \/ ForwardReply
  <2>1. /\ phase \in {"select", "write_local"} /\ phase' \in {"select", "write_local"}
        /\ UNCHANGED <<parserVars, override_remote_buf, to_local, line_sent>>
    BY <1>10 DEF ReadLocal, ForwardReply
  <2> QED
    BY <1>2, <1>3, <1>4, <2>1 DEF HeadInv, Loop, parserVars
<1>11. CASE FlushLocal
  <2>1. phase = "flush_local" /\ phase' \in {"flush_local", "flush_remote"}
    BY <1>11 DEF FlushLocal
  <2>2. CASE WriteLocal /\ phase' = phase
    BY <1>0, <1>2, <2>1, <2>2, WriteLocalKeeps DEF Loop
  <2>3. CASE override_remote_buf = <<>> /\ UNCHANGED <<override_remote_buf, to_local>>
    BY <1>2, <1>4, <2>1, <2>3 DEF Loop
  <2> QED
    BY <1>11, <2>1, <2>2, <2>3 DEF FlushLocal
<1>12. CASE FlushRemote \/ CopyToRemote
  <2>1. /\ phase \in {"flush_remote", "copy"} /\ phase' \in {"flush_remote", "copy"}
        /\ UNCHANGED <<override_remote_buf, to_local>>
    BY <1>12 DEF FlushRemote, CopyToRemote
  <2> QED
    BY <1>2, <1>4, <2>1 DEF HeadInv, Loop
<1>13. CASE CopyToLocal
  <2>1. /\ phase = "copy" /\ phase' = "copy"
        /\ to_local' = to_local \o Data(<<stream[endp]>>)
        /\ override_remote_buf' = override_remote_buf /\ endp <= Len(stream)
    BY <1>13 DEF CopyToLocal
  <2>2. stream \in Seq(Bytes) /\ Len(stream) \in Nat /\ endp \in Nat /\ 1 <= endp
    <3>1. stream \in Seq(Bytes)
      BY <1>0, Alphabet DEF Typed
    <3>2. Len(stream) \in Nat
      BY <3>1, LenProperties
    <3> QED
      BY <1>0, <3>1, <3>2 DEF Typed, Within
  <2>3. <<stream[endp]>> \in Seq(Bytes)
    <3>1. stream[endp] \in Bytes
      BY <2>1, <2>2, ElementOfSeq
    <3> QED
      BY <3>1
  <2>4. Orders
    BY <2>1, <2>3, AddsCopied DEF Orders
  <2> QED
    BY <2>1, <2>4 DEF HeadInv, Loop
<1>14. CASE SocketFails
  <2>1. phase' = "ended" /\ UNCHANGED <<override_remote_buf, to_local>>
    BY <1>14 DEF SocketFails
  <2> QED
    BY <1>2, <1>4, <2>1 DEF Loop
<1>15. CASE UNCHANGED vars
  <2>1. UNCHANGED <<override_remote_buf, to_local, phase, line_sent, request>>
    BY <1>15 DEF vars, channelVars, parserVars
  <2> QED
    BY <1>2, <1>3, <1>4, <2>1 DEF HeadInv
<1> QED
  BY <1>5, <1>6, <1>7, <1>8, <1>9, <1>10, <1>11, <1>12, <1>13, <1>14, <1>15
     DEF Next, TaskStep

LEMMA HeadInvariance == Spec => []HeadInv
<1>1. Init => HeadInv
  <2> SUFFICES ASSUME Init PROVE HeadInv
    OBVIOUS
  <2>1. to_local = <<>> /\ override_remote_buf = <<>> /\ phase = "select"
        /\ ~line_sent /\ request.version = {}
    BY DEF Init, ParserInit, ResetRequest
  <2>2. Forwarded = <<>> /\ DOMAIN Forwarded = {}
    BY <2>1 DEF Forwarded
  <2> QED
    BY <2>1, <2>2 DEF HeadInv, Orderly, HasLine, Loop
<1>2. TypedInv /\ HeadInv /\ [Next]_vars => HeadInv'
  BY NextKeepsHead
<1> QED
  BY <1>1, <1>2, TypedInvariance, PTL DEF Spec

(* Whatever a visitor sends and however reads and writes are cut, the loop *)
(* forwards one head: at most one line and one blank line, headers before  *)
(* it and data after it, and the line as soon as its version is known      *)
(* (client.rs:464-531).                                                    *)
THEOREM OneHeadIsForwarded == Spec => []OneHead
<1>1. HeadInv => OneHead
  BY DEF HeadInv, OneHead, Orderly, MayPrecede, Precedes, Rank, HasLine, Loop
<1> QED
  BY <1>1, HeadInvariance, PTL

-----------------------------------------------------------------------------
(* What the callbacks decode.                                              *)

(* The spans of these states hold ASCII only.                              *)
PlainNodes == {"after_start_req"} \cup UrlNodes \cup VersionNodes \cup FieldNodes
Plain(from, upto) == \A i \in from .. upto - 1 : stream[i] \notin Lead \cup Cont

(* In these states the next byte does not go on with a character: a value  *)
(* begins, or its length has only digits and blanks so far.                *)
ClearNodes == {"header_value_discard_ws", "header_value_lws"} \cup LengthNodes

(* `at` is where the read began, at lo, or not within a character.         *)
Clear(lo, at) == at = lo \/ stream[at - 1] \notin Lead

(* The span of a value begins between characters of what was read; where   *)
(* it ends, the next byte does not go on with one.                         *)
Decoding(lo, node, at, q) ==
  q.error = "OK" =>
    /\ node \in PlainNodes => Plain(q.span.from, at)
    /\ node = "header_value_otherwise" => at < endp /\ stream[at] \notin Cont
    /\ info => /\ node \in ClearNodes => Clear(lo, at)
               /\ node \in ValueNodes => lo <= q.span.from /\ Clear(lo, q.span.from)

(* While lines are logged, all that was read at lo could be decoded.       *)
Sound(lo) ==
  /\ info => Utf8(SubSeq(stream, lo, endp - 1)) /\ ~request.aborted
  /\ Decoding(lo, cur, p, parser)

DecodeInv ==
  /\ info => ~request.aborted
  /\ cur = "header_value_otherwise" /\ parser.error = "OK" => executing
  /\ executing => \E lo \in 1 .. p : Sound(lo)

(* The states that ask for nothing.                                        *)
Free ==
  Between \cup BodyNodes
    \cup {"header_value_discard_ws_almost_done", "header_value_discard_lws",
          "header_value_almost_done"}

LEMMA FreeNodes ==
  \A n \in Free : n \notin PlainNodes /\ n \notin ClearNodes /\ n \notin ValueNodes
                  /\ n # "header_value_otherwise"
  BY DEF Free, Between, BodyNodes, PlainNodes, UrlNodes, VersionNodes, FieldNodes,
         ClearNodes, ValueNodes, LengthNodes

LEMMA NodeKinds ==
  /\ \A n \in PlainNodes : n \notin ClearNodes /\ n \notin ValueNodes
                           /\ n # "header_value_otherwise" /\ SpanOf(n) \notin {"none", "on_body"}
  /\ \A n \in ValueNodes : n \notin PlainNodes /\ SpanOf(n) = "on_header_value"
  /\ LengthNodes \subseteq ValueNodes /\ LengthNodes \subseteq ClearNodes
  /\ \A n \in ValueNodes \ LengthNodes : n \notin ClearNodes
  /\ "header_value_otherwise" \in ValueNodes \ LengthNodes
  /\ \A n \in {"header_value_discard_ws", "header_value_lws"} :
       n \in ClearNodes /\ n \notin ValueNodes /\ n \notin PlainNodes
         /\ n # "header_value_otherwise"
<1>1. \A n \in PlainNodes : SpanOf(n) \notin {"none", "on_body"}
  BY SpanTable DEF PlainNodes
<1>2. \A n \in ValueNodes : SpanOf(n) = "on_header_value"
  BY SpanTable
<1>3. \A n \in PlainNodes : n \notin ClearNodes /\ n \notin ValueNodes
  BY DEF PlainNodes, UrlNodes, VersionNodes, FieldNodes, ClearNodes, ValueNodes, LengthNodes
<1>4. LengthNodes \subseteq ValueNodes /\ "header_value_otherwise" \in ValueNodes \ LengthNodes
  BY DEF LengthNodes, ValueNodes
<1>5. \A n \in {"header_value_discard_ws", "header_value_lws"} :
        n \notin ValueNodes /\ n # "header_value_otherwise"
  BY DEF ValueNodes
<1> QED
  BY <1>1, <1>2, <1>3, <1>4, <1>5 DEF ClearNodes

----------------------------------------------------------------------------
(* Stretches of the stream and their decoding.                             *)

(* The decoding of a stretch, in terms of the stream.                      *)
LEMMA StretchDecodes ==
  ASSUME NEW s \in Seq(Bytes), NEW a \in Nat, NEW b \in Nat, 1 <= a, a <= b,
         b <= Len(s) + 1
  PROVE  Utf8(SubSeq(s, a, b - 1)) <=>
           \A i \in a .. b - 1 : /\ s[i] \in Lead => i + 1 < b /\ s[i + 1] \in Cont
                                 /\ s[i] \in Cont => a < i /\ s[i - 1] \in Lead
<1> DEFINE u == SubSeq(s, a, b - 1)
<1>1. Len(s) \in Nat
  BY LenProperties
<1>2. Len(u) = b - a /\ \A j \in 1 .. b - a : u[j] = s[a + j - 1]
  <2>1. \A i \in a .. b - 1 : i \in 1 .. Len(s)
    BY <1>1
  <2>2. \A i \in a .. b - 1 : s[i] \in Bytes
    BY <1>1, <2>1, ElementOfSeq
  <2>3. Len(u) = IF a <= b - 1 THEN (b - 1) - a + 1 ELSE 0
    BY <2>2, SubSeqProperties
  <2>4. \A j \in 1 .. (b - 1) - a + 1 : u[j] = s[a + j - 1]
    BY <2>2, SubSeqProperties
  <2> QED
    BY <2>3, <2>4
<1> HIDE DEF u
<1>3. ASSUME Utf8(u), NEW i \in a .. b - 1
      PROVE  /\ s[i] \in Lead => i + 1 < b /\ s[i + 1] \in Cont
             /\ s[i] \in Cont => a < i /\ s[i - 1] \in Lead
  <2> DEFINE j == i - a + 1
  <2>1. j \in 1 .. Len(u) /\ u[j] = s[i]
    BY <1>2
  <2>2. j < Len(u) => u[j + 1] = s[i + 1] /\ i + 1 < b
    BY <1>2
  <2>3. j > 1 => u[j - 1] = s[i - 1] /\ a < i
    BY <1>2
  <2> QED
    BY <1>3, <2>1, <2>2, <2>3 DEF Utf8
<1>4. ASSUME \A i \in a .. b - 1 : /\ s[i] \in Lead => i + 1 < b /\ s[i + 1] \in Cont
                                   /\ s[i] \in Cont => a < i /\ s[i - 1] \in Lead,
             NEW j \in 1 .. Len(u)
      PROVE  /\ u[j] \in Lead => j < Len(u) /\ u[j + 1] \in Cont
             /\ u[j] \in Cont => j > 1 /\ u[j - 1] \in Lead
  <2> DEFINE i == a + j - 1
  <2>1. i \in a .. b - 1 /\ u[j] = s[i]
    BY <1>2
  <2>2. i + 1 < b => j < Len(u) /\ u[j + 1] = s[i + 1]
    BY <1>2
  <2>3. a < i => j > 1 /\ u[j - 1] = s[i - 1]
    BY <1>2
  <2> QED
    BY <1>4, <2>1, <2>2, <2>3
<1>5. Utf8(u) <=> \A j \in 1 .. Len(u) :
                    /\ u[j] \in Lead => j < Len(u) /\ u[j + 1] \in Cont
                    /\ u[j] \in Cont => j > 1 /\ u[j - 1] \in Lead
  BY DEF Utf8
<1> QED
  BY <1>3, <1>4, <1>5 DEF u

(* A stretch of ASCII decodes.                                             *)
LEMMA PlainDecodes ==
  ASSUME stream \in Seq(Bytes), NEW a \in Nat, NEW b \in Nat, 1 <= a, a <= b,
         b <= Len(stream) + 1, Plain(a, b)
  PROVE  Utf8(SubSeq(stream, a, b - 1))
  BY StretchDecodes DEF Plain

(* So does a piece of what decodes, cut between characters.                *)
LEMMA PieceDecodes ==
  ASSUME stream \in Seq(Bytes), NEW lo \in Nat, NEW a \in Nat, NEW b \in Nat,
         NEW hi \in Nat, 1 <= lo, lo <= a, a <= b, b <= hi, hi <= Len(stream) + 1,
         Utf8(SubSeq(stream, lo, hi - 1)), Clear(lo, a),
         b = hi \/ stream[b] \notin Cont \/ Clear(lo, b)
  PROVE  Utf8(SubSeq(stream, a, b - 1))
<1>1. Len(stream) \in Nat
  BY LenProperties
<1>2. \A i \in lo .. hi - 1 :
        /\ stream[i] \in Lead => i + 1 < hi /\ stream[i + 1] \in Cont
        /\ stream[i] \in Cont => lo < i /\ stream[i - 1] \in Lead
  <2>1. lo <= hi
    OBVIOUS
  <2>2. Utf8(SubSeq(stream, lo, hi - 1)) <=>
          \A i \in lo .. hi - 1 :
            /\ stream[i] \in Lead => i + 1 < hi /\ stream[i + 1] \in Cont
            /\ stream[i] \in Cont => lo < i /\ stream[i - 1] \in Lead
    BY ONLY <2>1, stream \in Seq(Bytes), lo \in Nat, hi \in Nat, 1 <= lo,
            hi <= Len(stream) + 1, StretchDecodes
  <2> QED
    BY <2>2
<1>3. b = hi \/ b = lo \/ stream[b] \notin Cont
  BY <1>1, <1>2 DEF Clear
<1>4. ASSUME NEW i \in a .. b - 1, stream[i] \in Lead
      PROVE  i + 1 < b /\ stream[i + 1] \in Cont
  <2>1. i + 1 < hi /\ stream[i + 1] \in Cont
    BY <1>1, <1>2, <1>4
  <2> QED
    BY <1>1, <1>3, <2>1
<1>5. ASSUME NEW i \in a .. b - 1, stream[i] \in Cont
      PROVE  a < i /\ stream[i - 1] \in Lead
  <2>1. lo < i /\ stream[i - 1] \in Lead
    BY <1>1, <1>2, <1>5
  <2> QED
    BY <1>1, <2>1 DEF Clear
<1>6. \A i \in a .. b - 1 : /\ stream[i] \in Lead => i + 1 < b /\ stream[i + 1] \in Cont
                            /\ stream[i] \in Cont => a < i /\ stream[i - 1] \in Lead
  BY <1>4, <1>5
<1>7. b <= Len(stream) + 1 /\ 1 <= a
  BY <1>1
<1> QED
  BY <1>6, <1>7, StretchDecodes

----------------------------------------------------------------------------
(* Moves of the state machine.                                             *)

LEMMA MoveSound ==
  ASSUME NEW lo, Sound(lo), info' = info, NEW node, NEW k, NEW q, NEW r,
         Move(node, k, q, r), info => ~r.aborted, Decoding(lo, node, p + k, q)
  PROVE  Sound(lo)'
<1>1. Decoding(lo, cur, p, parser)'
  BY DEF Move, Decoding, Plain, Clear
<1> QED
  BY <1>1 DEF Move, Sound

LEMMA FreeSound ==
  ASSUME NEW lo, Sound(lo), info' = info, NEW node \in Free, NEW k, NEW q, NEW r,
         Move(node, k, q, r), r.aborted = request.aborted
  PROVE  Sound(lo)'
<1>1. Decoding(lo, node, p + k, q)
  BY FreeNodes DEF Decoding
<1> QED
  BY <1>1, MoveSound DEF Sound

LEMMA PassSound ==
  ASSUME NEW lo, Sound(lo), info' = info, NEW node \in Free, Eat(node) \/ Goto(node)
  PROVE  Sound(lo)'
  BY FreeSound DEF Eat, Goto

LEMMA FailSound ==
  ASSUME NEW lo, Sound(lo), info' = info, NEW e, Fail(e)
  PROVE  Sound(lo)'
<1>1. "error" \in Free
  BY DEF Free, Between
<1> QED
  BY <1>1, FreeSound DEF Fail

(* A span of ASCII begins, goes on and ends.                               *)
LEMMA PlainBegins ==
  ASSUME NEW lo, Sound(lo), info' = info, NEW node \in PlainNodes, NEW k,
         p + k \in Nat, NEW q, q.span.from = p + k, Move(node, k, q, request)
  PROVE  Sound(lo)'
<1>1. Plain(q.span.from, p + k)
  BY DEF Plain
<1>2. Decoding(lo, node, p + k, q)
  BY <1>1, NodeKinds DEF Decoding
<1> QED
  BY <1>2, MoveSound DEF Sound

LEMMA PlainOn ==
  ASSUME Typed, NEW lo, Sound(lo), NEW a \in PlainNodes, At(a), NEW k \in {0, 1},
         k = 1 => Byte \notin Lead \cup Cont
  PROVE  Plain(parser.span.from, p + k)
<1>1. Plain(parser.span.from, p)
  BY DEF Sound, Decoding, At
<1>2. p \in Nat
  BY Here
<1>3. \A i \in parser.span.from .. (p + k) - 1 : stream[i] \notin Lead \cup Cont
  <2> TAKE i \in parser.span.from .. (p + k) - 1
  <2>1. i \in parser.span.from .. p - 1 \/ (k = 1 /\ i = p)
    BY <1>2
  <2> QED
    BY <1>1, <2>1 DEF Plain, Byte
<1> QED
  BY <1>3 DEF Plain

LEMMA PlainSound ==
  ASSUME Typed, NEW lo, Sound(lo), info' = info, NEW a \in PlainNodes, At(a),
         NEW node \in PlainNodes, NEW k \in {0, 1}, k = 1 => Byte \notin Lead \cup Cont,
         NEW q, q.span = parser.span, Move(node, k, q, request)
  PROVE  Sound(lo)'
<1>1. Decoding(lo, node, p + k, q)
  BY PlainOn, NodeKinds DEF Decoding
<1> QED
  BY <1>1, MoveSound DEF Sound

(* What a callback makes of a piece that decodes.                          *)
LEMMA DeliveredDecodes ==
  ASSUME Typed, NEW n,
         parser.span.cb = "on_body" \/ Utf8(SubSeq(stream, parser.span.from, n - 1))
  PROVE  Delivered(n).aborted = request.aborted
<1>1. request.aborted \in BOOLEAN /\ "aborted" \in DOMAIN request /\ "buf" \in DOMAIN request
  BY DEF Typed, RequestOK, RequestType
<1> DEFINE piece == SubSeq(stream, parser.span.from, n - 1)
           bad   == parser.span.cb # "on_body" /\ ~Utf8(piece)
<1>2. bad = FALSE
  OBVIOUS
<1>3. Delivered(n) = [request EXCEPT !.buf[parser.span.cb] = @ \o piece, !.aborted = @ \/ bad]
  BY DEF Delivered
<1> HIDE DEF bad, piece
<1>4. Delivered(n).aborted = (request.aborted \/ bad)
  BY <1>1, <1>3
<1> QED
  BY <1>1, <1>2, <1>4

(* Where the span of a state begins.                                       *)
LEMMA SpanHere ==
  ASSUME Typed, ParserInv, NEW a, At(a), SpanOf(a) # "none"
  PROVE  parser.span.cb = SpanOf(a) /\ parser.span.from \in 1 .. p
<1>1. parser.span.cb = SpanOf(a) /\ parser.span # NoSpan
  BY DEF ParserInv, Good, Fits, At, NoSpan
<1> QED
  BY <1>1 DEF Typed, FieldsOK

LEMMA PlainEnds ==
  ASSUME Typed, ParserInv, NEW lo, Sound(lo), NEW a \in PlainNodes, At(a),
         NEW k \in {0, 1}, k = 1 => Byte \notin Lead \cup Cont
  PROVE  Delivered(p + k).aborted = request.aborted
<1>1. Plain(parser.span.from, p + k)
  BY PlainOn
<1>2. parser.span.from \in 1 .. p
  BY SpanHere, NodeKinds
<1>3. /\ stream \in Seq(Bytes) /\ parser.span.from \in Nat /\ 1 <= parser.span.from
      /\ p + k \in Nat /\ parser.span.from <= p + k /\ p + k <= Len(stream) + 1
  BY <1>2, Here
<1>4. Utf8(SubSeq(stream, parser.span.from, (p + k) - 1))
  BY <1>1, <1>3, PlainDecodes
<1> QED
  BY <1>4, DeliveredDecodes

(* The span of a value goes on, to a state that asks no more of it.        *)
LEMMA ValueSound ==
  ASSUME NEW lo, Sound(lo), info' = info, NEW a \in ValueNodes, At(a),
         NEW node \in ValueNodes \ (LengthNodes \cup {"header_value_otherwise"}),
         NEW k, NEW q, q.span = parser.span, Move(node, k, q, request)
  PROVE  Sound(lo)'
<1>1. Decoding(lo, node, p + k, q)
  BY NodeKinds DEF Decoding, Sound, At
<1> QED
  BY <1>1, MoveSound DEF Sound

(* To where it ends.                                                       *)
LEMMA OtherwiseSound ==
  ASSUME Typed, NEW lo, Sound(lo), info' = info, NEW a \in ValueNodes, At(a),
         Byte \notin Cont, NEW q, q.span = parser.span,
         Move("header_value_otherwise", 0, q, request)
  PROVE  Sound(lo)'
<1>1. p + 0 = p /\ p < endp
  BY Here DEF At
<1>2. Decoding(lo, "header_value_otherwise", p, q)
  BY <1>1, NodeKinds DEF Decoding, Sound, At, Byte
<1> QED
  BY <1>1, <1>2, MoveSound DEF Sound

(* In the digits and blanks of a length.                                   *)
LEMMA LengthSound ==
  ASSUME Typed, NEW lo, Sound(lo), info' = info, NEW a \in LengthNodes, At(a),
         NEW node \in LengthNodes, NEW k \in {0, 1}, k = 1 => Byte \notin Lead,
         NEW q, q.span = parser.span, Move(node, k, q, request)
  PROVE  Sound(lo)'
<1>1. p \in Nat
  BY Here
<1>2. info => Clear(lo, p)
  BY NodeKinds DEF Sound, Decoding, At
<1>3. info => Clear(lo, p + k)
  BY <1>1, <1>2 DEF Clear, Byte
<1>4. node # "header_value_otherwise"
  BY DEF LengthNodes
<1>5. Decoding(lo, node, p + k, q)
  BY <1>3, <1>4, NodeKinds DEF Decoding, Sound, At
<1> QED
  BY <1>5, MoveSound DEF Sound

(* The value ends between characters.                                      *)
LEMMA ValueEnds ==
  ASSUME Typed, ParserInv, NEW lo \in 1 .. p, Sound(lo), NEW a \in ValueNodes, At(a),
         Byte \notin Cont \/ a \in LengthNodes
  PROVE  info => ~Delivered(p).aborted
<1> SUFFICES ASSUME info PROVE ~Delivered(p).aborted
  OBVIOUS
<1>1. parser.span.from \in 1 .. p
  BY SpanHere, NodeKinds
<1>2. lo <= parser.span.from /\ Clear(lo, parser.span.from)
      /\ (a \in LengthNodes => Clear(lo, p))
  BY NodeKinds DEF Sound, Decoding, At
<1>3. /\ stream \in Seq(Bytes) /\ parser.span.from \in Nat /\ lo \in Nat /\ 1 <= lo
      /\ p \in Nat /\ endp \in Nat /\ parser.span.from <= p /\ p <= endp
      /\ endp <= Len(stream) + 1
  BY <1>1, Here
<1>4. stream[p] \notin Cont \/ Clear(lo, p)
  BY <1>2 DEF Byte
<1>5. Utf8(SubSeq(stream, lo, endp - 1))
  BY DEF Sound
<1>6. Utf8(SubSeq(stream, parser.span.from, p - 1))
  BY <1>2, <1>3, <1>4, <1>5, PieceDecodes
<1> QED
  BY <1>6, DeliveredDecodes DEF Sound

(* The blanks before a value.                                              *)
LEMMA ClearSound ==
  ASSUME Typed, NEW lo, Sound(lo), info' = info, NEW a, At(a), Byte \notin Lead,
         NEW node \in {"header_value_discard_ws", "header_value_lws"}, NEW q, NEW r,
         info => ~r.aborted, Move(node, 1, q, r)
  PROVE  Sound(lo)'
<1>1. p \in Nat
  BY Here
<1>2. Clear(lo, p + 1)
  BY <1>1 DEF Clear, Byte
<1>3. Decoding(lo, node, p + 1, q)
  BY <1>2, NodeKinds DEF Decoding
<1> QED
  BY <1>3, MoveSound

----------------------------------------------------------------------------
(* The request line.                                                       *)

LEMMA AsciiBytes ==
  /\ \A b \in Ascii : b \notin Lead \cup Cont
  /\ Printable \subseteq Ascii /\ Letter \subseteq Ascii /\ Digit \subseteq Ascii
  /\ Punctuation \subseteq Ascii /\ {"HT", "SP", "CR", "LF"} \subseteq Ascii
  /\ UrlServerByte \subseteq Ascii /\ UrlPathByte \subseteq Ascii
  /\ UrlQueryByte \subseteq Ascii /\ TokenByte \subseteq Ascii
  BY LlHttpAssumption DEF LlHttpAssumption, Ascii, Printable, UrlServerByte, UrlPathByte,
                          UrlQueryByte, TokenByte

(* A byte that goes on with a word is ASCII.                               *)
LEMMA WordBytes ==
  ASSUME NEW s \in Seq(Bytes), NEW b, NEW words \in SUBSET DOMAIN Spell,
         Extends(Append(s, b), words) \/ Matches(Append(s, b), words) # {}
  PROVE  b \in Ascii
<1> DEFINE t == Append(s, b)
           n == Len(s) + 1
<1>1. Len(s) \in Nat /\ Len(t) = n /\ t[n] = b /\ DOMAIN t = 1 .. n
  BY LenProperties
<1>2. PICK w \in words : IsPrefix(t, Spell[w])
  <2>1. CASE Extends(t, words)
    BY <2>1 DEF Extends, IsStrictPrefix
  <2>2. CASE Matches(t, words) # {}
    <3>1. PICK w \in words : Spell[w] = t
      BY <2>2 DEF Matches
    <3> QED
      BY <3>1 DEF IsPrefix
  <2> QED
    BY <2>1, <2>2
<1>3. Spell[w] \in Seq(Ascii)
  BY LlHttpAssumption DEF LlHttpAssumption
<1> DEFINE v == Spell[w]
<1> HIDE DEF t, v
<1>4. Len(t) <= Len(v) /\ Len(v) \in Nat /\ SubSeq(t, 1, Len(t)) = SubSeq(v, 1, Len(t))
  BY <1>2, <1>3, LenProperties DEF IsPrefix, v
<1>5. n \in 1 .. Len(v) /\ v[n] \in Ascii
  BY <1>1, <1>3, <1>4, ElementOfSeq DEF v
<1>6. SubSeq(t, 1, n)[n] = t[n] /\ SubSeq(v, 1, n)[n] = v[n]
  BY <1>1, <1>4, <1>5
<1> QED
  BY <1>1, <1>4, <1>5, <1>6

LEMMA LowerAscii == \A b : LowerOf(b) \in Ascii => b \in Ascii
  BY AsciiBytes DEF LowerOf

LEMMA SpanKept ==
  ASSUME Typed
  PROVE  /\ \A s : Matched(s).span = parser.span
         /\ \A h : InState(h).span = parser.span
         /\ \A c, f : Spanned(c, f).span.from = f
                      /\ [Spanned(c, f) EXCEPT !.matched = <<>>].span.from = f
         /\ \A v : [parser EXCEPT !.http_major = v].span = parser.span
  BY DEF Typed, FieldsOK, ParserType, Matched, InState, Spanned

LEMMA AbortedKept ==
  ASSUME NEW r \in RequestType
  PROVE  /\ [r EXCEPT !.method = {r.buf["on_method"]},
                      !.buf["on_method"] = <<>>].aborted = r.aborted
         /\ [r EXCEPT !.url = {r.buf["on_url"]},
                      !.buf["on_url"] = <<>>].aborted = r.aborted
         /\ [r EXCEPT !.version = {r.buf["on_version"]},
                      !.buf["on_version"] = <<>>].aborted = r.aborted
         /\ [r EXCEPT !.is_header_complete = TRUE].aborted = r.aborted
  BY DEF RequestType

(* The end of a span of ASCII.                                             *)
LEMMA PlainEndSound ==
  ASSUME Typed, ParserInv, NEW lo, Sound(lo), info' = info, NEW a \in PlainNodes, At(a),
         NEW k \in {0, 1}, k = 1 => Byte \notin Lead \cup Cont,
         NEW node \in Free, NEW m, NEW q, NEW r, r.aborted = Delivered(p + k).aborted,
         Move(node, m, q, r)
  PROVE  Sound(lo)'
<1>1. r.aborted = request.aborted
  BY PlainEnds
<1> QED
  BY <1>1, FreeSound

LEMMA UrlSound ==
  ASSUME Typed, ParserInv, NEW lo, Sound(lo), info' = info, NEW a \in UrlNodes, At(a),
         NEW node \in UrlNodes,
         (Byte \in Ascii /\ Eat(node)) \/ Goto(node) \/ UrlEnds \/ Fail("INVALID_URL")
  PROVE  Sound(lo)'
<1>1. a \in PlainNodes /\ node \in PlainNodes
  BY DEF PlainNodes
<1>2. CASE Byte \in Ascii /\ Eat(node)
  BY <1>1, <1>2, PlainSound, AsciiBytes DEF Eat
<1>3. CASE Goto(node)
  BY <1>1, <1>3, PlainSound DEF Goto
<1>4. CASE UrlEnds
  <2>1. PICK b \in {"url_skip_to_http", "url_skip_lf_to_http09", "url_skip_to_http09"} :
          Move(b, 0, Unspanned, Delivered(p))
    BY <1>4 DEF UrlEnds, EndSpan
  <2>2. b \in Free /\ p + 0 = p
    BY Here DEF Free, Between
  <2> QED
    BY <1>1, <2>1, <2>2, PlainEndSound
<1>5. CASE Fail("INVALID_URL")
  BY <1>5, FailSound
<1> QED
  BY <1>2, <1>3, <1>4, <1>5

LEMMA RequestLineSound ==
  ASSUME Typed, ParserInv, NEW lo, Sound(lo), info' = info, RequestLineStep
  PROVE  Sound(lo)'
<1>0. /\ {"*", "/", ":", "?", "@", "#", "."} \subseteq Ascii
      /\ {"start", "req_first_space_before_url", "req_spaces_before_url",
          "url_entry_connect", "url_entry_normal", "url_to_http", "url_to_http_09",
          "url_skip_lf_to_http09_1", "req_http_start", "req_pri_upgrade",
          "req_http_complete", "req_http_complete_crlf", "headers_start"} \subseteq Free
      /\ request \in RequestType
  BY AsciiBytes DEF Punctuation, Free, Between, Typed, RequestOK
<1>1. CASE Start
  <2>1. CASE Eat("start")
    BY <1>0, <2>1, PassSound
  <2>2. CASE Move("after_start_req", 0,
                  [Spanned("on_method", p) EXCEPT !.matched = <<>>], request)
    <3>1. p + 0 = p /\ p \in Nat /\ "after_start_req" \in PlainNodes
      BY <1>1, Here DEF Start, PlainNodes
    <3> QED
      BY <2>2, <3>1, SpanKept, PlainBegins
  <2> QED
    BY <1>1, <2>1, <2>2 DEF Start
<1>2. CASE AfterStartReq
  <2> DEFINE words == Methods \cap DOMAIN Spell
             s     == Append(parser.matched, Byte)
  <2>1. At("after_start_req") /\ "after_start_req" \in PlainNodes
        /\ words \in SUBSET DOMAIN Spell /\ parser.matched \in Seq(Bytes)
    BY <1>2 DEF AfterStartReq, PlainNodes, Typed, FieldsOK, ParserType
  <2>2. Extends(s, words) \/ Matches(s, words) # {} => Byte \notin Lead \cup Cont
    <3> HIDE DEF words
    <3> QED
      BY <2>1, WordBytes, AsciiBytes
  <2>3. CASE Extends(s, words) /\ Move("after_start_req", 1, Matched(s), request)
    BY <2>1, <2>2, <2>3, SpanKept, PlainSound
  <2>4. ASSUME NEW m, NEW k \in {0, 1}, k = 1 => Byte \notin Lead \cup Cont,
               MethodComplete(m, k)
        PROVE  Sound(lo)'
    <3> DEFINE r == Delivered(p + k)
               v == [r EXCEPT !.method = {r.buf["on_method"]}, !.buf["on_method"] = <<>>]
    <3>1. p + k \in Int /\ p + k <= Len(stream) + 1
      BY <2>1, Here
    <3>2. r \in RequestType
      BY <2>1, <3>1, DeliveredOK, SpanTable
    <3>3. v.aborted = Delivered(p + k).aborted
      BY <3>2, AbortedKept
    <3>4. Move("req_first_space_before_url", k,
               [Unspanned EXCEPT !.method = m, !.matched = <<>>], v)
      BY <2>4 DEF MethodComplete
    <3> HIDE DEF v
    <3> QED
      BY <1>0, <2>1, <2>4, <3>3, <3>4, PlainEndSound
  <2>5. CASE Fail("INVALID_METHOD")
    BY <2>5, FailSound
  <2> QED
    BY <1>2, <2>2, <2>3, <2>4, <2>5 DEF AfterStartReq
<1>3. CASE \/ ReqFirstSpaceBeforeUrl \/ ReqSpacesBeforeUrl \/ UrlSkipToHttp
           \/ UrlSkipToHttp09 \/ UrlSkipLfToHttp09 \/ UrlSkipLfToHttp091
           \/ ReqHttpComplete \/ ReqHttpCompleteCrlf
  BY <1>0, <1>3, PassSound, FailSound
     DEF ReqFirstSpaceBeforeUrl, ReqSpacesBeforeUrl, UrlSkipToHttp, UrlSkipToHttp09,
         UrlSkipLfToHttp09, UrlSkipLfToHttp091, ReqHttpComplete, ReqHttpCompleteCrlf
<1>4. ASSUME NEW node, NEW first \in UrlNodes, UrlEntry(node, first) PROVE Sound(lo)'
  <2>1. CASE Fail("INVALID_URL")
    BY <2>1, FailSound
  <2>2. CASE Move(first, 0, Spanned("on_url", p), request)
    <3>1. p + 0 = p /\ p \in Nat /\ first \in PlainNodes
      BY <1>4, Here DEF UrlEntry, PlainNodes
    <3> QED
      BY <2>2, <3>1, SpanKept, PlainBegins
  <2> QED
    BY <1>4, <2>1, <2>2 DEF UrlEntry
<1>5. CASE UrlEntryConnect \/ UrlEntryNormal
  BY <1>4, <1>5 DEF UrlEntryConnect, UrlEntryNormal, UrlNodes
<1>6. CASE UrlStart \/ UrlSchema \/ UrlSchemaDelim \/ UrlSchemaDelim1
  BY <1>0, <1>6, AsciiBytes, UrlSound
     DEF UrlStart, UrlSchema, UrlSchemaDelim, UrlSchemaDelim1, UrlNodes
<1>7. CASE UrlServer \/ UrlServerWithAt
  BY <1>0, <1>7, AsciiBytes, UrlSound DEF UrlServer, UrlServerWithAt, UrlNodes
<1>8. CASE UrlPath \/ UrlQueryOrFragment
  BY <1>0, <1>8, AsciiBytes, UrlSound DEF UrlPath, UrlQueryOrFragment, UrlNodes
<1>9. CASE UrlQuery \/ UrlFragment
  BY <1>0, <1>9, AsciiBytes, UrlSound DEF UrlQuery, UrlFragment, UrlNodes
<1>10. CASE UrlToHttp \/ UrlToHttp09
  <2>1. UrlComplete.aborted = request.aborted
    BY <1>0, AbortedKept DEF UrlComplete
  <2>2. Fail("INVALID_URL")
          \/ \E node \in Free : \E q : Move(node, 0, q, UrlComplete)
    BY <1>0, <1>10 DEF UrlToHttp, UrlToHttp09
  <2> QED
    BY <2>1, <2>2, FreeSound, FailSound
<1>11. CASE ReqHttpStart
  <2> DEFINE s == Append(parser.matched, Byte)
  <2>1. CASE Eat("req_http_start")
    BY <1>0, <2>1, PassSound
  <2>2. CASE Move("req_http_start", 1, Matched(s), request)
    BY <1>0, <2>2, FreeSound
  <2>3. CASE Move("req_http_major", 1,
                  [Spanned("on_version", p + 1) EXCEPT !.matched = <<>>], request)
    <3>1. p + 1 \in Nat /\ "req_http_major" \in PlainNodes
      BY <1>11, Here DEF ReqHttpStart, PlainNodes, VersionNodes
    <3> DEFINE q == [Spanned("on_version", p + 1) EXCEPT !.matched = <<>>]
    <3>2. q.span.from = p + 1
      BY SpanKept
    <3> HIDE DEF q
    <3>3. Move("req_http_major", 1, q, request)
      BY <2>3 DEF q
    <3> QED
      BY <3>1, <3>2, <3>3, PlainBegins
  <2>4. CASE Fail("INVALID_CONSTANT")
    BY <2>4, FailSound
  <2> QED
    BY <1>11, <2>1, <2>2, <2>3, <2>4 DEF ReqHttpStart
<1>12. CASE ReqHttpMajor \/ ReqHttpDot
  <2>1. /\ {"req_http_major", "req_http_dot", "req_http_minor"} \subseteq PlainNodes
        /\ "." \notin Lead \cup Cont /\ \A b \in Digit : b \notin Lead \cup Cont
    BY <1>0, AsciiBytes DEF PlainNodes, VersionNodes
  <2>2. CASE Fail("INVALID_VERSION")
    BY <2>2, FailSound
  <2>3. CASE At("req_http_major") /\ Byte \in Digit
             /\ Move("req_http_dot", 1, [parser EXCEPT !.http_major = Value(Byte)], request)
    BY <2>1, <2>3, SpanKept, PlainSound
  <2>4. CASE At("req_http_dot") /\ Byte = "." /\ Eat("req_http_minor")
    BY <2>1, <2>4, PlainSound DEF Eat
  <2> QED
    BY <1>12, <2>2, <2>3, <2>4 DEF ReqHttpMajor, ReqHttpDot
<1>13. CASE ReqHttpMinor
  <2>1. At("req_http_minor") /\ "req_http_minor" \in PlainNodes
    BY <1>13 DEF ReqHttpMinor, PlainNodes, VersionNodes
  <2>2. CASE Fail("INVALID_VERSION")
    BY <2>2, FailSound
  <2>3. CASE Byte \in Digit /\ VersionComplete
    <3> DEFINE r == Delivered(p + 1)
               v == [r EXCEPT !.version = {r.buf["on_version"]}, !.buf["on_version"] = <<>>]
               node == IF parser.method = "PRI" THEN "req_pri_upgrade" ELSE "req_http_complete"
    <3>1. p + 1 \in Int /\ p + 1 <= Len(stream) + 1
      BY <2>1, Here
    <3>2. r \in RequestType
      BY <2>1, <3>1, DeliveredOK, SpanTable DEF VersionNodes
    <3>3. v.aborted = Delivered(p + 1).aborted
      BY <3>2, AbortedKept
    <3>4. Move(node, 1, [Unspanned EXCEPT !.http_minor = Value(Byte)], v)
      BY <2>3 DEF VersionComplete
    <3>5. node \in Free /\ Byte \notin Lead \cup Cont
      BY <1>0, <2>3, AsciiBytes
    <3> HIDE DEF v, node
    <3> QED
      BY <2>1, <3>3, <3>4, <3>5, PlainEndSound
  <2> QED
    BY <1>13, <2>2, <2>3 DEF ReqHttpMinor
<1>14. CASE ReqPriUpgrade
  BY <1>0, <1>14, FreeSound, FailSound DEF ReqPriUpgrade
<1> QED
  BY <1>1, <1>2, <1>3, <1>5, <1>6, <1>7, <1>8, <1>9, <1>10, <1>11, <1>12, <1>13, <1>14
     DEF RequestLineStep

----------------------------------------------------------------------------
(* The headers.                                                            *)

(* The end of a span, in a state that asks for nothing.                    *)
LEMMA FreeEnds ==
  ASSUME NEW lo, Sound(lo), info' = info, NEW node \in Free, NEW k, NEW q, NEW r,
         Move(node, k, q, r), info => ~r.aborted
  PROVE  Sound(lo)'
<1>1. Decoding(lo, node, p + k, q)
  BY FreeNodes DEF Decoding
<1> QED
  BY <1>1, MoveSound

LEMMA FieldCompleteSound ==
  ASSUME Typed, ParserInv, NEW lo, Sound(lo), info' = info, NEW a \in FieldNodes, At(a),
         \/ Byte = ":" /\ FieldComplete
         \/ \E e : FailAfterSpan(e)
  PROVE  Sound(lo)'
<1>1. a \in PlainNodes /\ "error" \in Free /\ p + 0 = p
  BY Here DEF PlainNodes, Free, Between
<1>2. CASE \E e : FailAfterSpan(e)
  BY <1>1, <1>2, PlainEndSound DEF FailAfterSpan
<1>3. CASE Byte = ":" /\ EndSpan("header_value_discard_ws", 1)
  <2>1. Delivered(p).aborted = request.aborted
    BY <1>1, PlainEnds
  <2>2. Byte \notin Lead
    BY <1>3, AsciiBytes DEF Punctuation
  <2> QED
    BY <1>3, <2>1, <2>2, ClearSound DEF EndSpan, Sound
<1> QED
  BY <1>2, <1>3 DEF FieldComplete

LEMMA ValueBegins ==
  ASSUME Typed, NEW lo \in 1 .. p, Sound(lo), info' = info, NEW a, At(a),
         a \in {"header_value_discard_ws", "header_value_lws"},
         NEW node \in ValueNodes \ {"header_value_otherwise"},
         NEW v, v.span.from = p, Move(node, 0, v, request)
  PROVE  Sound(lo)'
<1>1. p + 0 = p /\ lo <= p
  BY Here
<1>2. info => Clear(lo, p)
  BY NodeKinds DEF Sound, Decoding, At
<1>3. Decoding(lo, node, p, v)
  BY <1>1, <1>2, NodeKinds DEF Decoding
<1> QED
  BY <1>1, <1>3, MoveSound DEF Sound

LEMMA BeginValueSound ==
  ASSUME Typed, NEW lo \in 1 .. p, Sound(lo), info' = info, NEW a, At(a),
         a \in {"header_value_discard_ws", "header_value_lws"},
         NEW q \in ParserType, BeginValue(q)
  PROVE  Sound(lo)'
<1> DEFINE v == [q EXCEPT !.span = [cb |-> "on_header_value", from |-> p], !.matched = <<>>]
<1>1. /\ v.span.from = p
      /\ \A f : [v EXCEPT !.flags = @ \cup f].span.from = p
      /\ \A f, h : [v EXCEPT !.flags = @ \cup f, !.header_state = h].span.from = p
  BY DEF ParserType
<1>2. {"header_value_connection", "header_value_content_length", "header_value_te_chunked",
       "header_value"} \subseteq ValueNodes \ {"header_value_otherwise"}
  BY DEF ValueNodes
<1>3. \/ \E e : Fail(e)
      \/ \E node \in {"header_value_connection", "header_value_content_length",
                      "header_value_te_chunked", "header_value"} :
           \E w : w.span.from = p /\ Move(node, 0, w, request)
  <2> HIDE DEF v
  <2>1. CASE \/ Move("header_value_connection", 0, v, request)
             \/ Move("header_value_content_length", 0, v, request)
             \/ Move("header_value", 0, v, request)
    BY <1>1, <2>1
  <2>2. CASE Move("header_value_te_chunked", 0,
                  [v EXCEPT !.flags = @ \cup {"F_TRANSFER_ENCODING"}], request)
    BY <1>1, <2>2
  <2>3. CASE Move("header_value", 0,
                  [v EXCEPT !.flags = @ \cup {"F_UPGRADE"}, !.header_state = "GENERAL"],
                  request)
    BY <1>1, <2>3
  <2> QED
    BY <2>1, <2>2, <2>3 DEF BeginValue, v
<1> QED
  BY <1>2, <1>3, ValueBegins, FailSound

(* A callback at the end of a value.                                       *)
LEMMA ValueEndSound ==
  ASSUME Typed, ParserInv, NEW lo \in 1 .. p, Sound(lo), info' = info,
         NEW a \in ValueNodes, At(a), Byte \notin Cont \/ a \in LengthNodes,
         \/ \E e : FailAfterSpan(e)
         \/ EndSpan("header_value_almost_done", 1)
  PROVE  Sound(lo)'
<1>1. info => ~Delivered(p).aborted
  BY ValueEnds
<1>2. {"error", "header_value_almost_done"} \subseteq Free
  BY DEF Free, Between
<1> QED
  BY <1>1, <1>2, FreeEnds DEF FailAfterSpan, EndSpan

LEMMA InsertKept ==
  ASSUME Typed PROVE InsertHeader.aborted = request.aborted
  BY DEF Typed, RequestOK, RequestType, InsertHeader

LEMMA FieldsKept ==
  ASSUME Typed
  PROVE  /\ Committed.span = parser.span
         /\ \A b, d : MulAdd(b, d).span = parser.span
         /\ \A f : [parser EXCEPT !.flags = @ \cup f].span = parser.span
  BY DEF Typed, FieldsOK, ParserType, Committed, MulAdd

(* The names.                                                              *)
LEMMA FieldSound ==
  ASSUME Typed, ParserInv, NEW lo \in 1 .. p, Sound(lo), info' = info,
         HeadersStart \/ HeaderFieldStart \/ HeaderField \/ HeaderFieldColon
           \/ HeaderFieldGeneral
  PROVE  Sound(lo)'
<1>0. /\ FieldNodes \subseteq PlainNodes
      /\ {"header_field", "header_field_colon", "header_field_general"} \subseteq FieldNodes
      /\ {"header_field_start", "headers_almost_done"} \subseteq Free
  BY DEF PlainNodes, FieldNodes, Free, Between
<1>1. CASE HeadersStart
  BY <1>0, <1>1, PassSound, FailSound DEF HeadersStart
<1>2. CASE HeaderFieldStart
  <2>1. CASE Move("header_field", 0,
                  [Spanned("on_header_field", p) EXCEPT !.matched = <<>>], request)
    <3>1. p + 0 = p /\ p \in Nat
      BY <1>2, Here DEF HeaderFieldStart
    <3> QED
      BY <1>0, <2>1, <3>1, SpanKept, PlainBegins
  <2>2. CASE Eat("headers_almost_done") \/ Fail("INVALID_HEADER_TOKEN")
    BY <1>0, <2>2, PassSound, FailSound
  <2> QED
    BY <1>2, <2>1, <2>2 DEF HeaderFieldStart
<1>3. CASE HeaderField
  <2> DEFINE words == DOMAIN FieldState \cap DOMAIN Spell
             s     == Append(parser.matched, LowerOf(Byte))
  <2>1. At("header_field") /\ parser.matched \in Seq(Bytes) /\ words \in SUBSET DOMAIN Spell
    BY <1>3 DEF HeaderField, Typed, FieldsOK, ParserType
  <2>2. Extends(s, words) \/ Matches(s, words) # {} => Byte \notin Lead \cup Cont
    <3> HIDE DEF words
    <3> QED
      BY <2>1, WordBytes, LowerAscii, AsciiBytes
  <2>3. CASE Extends(s, words) /\ Move("header_field", 1, Matched(s), request)
    BY <1>0, <2>1, <2>2, <2>3, SpanKept, PlainSound
  <2>4. CASE \E w \in Matches(s, words) :
               Move("header_field_colon", 1, InState(FieldState[w]), request)
    BY <1>0, <2>1, <2>2, <2>4, SpanKept, PlainSound
  <2>5. CASE Move("header_field_general", 0, InState("GENERAL"), request)
    BY <1>0, <2>1, <2>5, SpanKept, PlainSound
  <2> QED
    BY <1>3, <2>3, <2>4, <2>5 DEF HeaderField
<1>4. CASE HeaderFieldColon
  <2>1. CASE Move("header_field_general", 0, InState("GENERAL"), request)
    BY <1>0, <1>4, <2>1, SpanKept, PlainSound DEF HeaderFieldColon
  <2> QED
    BY <1>0, <1>4, <2>1, FieldCompleteSound DEF HeaderFieldColon
<1>5. CASE HeaderFieldGeneral
  <2>1. CASE Byte \in TokenByte /\ Eat("header_field_general")
    BY <1>0, <1>5, <2>1, AsciiBytes, PlainSound DEF HeaderFieldGeneral, Eat
  <2> QED
    BY <1>0, <1>5, <2>1, FieldCompleteSound, FailSound DEF HeaderFieldGeneral
<1> QED
  BY <1>1, <1>2, <1>3, <1>4, <1>5

(* Around the values.                                                      *)
LEMMA AroundSound ==
  ASSUME Typed, ParserInv, NEW lo \in 1 .. p, Sound(lo), info' = info,
         HeaderValueDiscardWs \/ HeaderValueDiscardWsAlmostDone \/ HeaderValueDiscardLws
           \/ HeaderValueAlmostDone \/ HeaderValueLws
  PROVE  Sound(lo)'
<1>0. /\ {"header_value_discard_ws_almost_done", "header_value_discard_lws",
          "header_field_start"} \subseteq Free
      /\ {"HT", "SP", "LF"} \cap Lead = {}
  BY AsciiBytes DEF Free, Between
<1>1. parser \in ParserType /\ InState("GENERAL") \in ParserType
  BY EmptySeq DEF Typed, FieldsOK, ParserType, InState, HeaderStates
<1>2. CASE HeaderValueDiscardWs
  <2>1. CASE Byte \in {"HT", "SP"} /\ Eat("header_value_discard_ws")
    BY <1>0, <1>2, <2>1, ClearSound DEF HeaderValueDiscardWs, Eat, Sound
  <2>2. CASE Fail("INVALID_HEADER_TOKEN") \/ Eat("header_value_discard_ws_almost_done")
    BY <1>0, <2>2, PassSound, FailSound
  <2>3. CASE BeginValue(parser)
    BY <1>1, <1>2, <2>3, BeginValueSound DEF HeaderValueDiscardWs
  <2> QED
    BY <1>2, <2>1, <2>2, <2>3 DEF HeaderValueDiscardWs
<1>3. CASE HeaderValueDiscardWsAlmostDone
  BY <1>0, <1>3, PassSound, FailSound DEF HeaderValueDiscardWsAlmostDone
<1>4. CASE HeaderValueDiscardLws
  <2>1. CASE Move("header_field_start", 0, Committed, InsertHeader)
    BY <1>0, <2>1, FreeSound, InsertKept
  <2> QED
    BY <1>4, <2>1, FailSound DEF HeaderValueDiscardLws
<1>5. CASE HeaderValueAlmostDone
  <2>1. CASE Byte = "LF" /\ Eat("header_value_lws")
    BY <1>0, <1>5, <2>1, ClearSound DEF HeaderValueAlmostDone, Eat, Sound
  <2> QED
    BY <1>5, <2>1, FailSound DEF HeaderValueAlmostDone
<1>6. CASE HeaderValueLws
  <2>1. CASE Move("header_field_start", 0, Committed, InsertHeader)
    BY <1>0, <2>1, FreeSound, InsertKept
  <2>2. CASE \E q \in ParserType : BeginValue(q)
    BY <1>6, <2>2, BeginValueSound DEF HeaderValueLws
  <2> QED
    BY <1>1, <1>6, <2>1, <2>2 DEF HeaderValueLws
<1> QED
  BY <1>2, <1>3, <1>4, <1>5, <1>6

(* The values.                                                             *)
LEMMA ValuesSound ==
  ASSUME Typed, ParserInv, NEW lo \in 1 .. p, Sound(lo), info' = info,
         \/ HeaderValue \/ HeaderValueOtherwise \/ HeaderValueConnection
         \/ HeaderValueConnectionWs \/ HeaderValueConnectionToken
         \/ HeaderValueContentLength \/ HeaderValueContentLengthWs
         \/ HeaderValueTeChunked \/ HeaderValueTeChunkedLast \/ HeaderValueTeToken
         \/ HeaderValueTeTokenOws
  PROVE  Sound(lo)'
<1> DEFINE Inner == ValueNodes \ (LengthNodes \cup {"header_value_otherwise"})
<1>0. /\ Cont \subseteq Text /\ {"CR", "LF", ",", "SP"} \cap (Lead \cup Cont) = {}
      /\ Digit \cap Lead = {}
  BY AsciiBytes DEF Text, Punctuation
<1>1. /\ {"header_value", "header_value_connection", "header_value_connection_ws",
          "header_value_connection_token", "header_value_te_chunked",
          "header_value_te_chunked_last", "header_value_te_token",
          "header_value_te_token_ows"} \subseteq Inner
      /\ LengthNodes \subseteq ValueNodes
      /\ {"header_value_content_length", "header_value_content_length_ws"} \subseteq LengthNodes
      /\ "header_value_otherwise" \in ValueNodes
  BY DEF ValueNodes, LengthNodes
<1> HIDE DEF Inner
<1>2. ASSUME NEW a \in ValueNodes, At(a), NEW node \in Inner, NEW k,
             NEW q, q.span = parser.span, Move(node, k, q, request)
      PROVE  Sound(lo)'
  BY <1>2, ValueSound DEF Inner
<1>3. ASSUME NEW a \in ValueNodes, At(a), NEW node \in Inner, Eat(node) \/ Goto(node)
      PROVE  Sound(lo)'
  BY <1>2, <1>3 DEF Eat, Goto
<1>4. ASSUME NEW a \in ValueNodes, At(a), Byte \notin Cont, Goto("header_value_otherwise")
      PROVE  Sound(lo)'
  BY <1>4, OtherwiseSound DEF Goto
<1>5. Inner \subseteq ValueNodes
  BY DEF Inner
<1>6. CASE HeaderValue \/ HeaderValueConnectionToken
  BY <1>0, <1>1, <1>3, <1>4, <1>5, <1>6 DEF HeaderValue, HeaderValueConnectionToken
<1>7. CASE HeaderValueOtherwise
  <2>1. At("header_value_otherwise") /\ Byte \notin Cont
    BY <1>7 DEF HeaderValueOtherwise, Sound, Decoding, At, Byte
  <2> QED
    BY <1>1, <1>7, <2>1, ValueEndSound DEF HeaderValueOtherwise
<1>8. CASE HeaderValueConnection
  BY <1>1, <1>2, <1>3, <1>5, <1>8, SpanKept DEF HeaderValueConnection
<1>9. CASE HeaderValueConnectionWs
  BY <1>0, <1>1, <1>2, <1>3, <1>4, <1>5, <1>9, SpanKept, FieldsKept
     DEF HeaderValueConnectionWs
<1>10. CASE HeaderValueContentLength
  <2>1. At("header_value_content_length")
    BY <1>10 DEF HeaderValueContentLength
  <2>2. CASE Byte \in Digit
             /\ Move("header_value_content_length", 1, MulAdd(10, Value(Byte)), request)
    BY <1>0, <1>1, <2>1, <2>2, FieldsKept, LengthSound
  <2>3. CASE FailAfterSpan("INVALID_CONTENT_LENGTH")
    BY <1>1, <2>1, <2>3, ValueEndSound
  <2>4. CASE Goto("header_value_content_length_ws")
    BY <1>1, <2>1, <2>4, LengthSound DEF Goto
  <2> QED
    BY <1>10, <2>2, <2>3, <2>4 DEF HeaderValueContentLength
<1>11. CASE HeaderValueContentLengthWs
  <2>1. At("header_value_content_length_ws")
    BY <1>11 DEF HeaderValueContentLengthWs
  <2>2. CASE Byte = "SP" /\ Eat("header_value_content_length_ws")
    BY <1>0, <1>1, <2>1, <2>2, LengthSound DEF Eat
  <2>3. CASE Byte \in {"CR", "LF"}
             /\ Move("header_value_otherwise", 0,
                     [parser EXCEPT !.flags = @ \cup {"F_CONTENT_LENGTH"}], request)
    BY <1>0, <1>1, <2>1, <2>3, FieldsKept, OtherwiseSound
  <2>4. CASE FailAfterSpan("INVALID_CONTENT_LENGTH")
    BY <1>1, <2>1, <2>4, ValueEndSound
  <2> QED
    BY <1>11, <2>2, <2>3, <2>4 DEF HeaderValueContentLengthWs
<1>12. CASE HeaderValueTeChunked
  BY <1>1, <1>2, <1>5, <1>12, SpanKept DEF HeaderValueTeChunked
<1>13. CASE HeaderValueTeChunkedLast
  <2>1. At("header_value_te_chunked_last") /\ "header_value_te_chunked_last" \in ValueNodes
    BY <1>1, <1>5, <1>13 DEF HeaderValueTeChunkedLast
  <2>2. CASE Byte \in {"CR", "LF"}
             /\ Move("header_value_otherwise", 0, InState("TRANSFER_ENCODING_CHUNKED"), request)
    BY <1>0, <2>1, <2>2, SpanKept, OtherwiseSound
  <2>3. CASE Byte = "," /\ FailAfterSpan("INVALID_TRANSFER_ENCODING")
    BY <1>0, <2>1, <2>3, ValueEndSound
  <2>4. CASE Eat("header_value_te_chunked_last") \/ Goto("header_value_te_token")
    BY <1>1, <1>3, <2>1, <2>4
  <2> QED
    BY <1>13, <2>2, <2>3, <2>4 DEF HeaderValueTeChunkedLast
<1>14. CASE HeaderValueTeToken \/ HeaderValueTeTokenOws
  BY <1>1, <1>2, <1>3, <1>5, <1>14, SpanKept DEF HeaderValueTeToken, HeaderValueTeTokenOws
<1> QED
  BY <1>6, <1>7, <1>8, <1>9, <1>10, <1>11, <1>12, <1>13, <1>14

----------------------------------------------------------------------------
(* The end of the head, and bodies.                                        *)

LEMMA MessageEndSound ==
  ASSUME NEW lo, Sound(lo), info' = info, NEW k, NEW q, NEW r,
         r.aborted = request.aborted, MessageComplete(k, q, r) \/ AfterMessageComplete(k, q, r)
  PROVE  Sound(lo)'
<1>1. {"start", "closed", "error"} \subseteq Free
  BY DEF Free, Between
<1>2. \E node \in {"start", "closed", "error"} : \E v : Move(node, k, v, r)
  BY DEF MessageComplete, AfterMessageComplete, Paused
<1> QED
  BY <1>1, <1>2, FreeSound

LEMMA HeadersAlmostDoneSound ==
  ASSUME Typed, NEW lo, Sound(lo), info' = info, HeadersAlmostDone
  PROVE  Sound(lo)'
<1> DEFINE r == [request EXCEPT !.is_header_complete = TRUE]
<1>1. {"chunk_size_digit", "error", "consume_content_length_1"} \subseteq Free
  BY DEF Free, Between, BodyNodes
<1>2. r.aborted = request.aborted
  BY AbortedKept DEF Typed, RequestOK
<1> HIDE DEF r
<1>3. ASSUME NEW node \in {"chunk_size_digit", "error", "consume_content_length_1"},
             NEW v, Move(node, 1, v, r)
      PROVE  Sound(lo)'
  BY <1>1, <1>2, <1>3, FreeSound
<1>4. CASE HeadersComplete
  <2>1. \/ \E node \in {"chunk_size_digit", "error", "consume_content_length_1"} :
             \E v : Move(node, 1, v, r)
        \/ \E v : AfterMessageComplete(1, v, r)
    BY <1>4 DEF HeadersComplete, Paused, r
  <2> QED
    BY <1>2, <1>3, <2>1, MessageEndSound
<1> QED
  BY <1>4, MessageEndSound, FailSound DEF HeadersAlmostDone

LEMMA BodySound ==
  ASSUME Typed, ParserInv, NEW lo, Sound(lo), info' = info, BodyStep
  PROVE  Sound(lo)'
<1>0. {"chunk_size_digit", "chunk_size", "chunk_size_otherwise", "chunk_size_almost_done",
       "chunk_extensions", "chunk_extension_name", "chunk_extension_value",
       "chunk_extension_quoted_value", "chunk_extension_quoted_value_quoted_pair",
       "chunk_extension_quoted_value_done", "chunk_data_almost_done",
       "chunk_data_almost_done_1", "closed", "header_field_start",
       "consume_content_length", "consume_content_length_1"} \subseteq Free
  BY DEF Free, Between, BodyNodes
<1>1. ASSUME NEW a \in BodyNodes, At(a), NEW n PROVE Delivered(n).aborted = request.aborted
  <2>1. parser.span.cb = "on_body"
    BY <1>1, SpanHere, SpanTable
  <2> QED
    BY <2>1, DeliveredDecodes
<1>2. CASE ConsumeContentLength1 \/ ConsumeContentLength
  <2>1. Delivered(p + AtHand).aborted = request.aborted
    BY <1>1, <1>2 DEF ConsumeContentLength1, ConsumeContentLength, BodyNodes
  <2>2. CASE \E node \in Free : \E k, q : Move(node, k, q, request) \/ Move(node, k, q, Delivered(p + AtHand))
    BY <2>1, <2>2, FreeSound
  <2>3. CASE \E k, q : MessageComplete(k, q, Delivered(p + AtHand))
    BY <2>1, <2>3, MessageEndSound
  <2> QED
    BY <1>0, <1>2, <2>2, <2>3 DEF ConsumeContentLength1, ConsumeContentLength
<1>3. CASE ChunkSizeDigit \/ ChunkSize
  BY <1>0, <1>3, FreeSound, PassSound, FailSound DEF ChunkSizeDigit, ChunkSize, AddHexByte
<1>4. CASE ChunkSizeOtherwise \/ ChunkDataAlmostDone \/ Closed
  BY <1>0, <1>4, PassSound, FailSound DEF ChunkSizeOtherwise, ChunkDataAlmostDone, Closed
<1>5. CASE ChunkSizeAlmostDone \/ ChunkDataAlmostDone1
  BY <1>0, <1>5, FreeSound, FailSound DEF ChunkSizeAlmostDone, ChunkDataAlmostDone1
<1>6. CASE ChunkExtensions \/ ChunkExtensionName \/ ChunkExtensionValue
  BY <1>0, <1>6, PassSound, FailSound
     DEF ChunkExtensions, ChunkExtensionName, ChunkExtensionValue
<1>7. CASE ChunkExtensionQuotedValue \/ ChunkExtensionQuotedPair \/ ChunkExtensionQuotedValueDone
  BY <1>0, <1>7, PassSound, FailSound
     DEF ChunkExtensionQuotedValue, ChunkExtensionQuotedPair, ChunkExtensionQuotedValueDone
<1> QED
  BY <1>2, <1>3, <1>4, <1>5, <1>6, <1>7 DEF BodyStep

(* A step of the parser is taken while it executes, and never goes back.   *)
LEMMA ParserAdvances ==
  ASSUME Typed, ParserStep PROVE executing /\ p' \in Nat /\ p <= p'
<1> DEFINE Advances == p' \in Nat /\ p <= p'
<1>p. p \in Nat
  <2>1. stream \in Seq(Bytes)
    BY Alphabet DEF Typed
  <2>2. Len(stream) \in Nat
    BY <2>1, LenProperties
  <2> QED
    BY <2>2 DEF Typed, Within
<1>0. ASSUME NEW node, NEW k \in Nat, NEW q, NEW r, Move(node, k, q, r)
      PROVE  Advances
  BY <1>0, <1>p DEF Move
<1>e. \A a : At(a) => executing
  BY DEF At
<1>a. AtHand \in Nat
  <2>1. parser.content_length \in Nat /\ p \in Nat /\ endp \in Nat /\ p <= endp
    <3>1. stream \in Seq(Bytes)
      BY Alphabet DEF Typed
    <3>2. Len(stream) \in Nat
      BY <3>1, LenProperties
    <3> QED
      BY <3>2, LlHttpAssumption DEF LlHttpAssumption, Typed, Within, FieldsOK, ParserType
  <2> QED
    BY <2>1 DEF AtHand
<1> HIDE DEF Advances
<1>1. ASSUME RequestLineStep PROVE Advances
  BY <1>0, <1>a, <1>1
     DEF RequestLineStep, Start, AfterStartReq, ReqFirstSpaceBeforeUrl,
         ReqSpacesBeforeUrl, UrlEntryConnect, UrlEntryNormal, UrlStart, UrlSchema,
         UrlSchemaDelim, UrlSchemaDelim1, UrlServer, UrlServerWithAt, UrlPath,
         UrlQueryOrFragment, UrlQuery, UrlFragment, UrlSkipToHttp, UrlToHttp,
         UrlSkipToHttp09, UrlSkipLfToHttp09, UrlSkipLfToHttp091, UrlToHttp09,
         ReqHttpStart, ReqHttpMajor, ReqHttpDot, ReqHttpMinor, ReqPriUpgrade,
         ReqHttpComplete, ReqHttpCompleteCrlf, Eat, Goto, Fail, EndSpan,
         MethodComplete, UrlEntry, UrlEnds, VersionComplete
<1>2. ASSUME HeaderStep PROVE Advances
  BY <1>0, <1>a, <1>2
     DEF HeaderStep, HeadersStart, HeaderFieldStart, HeaderField, HeaderFieldColon,
         HeaderFieldGeneral, HeaderValueDiscardWs, HeaderValueDiscardWsAlmostDone,
         HeaderValueDiscardLws, HeaderValue, HeaderValueOtherwise,
         HeaderValueAlmostDone, HeaderValueLws, HeaderValueConnection,
         HeaderValueConnectionWs, HeaderValueConnectionToken, HeaderValueContentLength,
         HeaderValueContentLengthWs, HeaderValueTeChunked, HeaderValueTeChunkedLast,
         HeaderValueTeToken, HeaderValueTeTokenOws, HeadersAlmostDone, Eat, Goto, Fail,
         EndSpan, FailAfterSpan, FieldComplete, BeginValue, HeadersComplete,
         MessageComplete, AfterMessageComplete, Paused
<1>3. ASSUME BodyStep PROVE Advances
  BY <1>0, <1>a, <1>3
     DEF BodyStep, ConsumeContentLength1, ConsumeContentLength, ChunkSizeDigit,
         ChunkSize, ChunkSizeOtherwise, ChunkSizeAlmostDone, ChunkExtensions,
         ChunkExtensionName, ChunkExtensionValue, ChunkExtensionQuotedValue,
         ChunkExtensionQuotedPair, ChunkExtensionQuotedValueDone, ChunkDataAlmostDone,
         ChunkDataAlmostDone1, Closed, Eat, Goto, Fail, AddHexByte, MessageComplete,
         AfterMessageComplete, Paused
<1>4. ASSUME RequestLineStep PROVE executing
  BY <1>e, <1>4
     DEF RequestLineStep, Start, AfterStartReq, ReqFirstSpaceBeforeUrl,
         ReqSpacesBeforeUrl, UrlEntryConnect, UrlEntryNormal, UrlStart, UrlSchema,
         UrlSchemaDelim, UrlSchemaDelim1, UrlServer, UrlServerWithAt, UrlPath,
         UrlQueryOrFragment, UrlQuery, UrlFragment, UrlSkipToHttp, UrlToHttp,
         UrlSkipToHttp09, UrlSkipLfToHttp09, UrlSkipLfToHttp091, UrlToHttp09,
         ReqHttpStart, ReqHttpMajor, ReqHttpDot, ReqHttpMinor, ReqPriUpgrade,
         ReqHttpComplete, ReqHttpCompleteCrlf, Eat, Goto, Fail, EndSpan,
         MethodComplete, UrlEntry, UrlEnds, VersionComplete
<1>5. ASSUME HeaderStep PROVE executing
  BY <1>e, <1>5
     DEF HeaderStep, HeadersStart, HeaderFieldStart, HeaderField, HeaderFieldColon,
         HeaderFieldGeneral, HeaderValueDiscardWs, HeaderValueDiscardWsAlmostDone,
         HeaderValueDiscardLws, HeaderValue, HeaderValueOtherwise,
         HeaderValueAlmostDone, HeaderValueLws, HeaderValueConnection,
         HeaderValueConnectionWs, HeaderValueConnectionToken, HeaderValueContentLength,
         HeaderValueContentLengthWs, HeaderValueTeChunked, HeaderValueTeChunkedLast,
         HeaderValueTeToken, HeaderValueTeTokenOws, HeadersAlmostDone, Eat, Goto, Fail,
         EndSpan, FailAfterSpan, FieldComplete, BeginValue, HeadersComplete,
         MessageComplete, AfterMessageComplete, Paused
<1>6. ASSUME BodyStep PROVE executing
  BY <1>e, <1>6
     DEF BodyStep, ConsumeContentLength1, ConsumeContentLength, ChunkSizeDigit,
         ChunkSize, ChunkSizeOtherwise, ChunkSizeAlmostDone, ChunkExtensions,
         ChunkExtensionName, ChunkExtensionValue, ChunkExtensionQuotedValue,
         ChunkExtensionQuotedPair, ChunkExtensionQuotedValueDone, ChunkDataAlmostDone,
         ChunkDataAlmostDone1, Closed, Eat, Goto, Fail, AddHexByte, MessageComplete,
         AfterMessageComplete, Paused
<1> QED
  BY <1>1, <1>2, <1>3, <1>4, <1>5, <1>6 DEF ParserStep, Advances

LEMMA ParserStepSound ==
  ASSUME Typed, ParserInv, NEW lo \in 1 .. p, Sound(lo), info' = info, ParserStep
  PROVE  Sound(lo)' /\ lo \in 1 .. p'
<1>1. Sound(lo)'
  BY RequestLineSound, FieldSound, AroundSound, ValuesSound, HeadersAlmostDoneSound,
     BodySound DEF ParserStep, HeaderStep
<1>2. p' \in Nat /\ p <= p' /\ p \in Nat
  <2>1. stream \in Seq(Bytes)
    BY Alphabet DEF Typed
  <2>2. Len(stream) \in Nat
    BY <2>1, LenProperties
  <2> QED
    BY <2>2, ParserAdvances DEF Typed, Within
<1> QED
  BY <1>1, <1>2

(* What is flushed at the end of a read decodes: the read ends where it    *)
(* could be decoded up to.                                                 *)
LEMMA SpanKinds ==
  \A n : SpanOf(n) \in Callbacks => n \in PlainNodes \cup ValueNodes \cup BodyNodes
  BY DEF SpanOf, Callbacks, PlainNodes

LEMMA ReturnsSound ==
  ASSUME Typed, ParserInv, NEW lo \in 1 .. p, Sound(lo), ExecuteReturns
  PROVE  /\ info => ~request'.aborted
         /\ ~(cur = "header_value_otherwise" /\ parser.error = "OK")
<1>1. /\ stream \in Seq(Bytes) /\ p \in Nat /\ endp \in Nat /\ lo \in Nat /\ 1 <= lo
      /\ lo <= p /\ p <= endp /\ endp <= Len(stream) + 1
  <2>1. stream \in Seq(Bytes)
    BY Alphabet DEF Typed
  <2>2. Len(stream) \in Nat
    BY <2>1, LenProperties
  <2> QED
    BY <2>1, <2>2 DEF Typed, Within
<1>2. ~(cur = "header_value_otherwise" /\ parser.error = "OK")
  BY <1>1 DEF ExecuteReturns, Sound, Decoding
<1>3. CASE request' = request
  BY <1>2, <1>3 DEF Sound
<1>4. CASE /\ parser.span # NoSpan /\ parser.error = "OK" /\ p = endp
           /\ request' = Delivered(p)
  <2> SUFFICES ASSUME info PROVE ~Delivered(p).aborted
    BY <1>2, <1>4
  <2>1. parser.span.cb = SpanOf(cur) /\ parser.span.cb \in Callbacks
        /\ parser.span.from \in 1 .. p
    BY <1>4 DEF Typed, FieldsOK, ParserInv, Good, Fits
  <2>2. parser.span.from \in Nat /\ 1 <= parser.span.from /\ parser.span.from <= p
    BY <1>1, <2>1
  <2>3. CASE cur \in PlainNodes
    <3>1. Plain(parser.span.from, p)
      BY <1>4, <2>3 DEF Sound, Decoding
    <3>2. Utf8(SubSeq(stream, parser.span.from, p - 1))
      BY <1>1, <1>4, <2>2, <3>1, PlainDecodes
    <3> QED
      BY <3>2, DeliveredDecodes DEF Sound
  <2>4. CASE cur \in ValueNodes
    <3>1. /\ lo <= parser.span.from /\ Clear(lo, parser.span.from)
          /\ Utf8(SubSeq(stream, lo, endp - 1))
      BY <1>4, <2>4 DEF Sound, Decoding
    <3>2. Utf8(SubSeq(stream, parser.span.from, p - 1))
      BY <1>1, <1>4, <2>2, <3>1, PieceDecodes
    <3> QED
      BY <3>2, DeliveredDecodes DEF Sound
  <2>5. CASE cur \in BodyNodes
    <3>1. parser.span.cb = "on_body"
      BY <2>1, <2>5, SpanTable
    <3> QED
      BY <3>1, DeliveredDecodes DEF Sound
  <2> QED
    BY <2>1, <2>3, <2>4, <2>5, SpanKinds
<1> QED
  BY <1>2, <1>3, <1>4 DEF ExecuteReturns

(* A read that decodes begins between characters, and with it every span   *)
(* that goes on in it.                                                     *)
LEMMA ExecuteSound ==
  ASSUME Typed, ParserInv, DecodeInv, NEW n \in Nat, info => Decodes(n), Execute(n),
         info' = info
  PROVE  DecodeInv'
<1>1. /\ endp \in Nat /\ 1 <= endp /\ p' = endp /\ endp' = endp + n /\ executing'
      /\ stream' = stream /\ cur' = cur /\ request' = request /\ parser' = Resumed
  <2>1. stream \in Seq(Bytes)
    BY Alphabet DEF Typed
  <2>2. Len(stream) \in Nat
    BY <2>1, LenProperties
  <2> QED
    BY <2>2 DEF Typed, Within, Execute
<1>2. parser \in ParserType /\ Resumed.error = parser.error
  BY DEF Typed, FieldsOK, ParserType, Resumed
<1>3. ~(cur = "header_value_otherwise" /\ Resumed.error = "OK")
  BY <1>2 DEF DecodeInv, Execute
<1>4. ASSUME Resumed.error = "OK", cur \in PlainNodes \cup ValueNodes
      PROVE  Resumed.span.from = endp
  <2>1. parser.span # NoSpan
    <3>1. parser.span.cb = SpanOf(cur) /\ SpanOf(cur) # "none"
      BY <1>2, <1>4, NodeKinds DEF ParserInv, Good, Fits
    <3> QED
      BY <3>1 DEF NoSpan
  <2> QED
    BY <1>2, <1>4, <2>1 DEF Resumed, ParserType
<1>5. PICK lo \in Nat : lo = endp
  BY <1>1
<1>6. info => Utf8(SubSeq(stream, lo, endp' - 1)) /\ ~request.aborted
  <2>1. endp' - 1 = endp + n - 1
    BY <1>1
  <2> QED
    BY <1>5, <2>1 DEF Decodes, DecodeInv
<1>7. parser'.error = "OK" =>
        /\ cur' \in PlainNodes => \A i \in parser'.span.from .. lo - 1 :
                                     stream'[i] \notin Lead \cup Cont
        /\ cur' # "header_value_otherwise"
        /\ cur' \in ValueNodes => parser'.span.from = lo
  BY <1>1, <1>3, <1>4, <1>5
<1>8. Sound(lo)'
  <2>1. p' = lo
    BY <1>1, <1>5
  <2> QED
    BY <1>1, <1>5, <1>6, <1>7, <2>1 DEF Sound, Decoding, Plain, Clear
<1>9. lo \in 1 .. p' /\ (info => ~request'.aborted)
      /\ ~(cur' = "header_value_otherwise" /\ parser'.error = "OK")
  BY <1>1, <1>3, <1>5, <1>6
<1> QED
  BY <1>8, <1>9 DEF DecodeInv

(* Every step of the channel.                                              *)
LEMMA NextDecodes ==
  ASSUME TypedInv, DecodeInv, [Next]_vars PROVE DecodeInv'
<1>0. Typed /\ ParserInv /\ (executing => phase = "execute")
  BY DEF TypedInv, ChannelTyped
<1>1. ASSUME ~executing, executing' = executing, info' = info, cur' = cur, parser' = parser,
             request'.aborted = request.aborted
      PROVE  DecodeInv'
  BY <1>1 DEF DecodeInv
<1>2. CASE Parse /\ ParserStep
  <2>1. info' = info /\ executing /\ executing' = executing
    BY <1>0, <1>2, ParserAdvances, ParserIsSteady DEF Parse, channelVars, Steady
  <2>2. PICK lo \in 1 .. p : Sound(lo)
    BY <2>1 DEF DecodeInv
  <2>3. Sound(lo)' /\ lo \in 1 .. p'
    BY <1>0, <1>2, <2>1, <2>2, ParserStepSound
  <2> QED
    BY <2>1, <2>3 DEF DecodeInv, Sound
<1>3. CASE Parse /\ ExecuteReturns
  <2>1. info' = info /\ executing /\ ~executing' /\ cur' = cur /\ parser' = parser
    BY <1>3 DEF Parse, ExecuteReturns, channelVars
  <2>2. PICK lo \in 1 .. p : Sound(lo)
    BY <2>1 DEF DecodeInv
  <2>3. /\ info => ~request'.aborted
        /\ ~(cur = "header_value_otherwise" /\ parser.error = "OK")
    BY <1>0, <1>3, <2>2, ReturnsSound
  <2> QED
    BY <2>1, <2>3 DEF DecodeInv
<1>4. CASE ReadRemote
  <2>1. info' = info /\ ~executing
    BY <1>0, <1>4 DEF ReadRemote
  <2>2. CASE UNCHANGED parserVars
    BY <1>1, <2>1, <2>2 DEF parserVars
  <2>3. CASE \E n \in 1 .. Len(stream) : (info => Decodes(n)) /\ Execute(n)
    <3>1. Len(stream) \in Nat
      BY <1>0, Alphabet, LenProperties DEF Typed
    <3>2. PICK n \in Nat : (info => Decodes(n)) /\ Execute(n)
      BY <2>3, <3>1
    <3> QED
      BY <1>0, <2>1, <3>2, ExecuteSound
  <2> QED
    BY <1>4, <2>2, <2>3 DEF ReadRemote
<1>5. CASE TakeHeaders
  <2>1. request'.aborted = request.aborted
    BY <1>0, <1>5 DEF TakeHeaders, Typed, RequestOK, RequestType
  <2> QED
    BY <1>0, <1>1, <1>5, <2>1 DEF TakeHeaders
<1>6. CASE EndOfHead
  <2>1. info' = info /\ ~executing
    BY <1>0, <1>6 DEF EndOfHead
  <2>2. CASE UNCHANGED parserVars
    BY <1>1, <2>1, <2>2 DEF parserVars
  <2>3. CASE Reset
    BY <2>1, <2>3 DEF Reset, ResetRequest, DecodeInv
  <2> QED
    BY <1>6, <2>2, <2>3 DEF EndOfHead
<1>7. CASE \/ Parsed \/ WriteLine \/ WriteHeaders \/ ForwardReply \/ FlushLocal
           \/ FlushRemote \/ ReadLocal \/ CopyToRemote \/ SocketFails
  <2>1. ~executing /\ info' = info /\ UNCHANGED parserVars
    BY <1>0, <1>7 DEF Parsed, WriteLine, WriteHeaders, ForwardReply, FlushLocal, FlushRemote,
                      ReadLocal, CopyToRemote, SocketFails
  <2> QED
    BY <1>1, <2>1 DEF parserVars
<1>8. CASE CopyToLocal
  BY <1>0, <1>1, <1>8 DEF CopyToLocal
<1>9. CASE UNCHANGED vars
  <2>1. UNCHANGED <<stream, p, endp, executing, cur, parser, request, info>>
    BY <1>9 DEF vars, parserVars, channelVars
  <2> QED
    BY <2>1 DEF DecodeInv, Sound, Decoding, Plain, Clear
<1> QED
  BY <1>2, <1>3, <1>4, <1>5, <1>6, <1>7, <1>8, <1>9 DEF Next, TaskStep, Parse

(* While lines are logged, no callback panics inside the C code, whatever  *)
(* a visitor sends and wherever it is cut: the log line has decoded what   *)
(* was read, and a span never ends inside a character                      *)
(* (llhttp/mod.rs:92-152, client.rs:459-464).                              *)
THEOREM CallbacksNeverAbort == Spec => []CallbacksDecode
<1>1. Init => DecodeInv
  BY DEF Init, ParserInit, ResetRequest, DecodeInv
<1>2. TypedInv /\ DecodeInv /\ [Next]_vars => DecodeInv'
  BY NextDecodes
<1>3. DecodeInv => CallbacksDecode
  BY DEF DecodeInv, CallbacksDecode
<1> QED
  BY <1>1, <1>2, <1>3, TypedInvariance, PTL DEF Spec

-----------------------------------------------------------------------------
(* The length of a body.                                                   *)
(*                                                                         *)
(* That it is the number its digits spell needs what the parser has to     *)
(* hold before the first of them: content_length is 0 unless a length was  *)
(* read (and its flag is set) or a body is being consumed, and the buffer  *)
(* of a value is empty outside values.                                     *)

\* f holds what the first digits come to.
Numbers(f, digits, n) ==
  f = [i \in 0 .. n |-> IF i = 0 THEN 0 ELSE f[i - 1] * 10 + Value(digits[i])]

(* What a number is at an index.                                           *)
LEMMA NumbersStep ==
  ASSUME NEW f, NEW digits, NEW n \in Nat, Numbers(f, digits, n), NEW i \in 0 .. n
  PROVE  f[i] = IF i = 0 THEN 0 ELSE f[i - 1] * 10 + Value(digits[i])
  BY DEF Numbers

(* Any digits have numbers.                                                *)
LEMMA NumbersExist ==
  ASSUME NEW digits, NEW n \in Nat PROVE \E f : Numbers(f, digits, n)
<1> DEFINE T == {k \in Nat : \E f : Numbers(f, digits, k)}
<1>1. 0 \in T
  <2>1. Numbers([i \in 0 .. 0 |-> 0], digits, 0)
    BY DEF Numbers
  <2> QED
    BY <2>1
<1>2. ASSUME NEW k \in Nat, k \in T PROVE k + 1 \in T
  <2>1. PICK f : Numbers(f, digits, k)
    BY <1>2
  <2> DEFINE last == f[k] * 10 + Value(digits[k + 1])
             g == [i \in 0 .. k + 1 |-> IF i = k + 1 THEN last ELSE f[i]]
  <2>2. \A i \in 0 .. k : f[i] = IF i = 0 THEN 0 ELSE f[i - 1] * 10 + Value(digits[i])
    BY <2>1, NumbersStep
  <2>3. \A i \in 0 .. k + 1 :
          g[i] = IF i = 0 THEN 0 ELSE g[i - 1] * 10 + Value(digits[i])
    <3> SUFFICES ASSUME NEW i \in 0 .. k + 1
                 PROVE  g[i] = IF i = 0 THEN 0 ELSE g[i - 1] * 10 + Value(digits[i])
      OBVIOUS
    <3>1. CASE i = k + 1
      <4>1. i # 0 /\ i - 1 = k /\ k \in 0 .. k + 1 /\ k # k + 1
        BY <3>1
      <4>2. g[i] = last /\ g[i - 1] = f[k]
        BY <3>1, <4>1
      <4> HIDE DEF g
      <4> QED
        BY <3>1, <4>1, <4>2
    <3>2. CASE i # k + 1
      <4>1. i \in 0 .. k /\ g[i] = f[i]
        BY <3>2
      <4>2. i # 0 => g[i - 1] = f[i - 1]
        BY <3>2
      <4> HIDE DEF g
      <4> QED
        BY <2>2, <4>1, <4>2
    <3> QED
      BY <3>1, <3>2
  <2>4. Numbers(g, digits, k + 1)
    <3> HIDE DEF last
    <3>1. g = [i \in 0 .. k + 1 |-> g[i]]
      OBVIOUS
    <3> HIDE DEF g
    <3> QED
      BY <2>3, <3>1 DEF Numbers
  <2> QED
    BY <2>4
<1>3. Nat \subseteq T
  <2> HIDE DEF T
  <2> QED
    BY <1>1, <1>2, SetInduction
<1> QED
  BY <1>3

(* They agree where the digits do.                                         *)
LEMMA NumbersAgree ==
  ASSUME NEW c, NEW d, NEW m \in Nat, NEW n \in Nat, NEW f, NEW g,
         Numbers(f, c, m), Numbers(g, d, n), NEW j \in Nat, j <= m, j <= n,
         \A i \in 1 .. j : c[i] = d[i]
  PROVE  f[j] = g[j]
<1> DEFINE T == {k \in Nat : k <= j => f[k] = g[k]}
<1>1. 0 \in T
  <2>1. f[0] = 0 /\ g[0] = 0
    BY NumbersStep
  <2> QED
    BY <2>1
<1>2. ASSUME NEW k \in Nat, k \in T PROVE k + 1 \in T
  <2> SUFFICES ASSUME k + 1 <= j PROVE f[k + 1] = g[k + 1]
    OBVIOUS
  <2>1. f[k] = g[k] /\ c[k + 1] = d[k + 1]
    BY <1>2
  <2>2. k + 1 \in 0 .. m /\ k + 1 \in 0 .. n /\ k + 1 # 0 /\ (k + 1) - 1 = k
    OBVIOUS
  <2>3. f[k + 1] = f[k] * 10 + Value(c[k + 1]) /\ g[k + 1] = g[k] * 10 + Value(d[k + 1])
    BY <2>2, NumbersStep
  <2> QED
    BY <2>1, <2>3
<1>3. Nat \subseteq T
  <2> HIDE DEF T
  <2> QED
    BY <1>1, <1>2, SetInduction
<1> QED
  BY <1>3

(* Number is the last of them.                                             *)
LEMMA NumberIs ==
  ASSUME NEW digits, Len(digits) \in Nat
  PROVE  \E f : Numbers(f, digits, Len(digits)) /\ Number(digits) = f[Len(digits)]
<1> DEFINE f == CHOOSE f : Numbers(f, digits, Len(digits))
<1>1. Number(digits) = f[Len(digits)]
  BY DEF Number, Numbers
<1>2. Numbers(f, digits, Len(digits))
  BY NumbersExist
<1> HIDE DEF f
<1> QED
  BY <1>1, <1>2

(* No digits spell 0, and one more digit spells ten times as much and its  *)
(* own value.                                                              *)
LEMMA NumberOfNothing == Number(<<>>) = 0
<1>1. Len(<<>>) = 0
  OBVIOUS
<1>2. PICK f : Numbers(f, <<>>, 0) /\ Number(<<>>) = f[0]
  BY <1>1, NumberIs
<1> QED
  BY <1>2, NumbersStep

LEMMA NumberOfOneMore ==
  ASSUME NEW S, NEW digits \in Seq(S), NEW b \in S
  PROVE  Number(Append(digits, b)) = Number(digits) * 10 + Value(b)
<1> DEFINE more == Append(digits, b)
           n    == Len(digits)
<1>1. /\ n \in Nat /\ Len(more) = n + 1 /\ more[n + 1] = b
      /\ \A i \in 1 .. n : digits[i] = more[i]
  BY LenProperties, AppendProperties
<1> HIDE DEF more, n
<1>2. PICK f : Numbers(f, digits, n) /\ Number(digits) = f[n]
  BY <1>1, NumberIs DEF n
<1>3. PICK g : Numbers(g, more, n + 1) /\ Number(more) = g[n + 1]
  BY <1>1, NumberIs DEF n
<1>4. f[n] = g[n]
  BY <1>1, <1>2, <1>3, NumbersAgree
<1>5. g[n + 1] = g[n] * 10 + Value(b)
  <2>1. n + 1 \in 0 .. n + 1 /\ n + 1 # 0 /\ (n + 1) - 1 = n /\ n + 1 \in Nat
    BY <1>1
  <2> QED
    BY <1>1, <1>3, <2>1, NumbersStep
<1> QED
  BY <1>2, <1>3, <1>4, <1>5 DEF more

-----------------------------------------------------------------------------
(* A value is being collected: its bytes are in the buffer or in the span. *)
Collecting == ValueNodes \cup {"header_value_almost_done", "header_value_lws"}

(* The body is next: content_length is what is left of it.                 *)
Past ==
  BodyNodes
    \cup {"chunk_size_digit", "chunk_size", "chunk_size_otherwise",
          "chunk_size_almost_done", "chunk_extensions", "chunk_extension_name",
          "chunk_extension_value", "chunk_extension_quoted_value",
          "chunk_extension_quoted_value_quoted_pair",
          "chunk_extension_quoted_value_done", "chunk_data_almost_done",
          "chunk_data_almost_done_1", "closed", "error"}

(* Nothing is counted before the first digit of a length, nor collected    *)
(* before a value; behind the digits the flag says that there were some.   *)
Counted(node, q, r) ==
  q.error = "OK" =>
    /\ node \notin Past \cup LengthNodes /\ "F_CONTENT_LENGTH" \notin q.flags
         => q.content_length = 0
    /\ node \in Collecting \ LengthNodes /\ q.header_state = "CONTENT_LENGTH"
         => "F_CONTENT_LENGTH" \in q.flags
    /\ node \notin Collecting => r.buf["on_header_value"] = <<>>

CountInv == Counted(cur, parser, request) /\ LengthIsAsWritten

-----------------------------------------------------------------------------
(* Updates.                                                                *)

(* Nothing is counted.                                                     *)
Uncounted(q, v) ==
  /\ Shape(v)
  /\ v.content_length = q.content_length /\ v.flags = q.flags
SameValue(r, v) == v.buf["on_header_value"] = r.buf["on_header_value"]

(* The updates that count nothing.                                         *)
LEMMA UpdateUncounted ==
  ASSUME NEW q, Shape(q), NEW s, NEW t
  PROVE  /\ Uncounted(q, q)
         /\ Uncounted(q, [q EXCEPT !.matched = s])
         /\ Uncounted(q, [q EXCEPT !.header_state = s, !.matched = t])
         /\ Uncounted(q, [q EXCEPT !.method = s, !.matched = t])
         /\ Uncounted(q, [q EXCEPT !.http_major = s])
         /\ Uncounted(q, [q EXCEPT !.http_minor = s])
         /\ Uncounted(q, [q EXCEPT !.http_major = s, !.http_minor = t])
         /\ Uncounted(q, [q EXCEPT !.span = NoSpan])
         /\ Uncounted(q, [q EXCEPT !.span = [cb |-> s, from |-> t]])
  BY DEF Uncounted, Shape, ResetParser, NoSpan

LEMMA UncountedTwice ==
  ASSUME NEW q, NEW v, NEW w, Uncounted(q, v), Uncounted(v, w) PROVE Uncounted(q, w)
  BY DEF Uncounted

(* What other callbacks get is no value.                                   *)
LEMMA DeliveredSameValue ==
  ASSUME Typed, parser.span.cb # "on_header_value", NEW n
  PROVE  SameValue(request, Delivered(n))
<1>1. DOMAIN request = DOMAIN ResetRequest /\ DOMAIN request.buf = Callbacks
  BY DEF Typed, RequestOK, RequestType, ResetRequest
<1>2. "on_header_value" \in Callbacks
  BY DEF Callbacks
<1>3. DOMAIN ResetRequest = {"is_header_complete", "method", "url", "version", "headers",
                             "buf", "aborted"}
  BY DEF ResetRequest
<1> QED
  BY <1>1, <1>2, <1>3 DEF Delivered, SameValue

-----------------------------------------------------------------------------
(* Moves.                                                                  *)

(* A move to a state that has its count.                                   *)
LEMMA MoveCounts ==
  ASSUME NEW node, NEW k, NEW q, NEW r, Move(node, k, q, r), Counted(node, q, r),
         node # "header_value_content_length"
  PROVE  CountInv'
  BY DEF Move, CountInv, Counted, LengthIsAsWritten

(* After an error nothing is asked for.                                    *)
LEMMA FailCounts ==
  ASSUME ParserInv, NEW e, e # "OK", Fail(e) \/ FailAfterSpan(e)
  PROVE  CountInv'
<1>1. [parser EXCEPT !.error = e].error = e /\ [Unspanned EXCEPT !.error = e].error = e
  BY DEF ParserInv, Good, Shape, ResetParser, Unspanned
<1> QED
  BY <1>1, MoveCounts DEF Fail, FailAfterSpan, Counted

(* Where nothing is collected nor consumed.                                *)
Outside == Nodes \ (Past \cup Collecting)

(* From such a state to one where no value is collected.                   *)
LEMMA OutsideCounts ==
  ASSUME CountInv, NEW a \in Outside, At(a), NEW b \in Nodes \ Collecting,
         NEW k, NEW q, Uncounted(parser, q), NEW r, SameValue(request, r), Move(b, k, q, r)
  PROVE  CountInv'
<1>1. LengthNodes \subseteq Collecting /\ "header_value_content_length" \in Collecting
  BY DEF LengthNodes, Collecting, ValueNodes
<1>2. Counted(b, q, r)
  BY <1>1 DEF CountInv, Counted, At, Outside, Uncounted, SameValue
<1> QED
  BY <1>1, <1>2, MoveCounts

(* No span of a value is open there, and none ends.                        *)
LEMMA OutsideSpans == \A a \in Outside : SpanOf(a) # "on_header_value"
  BY DEF SpanOf, Outside, Collecting

LEMMA OutsideEnds ==
  ASSUME Typed, ParserInv, NEW a \in Outside, At(a), NEW n
  PROVE  SameValue(request, Delivered(n))
  BY OutsideSpans, DeliveredSameValue DEF ParserInv, Good, Fits, At

(* Consuming a byte, or none.                                              *)
LEMMA OutsideEats ==
  ASSUME ParserInv, CountInv, NEW a \in Outside, At(a), NEW b \in Nodes \ Collecting,
         NEW k, NEW q, Uncounted(parser, q), Move(b, k, q, request)
  PROVE  CountInv'
  BY OutsideCounts DEF SameValue

(* The states of the request line and of the names of headers.             *)
HeadNodes ==
  {"start", "after_start_req", "req_first_space_before_url",
   "req_spaces_before_url", "url_entry_connect", "url_entry_normal",
   "url_skip_to_http", "url_to_http", "url_skip_to_http09", "url_skip_lf_to_http09",
   "url_skip_lf_to_http09_1", "url_to_http_09", "req_http_start", "req_pri_upgrade",
   "req_http_complete", "req_http_complete_crlf", "headers_start", "header_field_start"}
   \cup UrlNodes \cup VersionNodes \cup FieldNodes

LEMMA HeadNodesOutside == HeadNodes \subseteq Outside /\ Outside \subseteq Nodes \ Collecting
  BY DEF HeadNodes, Outside, Nodes, Past, Collecting, ValueNodes, UrlNodes, VersionNodes,
         FieldNodes, BodyNodes

(* The request line.                                                       *)
LEMMA RequestLineCounts ==
  ASSUME Typed, ParserInv, CountInv, RequestLineStep
  PROVE  CountInv'
<1> DEFINE L == HeadNodes
<1>1. ASSUME NEW a \in L, At(a), NEW b \in L, NEW k, NEW q, Uncounted(parser, q),
             NEW r, SameValue(request, r), Move(b, k, q, r)
      PROVE  CountInv'
  BY <1>1, HeadNodesOutside, OutsideCounts
<1>2. ASSUME NEW a \in L, At(a), NEW b \in L, Eat(b) \/ Goto(b)
      PROVE  CountInv'
  BY <1>1, <1>2, UpdateUncounted DEF Eat, Goto, ParserInv, Good, SameValue
<1>3. ASSUME NEW a \in L, At(a), NEW b \in L, NEW k, NEW s, Move(b, k, Matched(s), request)
      PROVE  CountInv'
  BY <1>1, <1>3, UpdateUncounted DEF Matched, ParserInv, Good, SameValue
<1>4. ASSUME NEW c, NEW n, NEW s
      PROVE  /\ Uncounted(parser, Spanned(c, n))
             /\ Uncounted(parser, [Spanned(c, n) EXCEPT !.matched = s])
  <2>1. Uncounted(parser, Spanned(c, n))
    BY UpdateUncounted DEF Spanned, ParserInv, Good
  <2>2. Shape(Spanned(c, n))
    BY <2>1 DEF Uncounted
  <2>3. Uncounted(Spanned(c, n), [Spanned(c, n) EXCEPT !.matched = s])
    BY <2>2, UpdateUncounted
  <2> QED
    BY <2>1, <2>3, UncountedTwice
<1>5. Uncounted(parser, Unspanned) /\ Shape(Unspanned)
  <2>1. Uncounted(parser, Unspanned)
    BY UpdateUncounted DEF Unspanned, ParserInv, Good
  <2> QED
    BY <2>1 DEF Uncounted
<1>6. ASSUME NEW a \in L, At(a), NEW b \in L, NEW k, EndSpan(b, k)
      PROVE  CountInv'
  BY <1>1, <1>5, <1>6, HeadNodesOutside, OutsideEnds DEF EndSpan
<1> HIDE DEF L
<1>7. {"start", "after_start_req", "req_first_space_before_url",
       "req_spaces_before_url", "url_entry_connect", "url_entry_normal",
       "url_skip_to_http", "url_to_http", "url_skip_to_http09", "url_skip_lf_to_http09",
       "url_skip_lf_to_http09_1", "url_to_http_09", "req_http_start", "req_pri_upgrade",
       "req_http_complete", "req_http_complete_crlf", "headers_start"} \subseteq L
  BY DEF L, HeadNodes
<1>8. UrlNodes \cup VersionNodes \subseteq L
  BY DEF L, HeadNodes
<1>9. ASSUME NEW a \in L, At(a), NEW b \in L, NEW k, NEW c, NEW n, NEW s,
             \/ Move(b, k, Spanned(c, n), request)
             \/ Move(b, k, [Spanned(c, n) EXCEPT !.matched = s], request)
      PROVE  CountInv'
  <2>1. SameValue(request, request)
    BY DEF SameValue
  <2> QED
    BY <1>1, <1>4, <1>9, <2>1
<1>10. ASSUME NEW a \in UrlNodes, At(a), UrlEnds PROVE CountInv'
  BY <1>6, <1>7, <1>8, <1>10 DEF UrlEnds
<1>11. SameValue(request, UrlComplete)
  BY DEF UrlComplete, SameValue, Typed, RequestOK, RequestType, Callbacks
<1>12. CASE Start \/ UrlEntryConnect \/ UrlEntryNormal
  BY <1>2, <1>7, <1>8, <1>9, <1>12, FailCounts
     DEF Start, UrlEntryConnect, UrlEntryNormal, UrlEntry, UrlNodes
<1>13. CASE AfterStartReq
  <2>1. ASSUME NEW m, NEW k, MethodComplete(m, k), At("after_start_req") PROVE CountInv'
    <3> DEFINE r == Delivered(p + k)
               v == [r EXCEPT !.method = {r.buf["on_method"]}, !.buf["on_method"] = <<>>]
               q == [Unspanned EXCEPT !.method = m, !.matched = <<>>]
    <3>1. SameValue(request, r)
      BY <1>7, <2>1, HeadNodesOutside, OutsideEnds DEF L
    <3>2. DOMAIN r = DOMAIN request /\ DOMAIN r.buf = DOMAIN request.buf
      BY DEF Delivered, Typed, RequestOK, RequestType
    <3>3. DOMAIN request = DOMAIN ResetRequest /\ DOMAIN request.buf = Callbacks
      BY DEF Typed, RequestOK, RequestType, ResetRequest
    <3> HIDE DEF r
    <3>4. SameValue(r, v)
      BY <3>2, <3>3 DEF SameValue, ResetRequest, Callbacks
    <3>5. Uncounted(Unspanned, q)
      BY <1>5, UpdateUncounted
    <3>6. Uncounted(parser, q)
      BY <1>5, <3>5, UncountedTwice
    <3>7. SameValue(request, v)
      BY <3>1, <3>4 DEF SameValue
    <3>8. Move("req_first_space_before_url", k, q, v)
      BY <2>1 DEF MethodComplete, r
    <3> QED
      BY <1>1, <1>7, <2>1, <3>6, <3>7, <3>8
  <2> QED
    BY <1>3, <1>7, <1>13, <2>1, FailCounts DEF AfterStartReq
<1>14. CASE ReqFirstSpaceBeforeUrl \/ ReqSpacesBeforeUrl
  BY <1>2, <1>7, <1>14, FailCounts DEF ReqFirstSpaceBeforeUrl, ReqSpacesBeforeUrl
<1>15. CASE UrlStart \/ UrlSchema \/ UrlSchemaDelim \/ UrlSchemaDelim1
  BY <1>2, <1>8, <1>15, FailCounts
     DEF UrlStart, UrlSchema, UrlSchemaDelim, UrlSchemaDelim1, UrlNodes
<1>16. CASE UrlServer \/ UrlServerWithAt \/ UrlPath
  BY <1>2, <1>8, <1>10, <1>16, FailCounts DEF UrlServer, UrlServerWithAt, UrlPath, UrlNodes
<1>17. CASE UrlQueryOrFragment \/ UrlQuery \/ UrlFragment
  BY <1>2, <1>8, <1>10, <1>17, FailCounts DEF UrlQueryOrFragment, UrlQuery, UrlFragment, UrlNodes
<1>18. CASE UrlSkipToHttp \/ UrlSkipToHttp09 \/ UrlSkipLfToHttp09 \/ UrlSkipLfToHttp091
  BY <1>2, <1>7, <1>18, FailCounts
     DEF UrlSkipToHttp, UrlSkipToHttp09, UrlSkipLfToHttp09, UrlSkipLfToHttp091
<1>19. CASE UrlToHttp \/ UrlToHttp09
  <2>1. /\ Uncounted(parser, Matched(<<>>))
        /\ Uncounted(parser, [parser EXCEPT !.http_major = 0, !.http_minor = 9])
    BY UpdateUncounted DEF Matched, ParserInv, Good
  <2> QED
    BY <1>1, <1>7, <1>11, <1>19, <2>1, FailCounts DEF UrlToHttp, UrlToHttp09
<1>20. CASE ReqHttpStart
  BY <1>2, <1>3, <1>7, <1>8, <1>9, <1>20, FailCounts DEF ReqHttpStart, VersionNodes
<1>21. CASE ReqHttpMajor \/ ReqHttpDot
  <2>1. \A v : Uncounted(parser, [parser EXCEPT !.http_major = v])
    BY UpdateUncounted DEF ParserInv, Good
  <2>2. SameValue(request, request)
    BY DEF SameValue
  <2> QED
    BY <1>1, <1>2, <1>8, <1>21, <2>1, <2>2, FailCounts DEF ReqHttpMajor, ReqHttpDot, VersionNodes
<1>22. CASE ReqHttpMinor
  <2>1. ASSUME VersionComplete, At("req_http_minor") PROVE CountInv'
    <3> DEFINE r == Delivered(p + 1)
               v == [r EXCEPT !.version = {r.buf["on_version"]}, !.buf["on_version"] = <<>>]
               q == [Unspanned EXCEPT !.http_minor = Value(Byte)]
               b == IF parser.method = "PRI" THEN "req_pri_upgrade" ELSE "req_http_complete"
    <3>0. "req_http_minor" \in L /\ b \in L
      BY <1>7, <1>8 DEF VersionNodes
    <3>1. SameValue(request, r)
      BY <2>1, <3>0, HeadNodesOutside, OutsideEnds DEF L
    <3>2. DOMAIN r = DOMAIN request /\ DOMAIN r.buf = DOMAIN request.buf
      BY DEF Delivered, Typed, RequestOK, RequestType
    <3>3. DOMAIN request = DOMAIN ResetRequest /\ DOMAIN request.buf = Callbacks
      BY DEF Typed, RequestOK, RequestType, ResetRequest
    <3> HIDE DEF r
    <3>4. SameValue(r, v)
      BY <3>2, <3>3 DEF SameValue, ResetRequest, Callbacks
    <3>5. Uncounted(Unspanned, q)
      BY <1>5, UpdateUncounted
    <3>6. Uncounted(parser, q)
      BY <1>5, <3>5, UncountedTwice
    <3>7. SameValue(request, v)
      BY <3>1, <3>4 DEF SameValue
    <3>8. Move(b, 1, q, v)
      BY <2>1 DEF VersionComplete, r
    <3> HIDE DEF b, v, q
    <3> QED
      BY <1>1, <2>1, <3>0, <3>6, <3>7, <3>8
  <2> QED
    BY <1>22, <2>1, FailCounts DEF ReqHttpMinor
<1>23. CASE ReqPriUpgrade
  BY <1>3, <1>7, <1>23, FailCounts DEF ReqPriUpgrade
<1>24. CASE ReqHttpComplete \/ ReqHttpCompleteCrlf
  BY <1>2, <1>7, <1>24, FailCounts DEF ReqHttpComplete, ReqHttpCompleteCrlf
<1> QED
  BY <1>12, <1>13, <1>14, <1>15, <1>16, <1>17, <1>18, <1>19, <1>20, <1>21, <1>22, <1>23, <1>24
     DEF RequestLineStep

-----------------------------------------------------------------------------
(* Headers.                                                                *)

(* The names of headers.                                                   *)
LEMMA FieldCounts ==
  ASSUME Typed, ParserInv, CountInv,
         HeadersStart \/ HeaderFieldStart \/ HeaderField \/ HeaderFieldColon \/ HeaderFieldGeneral
  PROVE  CountInv'
<1> DEFINE L == FieldNodes \cup {"headers_start", "header_field_start"}
           M == L \cup {"header_value_discard_ws", "headers_almost_done"}
<1>1. L \subseteq Outside /\ M \subseteq Nodes \ Collecting
  BY DEF Outside, Nodes, Past, Collecting, ValueNodes, FieldNodes, BodyNodes
<1> HIDE DEF L, M
<1>2. ASSUME NEW a \in L, At(a), NEW b \in M, NEW k, NEW q, Uncounted(parser, q),
             Move(b, k, q, request)
      PROVE  CountInv'
  BY <1>1, <1>2, OutsideEats
<1>3. ASSUME NEW a \in L, At(a), NEW b \in M, Eat(b) \/ Goto(b) PROVE CountInv'
  BY <1>2, <1>3, UpdateUncounted DEF Eat, Goto, ParserInv, Good
<1>4. \A s, h : Uncounted(parser, Matched(s)) /\ Uncounted(parser, InState(h))
  BY UpdateUncounted DEF Matched, InState, ParserInv, Good
<1>5. ASSUME NEW a \in L, At(a), FieldComplete PROVE CountInv'
  <2>1. CASE EndSpan("header_value_discard_ws", 1)
    <3>1. Uncounted(parser, Unspanned)
      BY UpdateUncounted DEF Unspanned, ParserInv, Good
    <3>2. "header_value_discard_ws" \in M
      BY DEF M
    <3> QED
      BY <1>1, <1>5, <2>1, <3>1, <3>2, OutsideEnds, OutsideCounts DEF EndSpan
  <2> QED
    BY <1>5, <2>1, FailCounts DEF FieldComplete
<1>6. /\ {"headers_start", "header_field_start", "header_field", "header_field_colon",
          "header_field_general"} \subseteq L
      /\ {"header_field_start", "header_field", "header_field_colon",
          "header_field_general", "headers_almost_done"} \subseteq M
  BY DEF L, M, FieldNodes
<1>7. CASE HeadersStart
  BY <1>3, <1>6, <1>7, FailCounts DEF HeadersStart
<1>8. CASE HeaderFieldStart
  <2> DEFINE v == Spanned("on_header_field", p)
  <2>1. Uncounted(parser, v)
    BY UpdateUncounted DEF Spanned, ParserInv, Good
  <2>2. Shape(v)
    BY <2>1 DEF Uncounted
  <2>3. Uncounted(parser, [v EXCEPT !.matched = <<>>])
    BY <2>1, <2>2, UpdateUncounted, UncountedTwice
  <2> QED
    BY <1>2, <1>3, <1>6, <1>8, <2>3, FailCounts DEF HeaderFieldStart
<1>9. CASE HeaderField
  BY <1>2, <1>4, <1>6, <1>9 DEF HeaderField
<1>10. CASE HeaderFieldColon
  BY <1>2, <1>4, <1>5, <1>6, <1>10, FailCounts DEF HeaderFieldColon
<1>11. CASE HeaderFieldGeneral
  BY <1>3, <1>5, <1>6, <1>11, FailCounts DEF HeaderFieldGeneral
<1> QED
  BY <1>7, <1>8, <1>9, <1>10, <1>11

(* Behind the digits, or in another value.                                 *)
After == Collecting \ LengthNodes

(* They lead to each other.                                                *)
LEMMA AfterCounts ==
  ASSUME CountInv, NEW a \in After, At(a), NEW b \in After, NEW k,
         NEW q, Uncounted(parser, q), q.header_state \in {parser.header_state} \/ q.header_state # "CONTENT_LENGTH",
         NEW r, Move(b, k, q, r)
  PROVE  CountInv'
<1>1. \A n \in After : n \notin Past \cup LengthNodes /\ n \in Collecting
                         /\ n # "header_value_content_length"
  BY DEF After, Collecting, ValueNodes, LengthNodes, Past, BodyNodes
<1>2. Counted(b, q, r)
  BY <1>1 DEF CountInv, Counted, At, After, Uncounted
<1> QED
  BY <1>1, <1>2, MoveCounts

(* Nothing is counted any more, or what is left of a body.                 *)
LEMMA RestCounts ==
  ASSUME CountInv, NEW a \in Nodes \ Collecting, At(a), NEW b \in Nodes \ Collecting, NEW k,
         NEW q, b \in Past \/ q.content_length = 0, NEW r, SameValue(request, r),
         Move(b, k, q, r)
  PROVE  CountInv'
<1>1. LengthNodes \subseteq Collecting /\ "header_value_content_length" \in Collecting
  BY DEF LengthNodes, Collecting, ValueNodes
<1>2. Counted(b, q, r)
  BY <1>1 DEF CountInv, Counted, At, SameValue
<1> QED
  BY <1>1, <1>2, MoveCounts

(* The header is complete.                                                 *)
LEMMA InsertCounts ==
  ASSUME Typed, ParserInv, CountInv, NEW a \in {"header_value_discard_lws", "header_value_lws"},
         At(a), Move("header_field_start", 0, Committed, InsertHeader)
  PROVE  CountInv'
<1>1. InsertHeader.buf["on_header_value"] = <<>>
  BY DEF InsertHeader, Typed, RequestOK, RequestType, Callbacks
<1>2. /\ Committed.content_length = parser.content_length
      /\ "F_CONTENT_LENGTH" \in parser.flags => "F_CONTENT_LENGTH" \in Committed.flags
  BY DEF Committed, ParserInv, Good, Shape, ResetParser
<1>3. a \notin Past \cup LengthNodes /\ "header_field_start" \notin Collecting
  BY DEF Past, LengthNodes, Collecting, ValueNodes, BodyNodes
<1>4. Committed.error = parser.error
  BY DEF Committed, ParserInv, Good, Shape, ResetParser
<1>5. Counted("header_field_start", Committed, InsertHeader)
  BY <1>1, <1>2, <1>3, <1>4 DEF CountInv, Counted, At
<1> QED
  BY <1>5, MoveCounts

(* A value begins: a length with nothing counted and nothing collected.    *)
LEMMA BeginValueCounts ==
  ASSUME Typed, ParserInv, CountInv, NEW a \in {"header_value_discard_ws", "header_value_lws"},
         At(a), NEW q, Uncounted(parser, q), q.error = parser.error,
         q.header_state \in {parser.header_state, "GENERAL"}, BeginValue(q)
  PROVE  CountInv'
<1> DEFINE v == [q EXCEPT !.span = [cb |-> "on_header_value", from |-> p], !.matched = <<>>]
<1>0. DOMAIN q = DOMAIN ResetParser
  BY DEF Uncounted, Shape
<1>1. /\ v.content_length = q.content_length /\ v.flags = q.flags
      /\ v.header_state = q.header_state /\ v.error = q.error
      /\ v.span = [cb |-> "on_header_value", from |-> p]
      /\ DOMAIN v = DOMAIN ResetParser
  BY <1>0 DEF ResetParser
<1>2. q.content_length = parser.content_length /\ q.flags = parser.flags
  BY DEF Uncounted
<1>3. "F_CONTENT_LENGTH" \notin q.flags => q.content_length = 0
  <2>1. a \notin Past \cup LengthNodes
    BY DEF Past, LengthNodes, BodyNodes
  <2> QED
    BY <1>2, <2>1 DEF CountInv, Counted, At
<1> HIDE DEF v
<1>4. ASSUME NEW b \in {"header_value", "header_value_connection", "header_value_te_chunked"},
             NEW w, w.content_length = q.content_length,
             "F_CONTENT_LENGTH" \in q.flags => "F_CONTENT_LENGTH" \in w.flags,
             w.header_state # "CONTENT_LENGTH", Move(b, 0, w, request)
      PROVE  CountInv'
  <2>1. b \notin LengthNodes /\ b \in Collecting
    BY DEF LengthNodes, Collecting, ValueNodes
  <2>2. Counted(b, w, request)
    BY <1>3, <1>4, <2>1 DEF Counted
  <2> QED
    BY <1>4, <2>2, MoveCounts
<1>5. CASE q.header_state = "CONNECTION" /\ Move("header_value_connection", 0, v, request)
  BY <1>1, <1>4, <1>5
<1>6. CASE /\ q.header_state = "CONTENT_LENGTH" /\ "F_CONTENT_LENGTH" \notin q.flags
           /\ Move("header_value_content_length", 0, v, request)
  <2>1. a = "header_value_discard_ws"
    <3>1. "header_value_lws" \in Collecting \ LengthNodes
      BY DEF Collecting, LengthNodes
    <3> QED
      BY <1>2, <1>6, <3>1 DEF CountInv, Counted, At
  <2>2. request.buf["on_header_value"] = <<>>
    <3>1. "header_value_discard_ws" \notin Collecting
      BY DEF Collecting, ValueNodes
    <3> QED
      BY <2>1, <3>1 DEF CountInv, Counted, At
  <2>3. v.content_length = 0
    BY <1>1, <1>3, <1>6
  <2>4. SubSeq(stream, p, p - 1) = <<>> /\ <<>> \o <<>> = <<>>
    <3>1. p \in Nat /\ stream \in Seq(Bytes)
      BY Here
    <3> QED
      BY <3>1, SubSeqProperties, EmptySeq
  <2>5. LengthIsAsWritten'
    <3>1. p' = p /\ stream' = stream /\ executing' /\ parser' = v /\ request' = request
      BY <1>6, Here DEF Move, At
    <3>2. parser'.span.from = p
      BY <1>1, <3>1
    <3> QED
      BY <2>2, <2>3, <2>4, <3>1, <3>2, NumberOfNothing DEF LengthIsAsWritten
  <2>6. Counted("header_value_content_length", v, request)
    BY DEF Counted, LengthNodes, Collecting, ValueNodes
  <2> QED
    BY <1>6, <2>5, <2>6 DEF CountInv, Move, Counted
<1>7. CASE /\ q.header_state = "TRANSFER_ENCODING"
           /\ Move("header_value_te_chunked", 0, [v EXCEPT !.flags = @ \cup {"F_TRANSFER_ENCODING"}],
                   request)
  BY <1>1, <1>4, <1>7 DEF ResetParser
<1>8. CASE Move("header_value", 0, [v EXCEPT !.flags = @ \cup {"F_UPGRADE"},
                                            !.header_state = "GENERAL"], request)
  BY <1>1, <1>4, <1>8 DEF ResetParser
<1>9. CASE /\ q.header_state \in {"GENERAL", "TRANSFER_ENCODING_CHUNKED"} \cup OptionStates
           /\ Move("header_value", 0, v, request)
  BY <1>1, <1>4, <1>9 DEF OptionStates
<1> QED
  BY <1>5, <1>6, <1>7, <1>8, <1>9, FailCounts DEF BeginValue, v

(* The blanks around values.                                               *)
LEMMA AroundCounts ==
  ASSUME Typed, ParserInv, CountInv,
         \/ HeaderValueDiscardWs \/ HeaderValueDiscardWsAlmostDone \/ HeaderValueDiscardLws
         \/ HeaderValueLws \/ HeaderValueAlmostDone
  PROVE  CountInv'
<1>1. {"header_value_discard_ws", "header_value_discard_ws_almost_done",
       "header_value_discard_lws"} \subseteq Outside \cap (Nodes \ Collecting)
  BY DEF Outside, Nodes, Past, Collecting, ValueNodes, BodyNodes
<1>2. Uncounted(parser, parser)
  BY UpdateUncounted DEF ParserInv, Good
<1>3. CASE HeaderValueDiscardWs
  BY <1>1, <1>2, <1>3, OutsideEats, BeginValueCounts, FailCounts DEF HeaderValueDiscardWs, Eat
<1>4. CASE HeaderValueDiscardWsAlmostDone
  BY <1>1, <1>2, <1>4, OutsideEats, FailCounts DEF HeaderValueDiscardWsAlmostDone, Eat
<1>5. CASE HeaderValueDiscardLws
  BY <1>5, InsertCounts, FailCounts DEF HeaderValueDiscardLws
<1>6. CASE HeaderValueLws
  <2> DEFINE q == IF parser.header_state = "TRANSFER_ENCODING_CHUNKED"
                  THEN InState("GENERAL") ELSE parser
  <2>1. /\ Uncounted(parser, q) /\ q.error = parser.error
        /\ q.header_state \in {parser.header_state, "GENERAL"}
    <3>1. Uncounted(parser, InState("GENERAL"))
      BY UpdateUncounted DEF InState, ParserInv, Good
    <3>2. InState("GENERAL").error = parser.error /\ InState("GENERAL").header_state = "GENERAL"
      BY DEF InState, ParserInv, Good, Shape, ResetParser
    <3> QED
      BY <1>2, <3>1, <3>2
  <2> HIDE DEF q
  <2>2. ASSUME BeginValue(q), At("header_value_lws") PROVE CountInv'
    BY <2>1, <2>2, BeginValueCounts
  <2> QED
    BY <1>6, <2>2, InsertCounts DEF HeaderValueLws, q
<1>7. CASE HeaderValueAlmostDone
  <2>1. {"header_value_almost_done", "header_value_lws"} \subseteq After
    BY DEF After, Collecting, LengthNodes
  <2> QED
    BY <1>2, <1>7, <2>1, AfterCounts, FailCounts DEF HeaderValueAlmostDone, Eat
<1> QED
  BY <1>3, <1>4, <1>5, <1>6, <1>7

(* A stretch of the stream and its last byte.                              *)
LEMMA StretchGrows ==
  ASSUME NEW s \in Seq(Bytes), NEW m \in Nat, NEW n \in Nat, 1 <= m, m <= n, n <= Len(s)
  PROVE  /\ SubSeq(s, m, n - 1) \in Seq(Bytes)
         /\ SubSeq(s, m, n) = Append(SubSeq(s, m, n - 1), s[n])
<1> DEFINE open == SubSeq(s, m, n - 1)
           more == SubSeq(s, m, n)
<1>1. Len(s) \in Nat /\ \A i \in 1 .. Len(s) : s[i] \in Bytes
  BY LenProperties, ElementOfSeq
<1>2. /\ n - 1 \in Int /\ n - 1 - m + 1 = n - m /\ n - m \in Nat
      /\ \A i \in m .. n - 1 : s[i] \in Bytes
      /\ \A i \in m .. n : s[i] \in Bytes
  BY <1>1
<1>3. /\ open \in Seq(Bytes) /\ Len(open) = n - m
      /\ \A i \in 1 .. n - m : open[i] = s[m + i - 1]
  <2>1. /\ open \in Seq(Bytes) /\ Len(open) = IF m <= n - 1 THEN n - 1 - m + 1 ELSE 0
        /\ \A i \in 1 .. n - 1 - m + 1 : open[i] = s[m + i - 1]
    BY <1>2, SubSeqProperties
  <2> QED
    BY <1>2, <2>1
<1>4. /\ more \in Seq(Bytes) /\ Len(more) = n - m + 1
      /\ \A i \in 1 .. n - m + 1 : more[i] = s[m + i - 1]
  BY <1>2, SubSeqProperties
<1> HIDE DEF open, more
<1>5. /\ Append(open, s[n]) \in Seq(Bytes) /\ Len(Append(open, s[n])) = n - m + 1
      /\ Append(open, s[n])[n - m + 1] = s[n]
      /\ \A i \in 1 .. n - m : Append(open, s[n])[i] = open[i]
  BY <1>1, <1>3, AppendProperties
<1>6. ASSUME NEW i \in 1 .. n - m + 1 PROVE more[i] = Append(open, s[n])[i]
  <2>1. CASE i = n - m + 1
    <3>1. m + i - 1 = n
      BY <2>1
    <3> QED
      BY <1>4, <1>5, <2>1, <3>1
  <2>2. CASE i # n - m + 1
    <3>1. i \in 1 .. n - m
      BY <2>2
    <3> QED
      BY <1>3, <1>4, <1>5, <3>1
  <2> QED
    BY <2>1, <2>2
<1>7. more = Append(open, s[n])
  BY <1>4, <1>5, <1>6, SeqEqual
<1> QED
  BY <1>3, <1>7 DEF open, more

(* Digits.  A length that would not fit is refused, so none wraps around.  *)
LEMMA LengthCounts ==
  ASSUME Typed, ParserInv, CountInv, HeaderValueContentLength \/ HeaderValueContentLengthWs
  PROVE  CountInv'
<1>1. /\ "header_value_content_length_ws" \in LengthNodes \cap Collecting
      /\ "header_value_content_length" \in LengthNodes \cap Collecting
      /\ "header_value_otherwise" \in Collecting \ LengthNodes
  BY DEF LengthNodes, Collecting, ValueNodes
<1>2. ASSUME NEW k, Move("header_value_content_length_ws", k, parser, request) PROVE CountInv'
  <2>1. Counted("header_value_content_length_ws", parser, request)
    BY <1>1 DEF Counted
  <2> QED
    BY <1>2, <2>1, MoveCounts
<1>3. CASE /\ At("header_value_content_length_ws")
           /\ Move("header_value_otherwise", 0,
                   [parser EXCEPT !.flags = @ \cup {"F_CONTENT_LENGTH"}], request)
  <2> DEFINE q == [parser EXCEPT !.flags = @ \cup {"F_CONTENT_LENGTH"}]
  <2>1. "F_CONTENT_LENGTH" \in q.flags
    BY DEF ParserInv, Good, Shape, ResetParser
  <2>2. Counted("header_value_otherwise", q, request)
    BY <1>1, <2>1 DEF Counted
  <2> QED
    BY <1>3, <2>2, MoveCounts
<1>4. CASE /\ At("header_value_content_length") /\ Byte \in Digit
           /\ ~Overflows(10, Value(Byte))
           /\ Move("header_value_content_length", 1, MulAdd(10, Value(Byte)), request)
  <2> DEFINE n == parser.content_length
             v == Value(Byte)
             q == MulAdd(10, v)
             from == parser.span.from
             held == request.buf["on_header_value"]
             open == SubSeq(stream, from, p - 1)
             more == SubSeq(stream, from, p)
  <2>1. /\ p \in Nat /\ 1 <= p /\ p <= Len(stream) /\ stream \in Seq(Bytes) /\ Byte \in Bytes
        /\ Len(stream) \in Nat
    BY <1>4, Here
  <2>2. from \in Nat /\ 1 <= from /\ from <= p
    <3>1. SpanOf("header_value_content_length") # "none"
      BY <1>1, SpanTable DEF ValueNodes
    <3>2. from \in 1 .. p
      BY <1>4, <3>1, SpanHere
    <3> QED
      BY <2>1, <3>2
  <2>3. held \in Seq(Bytes)
    BY DEF Typed, RequestOK, RequestType, Callbacks
  <2>4. open \in Seq(Bytes) /\ more = Append(open, Byte)
    BY <2>1, <2>2, StretchGrows DEF Byte
  <2>5. held \o more = Append(held \o open, Byte) /\ held \o open \in Seq(Bytes)
    <3> HIDE DEF held, open, more
    <3>1. Append(open, Byte) = open \o <<Byte>> /\ Append(held \o open, Byte) = (held \o open) \o <<Byte>>
          /\ held \o open \in Seq(Bytes)
      BY <2>1, <2>3, <2>4, AppendIsConcat, ConcatProperties
    <3>2. Associative(Bytes) /\ <<Byte>> \in Seq(Bytes)
      BY <2>1, Associates
    <3>3. (held \o open) \o <<Byte>> = held \o (open \o <<Byte>>)
      BY <2>3, <2>4, <3>2, Zenon DEF Associative
    <3> QED
      BY <2>4, <3>1, <3>3
  <2>6. n = Number(held \o open)
    BY <1>4 DEF CountInv, LengthIsAsWritten, At
  <2>7. Number(held \o more) = n * 10 + v
    <3> HIDE DEF held, more, open, n
    <3> QED
      BY <2>1, <2>5, <2>6, NumberOfOneMore
  <2>8. q.content_length = n * 10 + v
    <3>1. n \in 0 .. MaxLength /\ MaxLength \in Nat /\ v \in 0 .. 15
      BY <1>4, Values, LlHttpAssumption DEF LlHttpAssumption, Typed, FieldsOK, ParserType
    <3>2. n * 10 + v \in 0 .. MaxLength
      <4>1. n * 10 <= MaxLength - v
        BY <1>4, <3>1 DEF Overflows
      <4> QED
        BY <3>1, <4>1
    <3>3. q.content_length = ((n * 10 + v) % (MaxLength + 1))
      BY DEF MulAdd, ParserInv, Good, Shape, ResetParser
    <3> HIDE DEF n, v
    <3>4. \A x \in 0 .. MaxLength : (x % (MaxLength + 1)) = x
      BY <3>1
    <3> QED
      BY <3>2, <3>3, <3>4
  <2>9. LengthIsAsWritten'
    <3>1. p' - 1 = p /\ stream' = stream /\ executing' /\ parser' = q /\ request' = request
      BY <1>4, <2>1 DEF Move, At
    <3>2. q.span.from = from
      BY DEF MulAdd, ParserInv, Good, Shape, ResetParser
    <3> QED
      BY <2>7, <2>8, <3>1, <3>2 DEF LengthIsAsWritten
  <2>10. Counted("header_value_content_length", q, request)
    BY <1>1 DEF Counted
  <2> QED
    BY <1>4, <2>9, <2>10 DEF CountInv, Move, Counted
<1> QED
  BY <1>2, <1>3, <1>4, FailCounts
     DEF HeaderValueContentLength, HeaderValueContentLengthWs, Eat, Goto

(* The values that are no length.                                          *)
LEMMA ValuesCount ==
  ASSUME Typed, ParserInv, CountInv,
         \/ HeaderValue \/ HeaderValueOtherwise
         \/ HeaderValueConnection \/ HeaderValueConnectionWs \/ HeaderValueConnectionToken
         \/ HeaderValueTeChunked \/ HeaderValueTeChunkedLast \/ HeaderValueTeToken
         \/ HeaderValueTeTokenOws
  PROVE  CountInv'
<1> DEFINE L == ValueNodes \ LengthNodes
<1>0. L \cup {"header_value_almost_done"} \subseteq After
  BY DEF After, Collecting, LengthNodes
<1>1. {"header_value", "header_value_otherwise", "header_value_connection",
   "header_value_connection_ws", "header_value_connection_token",
   "header_value_te_chunked", "header_value_te_chunked_last",
   "header_value_te_token", "header_value_te_token_ows"} \subseteq L
  BY DEF ValueNodes, LengthNodes
<1> HIDE DEF L
<1>2. ASSUME NEW a \in L, At(a), NEW b \in L, Eat(b) \/ Goto(b) PROVE CountInv'
  BY <1>0, <1>2, UpdateUncounted, AfterCounts DEF Eat, Goto, ParserInv, Good
<1>3. ASSUME NEW a \in L, At(a), NEW b \in L, NEW k, NEW s, Move(b, k, Matched(s), request)
      PROVE  CountInv'
  <2>1. Uncounted(parser, Matched(s))
    BY UpdateUncounted DEF Matched, ParserInv, Good
  <2>2. Matched(s).header_state = parser.header_state
    BY DEF Matched, ParserInv, Good, Shape, ResetParser
  <2> QED
    BY <1>0, <1>3, <2>1, <2>2, AfterCounts
<1>4. ASSUME NEW a \in L, At(a), NEW b \in L, NEW k, NEW h, h # "CONTENT_LENGTH",
             Move(b, k, InState(h), request)
      PROVE  CountInv'
  <2>1. Uncounted(parser, InState(h))
    BY UpdateUncounted DEF InState, ParserInv, Good
  <2>2. InState(h).header_state = h
    BY DEF InState, ParserInv, Good, Shape, ResetParser
  <2> QED
    BY <1>0, <1>4, <2>1, <2>2, AfterCounts
<1>5. ASSUME At("header_value_otherwise"), EndSpan("header_value_almost_done", 1) PROVE CountInv'
  <2>1. Uncounted(parser, Unspanned)
    BY UpdateUncounted DEF Unspanned, ParserInv, Good
  <2>2. Unspanned.header_state = parser.header_state
    BY DEF Unspanned, ParserInv, Good, Shape, ResetParser
  <2> QED
    BY <1>0, <1>1, <1>5, <2>1, <2>2, AfterCounts DEF EndSpan
<1>6. \A w : OptionState[w] # "CONTENT_LENGTH" \/ w \notin DOMAIN OptionState
  BY DEF OptionState
<1>7. ASSUME At("header_value_connection_ws"), Move("header_value_connection", 1, Committed, request)
      PROVE  CountInv'
  <2>1. Committed.content_length = parser.content_length
    BY DEF Committed, ParserInv, Good, Shape, ResetParser
  <2>2. "F_CONTENT_LENGTH" \in parser.flags => "F_CONTENT_LENGTH" \in Committed.flags
    BY DEF Committed, ParserInv, Good, Shape, ResetParser
  <2>3. Committed.header_state = parser.header_state \/ Committed.header_state # "CONTENT_LENGTH"
    BY DEF Committed, ParserInv, Good, Shape, ResetParser
  <2>4. {"header_value_connection", "header_value_connection_ws"} \subseteq Collecting \ LengthNodes
        /\ "header_value_connection_ws" \notin Past
    BY DEF Collecting, ValueNodes, LengthNodes, Past, BodyNodes
  <2>5. Counted("header_value_connection", Committed, request)
    BY <1>7, <2>1, <2>2, <2>3, <2>4 DEF CountInv, Counted, At
  <2> QED
    BY <1>7, <2>5, MoveCounts
<1>8. CASE HeaderValue
  BY <1>1, <1>2, <1>8 DEF HeaderValue
<1>9. CASE HeaderValueOtherwise
  BY <1>5, <1>9, FailCounts DEF HeaderValueOtherwise
<1>10. CASE HeaderValueConnection
  BY <1>1, <1>2, <1>3, <1>4, <1>6, <1>10 DEF HeaderValueConnection, Matches
<1>11. CASE HeaderValueConnectionWs
  BY <1>1, <1>2, <1>4, <1>7, <1>11 DEF HeaderValueConnectionWs
<1>12. CASE HeaderValueConnectionToken
  BY <1>1, <1>2, <1>12 DEF HeaderValueConnectionToken
<1>13. CASE HeaderValueTeChunked
  BY <1>1, <1>3, <1>13 DEF HeaderValueTeChunked
<1>14. CASE HeaderValueTeChunkedLast
  BY <1>1, <1>2, <1>4, <1>14, FailCounts DEF HeaderValueTeChunkedLast
<1>15. CASE HeaderValueTeToken \/ HeaderValueTeTokenOws
  BY <1>1, <1>2, <1>3, <1>4, <1>15 DEF HeaderValueTeToken, HeaderValueTeTokenOws
<1> QED
  BY <1>8, <1>9, <1>10, <1>11, <1>12, <1>13, <1>14, <1>15

-----------------------------------------------------------------------------
(* The end of the head, and bodies.                                        *)

(* The end of a message.                                                   *)
LEMMA MessageEndCounts ==
  ASSUME CountInv, NEW a \in Nodes \ Collecting, At(a), NEW k, NEW q, Shape(q), NEW r,
         SameValue(request, r), MessageComplete(k, q, r) \/ AfterMessageComplete(k, q, r)
  PROVE  CountInv'
<1>1. [q EXCEPT !.flags = {}, !.content_length = 0].content_length = 0
  BY DEF Shape, ResetParser
<1>2. {"closed", "error"} \subseteq Past /\ {"start", "closed", "error"} \subseteq Nodes \ Collecting
  BY DEF Past, Nodes, Collecting, ValueNodes
<1> QED
  BY <1>1, <1>2, RestCounts DEF MessageComplete, AfterMessageComplete, Paused

(* The end of the head.                                                    *)
LEMMA HeadersAlmostDoneCounts ==
  ASSUME Typed, ParserInv, CountInv, HeadersAlmostDone
  PROVE  CountInv'
<1> DEFINE q == [parser EXCEPT !.upgrade = Upgrades]
           r == [request EXCEPT !.is_header_complete = TRUE]
<1>1. "headers_almost_done" \in Nodes \ Collecting
      /\ {"error", "chunk_size_digit", "consume_content_length_1"} \subseteq Past \cap (Nodes \ Collecting)
  BY DEF Past, Nodes, Collecting, ValueNodes, BodyNodes
<1>2. SameValue(request, r) /\ SameValue(request, request)
  BY DEF SameValue, Typed, RequestOK, RequestType
<1>3. Shape(q) /\ Shape(parser)
  BY DEF ParserInv, Good, Shape, ResetParser
<1> HIDE DEF q, r
<1>4. ASSUME NEW b \in {"error", "chunk_size_digit", "consume_content_length_1"},
             NEW k, NEW v, Move(b, k, v, r), At("headers_almost_done")
      PROVE  CountInv'
  BY <1>1, <1>2, <1>4, RestCounts
<1>5. CASE HeadersComplete /\ At("headers_almost_done")
  <2>1. \/ \E b \in {"error", "chunk_size_digit", "consume_content_length_1"} :
              \E k, v : Move(b, k, v, r)
        \/ AfterMessageComplete(1, q, r)
    BY <1>5 DEF HeadersComplete, Paused, r, q
  <2> QED
    BY <1>1, <1>2, <1>3, <1>4, <1>5, <2>1, MessageEndCounts
<1> QED
  BY <1>1, <1>2, <1>3, <1>5, MessageEndCounts, FailCounts DEF HeadersAlmostDone

(* Bodies and chunks.                                                      *)
LEMMA BodyCounts ==
  ASSUME Typed, ParserInv, CountInv, BodyStep
  PROVE  CountInv'
<1>0. Past \cup {"header_field_start"} \subseteq Nodes \ Collecting
  BY DEF Past, Nodes, Collecting, ValueNodes, BodyNodes
<1>1. {"chunk_size_digit", "chunk_size", "chunk_size_otherwise", "chunk_size_almost_done",
       "chunk_extensions", "chunk_extension_name", "chunk_extension_value",
       "chunk_extension_quoted_value", "chunk_extension_quoted_value_quoted_pair",
       "chunk_extension_quoted_value_done", "chunk_data_almost_done",
       "chunk_data_almost_done_1", "closed",
       "consume_content_length", "consume_content_length_1"} \subseteq Past
  BY DEF Past, BodyNodes
<1>2. SameValue(request, request)
  BY DEF SameValue
<1>3. ASSUME NEW a \in Past, At(a), NEW b \in Past, NEW k, NEW q, Move(b, k, q, request)
      PROVE  CountInv'
  BY <1>0, <1>2, <1>3, RestCounts
<1>4. ASSUME NEW a \in Past, At(a), NEW b \in Past, Eat(b) \/ Goto(b)
      PROVE  CountInv'
  BY <1>3, <1>4 DEF Eat, Goto
<1>5. CASE ConsumeContentLength1 \/ ConsumeContentLength
  <2>1. PICK a \in BodyNodes : At(a) /\ a \in Past
    BY <1>1, <1>5 DEF ConsumeContentLength1, ConsumeContentLength, BodyNodes
  <2>2. SameValue(request, Delivered(p + AtHand))
    <3>1. parser.span.cb = "on_body"
      BY <2>1, SpanHere, SpanTable
    <3> QED
      BY <3>1, DeliveredSameValue
  <2>3. Shape([Consumed EXCEPT !.span = NoSpan])
    BY DEF Consumed, ParserInv, Good, Shape, ResetParser, NoSpan
  <2> QED
    BY <1>0, <1>1, <1>3, <1>5, <2>1, <2>2, <2>3, RestCounts, MessageEndCounts
       DEF ConsumeContentLength1, ConsumeContentLength
<1>6. CASE ChunkSizeDigit \/ ChunkSize
  BY <1>1, <1>3, <1>4, <1>6, FailCounts DEF ChunkSizeDigit, ChunkSize, AddHexByte
<1>7. CASE ChunkSizeOtherwise \/ ChunkDataAlmostDone \/ Closed
  BY <1>1, <1>4, <1>7, FailCounts DEF ChunkSizeOtherwise, ChunkDataAlmostDone, Closed
<1>8. CASE ChunkSizeAlmostDone
  <2>1. ASSUME parser.content_length = 0, At("chunk_size_almost_done"),
               Move("header_field_start", 1, [parser EXCEPT !.flags = @ \cup {"F_TRAILING"}], request)
        PROVE  CountInv'
    <3>1. [parser EXCEPT !.flags = @ \cup {"F_TRAILING"}].content_length = 0
      BY <2>1 DEF ParserInv, Good, Shape, ResetParser
    <3> QED
      BY <1>0, <1>1, <1>2, <2>1, <3>1, RestCounts
  <2> QED
    BY <1>1, <1>3, <1>8, <2>1, FailCounts DEF ChunkSizeAlmostDone
<1>9. CASE ChunkDataAlmostDone1
  BY <1>1, <1>3, <1>9, FailCounts DEF ChunkDataAlmostDone1
<1>10. CASE ChunkExtensions \/ ChunkExtensionName \/ ChunkExtensionValue
  BY <1>1, <1>4, <1>10, FailCounts DEF ChunkExtensions, ChunkExtensionName, ChunkExtensionValue
<1>11. CASE \/ ChunkExtensionQuotedValue \/ ChunkExtensionQuotedPair
            \/ ChunkExtensionQuotedValueDone
  BY <1>1, <1>4, <1>11, FailCounts
     DEF ChunkExtensionQuotedValue, ChunkExtensionQuotedPair, ChunkExtensionQuotedValueDone
<1> QED
  BY <1>5, <1>6, <1>7, <1>8, <1>9, <1>10, <1>11 DEF BodyStep

-----------------------------------------------------------------------------
(* Reads begin and end.                                                    *)

(* The digits so far go to the callback.                                   *)
LEMMA ReturnsCount ==
  ASSUME Typed, ParserInv, CountInv, ExecuteReturns
  PROVE  CountInv'
<1>1. cur' = cur /\ parser' = parser /\ executing /\ ~executing'
  BY DEF ExecuteReturns
<1>2. CASE parser.error # "OK"
  BY <1>1, <1>2 DEF CountInv, Counted, LengthIsAsWritten
<1>3. CASE parser.error = "OK" /\ parser.span.cb # "on_header_value"
  <2>1. SameValue(request, request')
    BY <1>3, DeliveredSameValue DEF ExecuteReturns, SameValue
  <2>2. cur # "header_value_content_length"
    BY <1>3, SpanTable DEF ParserInv, Good, Fits, ValueNodes
  <2> QED
    BY <1>1, <2>1, <2>2 DEF CountInv, Counted, LengthIsAsWritten, SameValue
<1>4. CASE parser.error = "OK" /\ parser.span.cb = "on_header_value"
  <2> DEFINE piece == SubSeq(stream, parser.span.from, p - 1)
             held  == request.buf["on_header_value"]
  <2>1. request' = Delivered(p) /\ parser.span # NoSpan
    BY <1>4 DEF ExecuteReturns, NoSpan
  <2>2. cur \in Collecting
    BY <1>4 DEF ParserInv, Good, Fits, SpanOf, Collecting
  <2>3. request'.buf["on_header_value"] = held \o piece
    BY <1>4, <2>1 DEF Delivered, Typed, RequestOK, RequestType, Callbacks
  <2>4. request'.buf["on_header_value"] \in Seq(Bytes)
    <3>1. p \in Int /\ p <= Len(stream) + 1
      <4>1. Len(stream) \in Nat
        BY Alphabet, LenProperties DEF Typed
      <4> QED
        BY <4>1 DEF Typed, Within
    <3>2. Delivered(p) \in RequestType
      BY <2>1, <3>1, DeliveredWhole
    <3> QED
      BY <2>1, <3>2 DEF RequestType, Callbacks
  <2>5. held \o piece = request'.buf["on_header_value"] \o <<>>
    BY <2>3, <2>4, ConcatEmptySeq
  <2>6. LengthIsAsWritten'
    BY <1>1, <1>4, <2>5 DEF CountInv, LengthIsAsWritten
  <2>7. Counted(cur, parser, request')
    BY <2>2 DEF CountInv, Counted
  <2> QED
    BY <1>1, <2>6, <2>7 DEF CountInv, Counted
<1> QED
  BY <1>2, <1>3, <1>4

(* Those to come begin a new span.                                         *)
LEMMA ExecuteCounts ==
  ASSUME Typed, ParserInv, CountInv, NEW n \in Nat, Execute(n)
  PROVE  CountInv'
<1>1. endp \in Nat /\ stream \in Seq(Bytes)
  <2>1. Len(stream) \in Nat /\ stream \in Seq(Bytes)
    BY Alphabet, LenProperties DEF Typed
  <2> QED
    BY <2>1 DEF Typed, Within
<1>2. /\ ~executing /\ executing' /\ p' = endp /\ stream' = stream /\ cur' = cur
      /\ request' = request /\ parser' = Resumed
  BY DEF Execute
<1>3. Uncounted(parser, Resumed) /\ Resumed.error = parser.error
      /\ Resumed.header_state = parser.header_state
  BY DEF Resumed, Uncounted, ParserInv, Good, Shape, ResetParser, NoSpan
<1>4. Counted(cur, parser, request)'
  BY <1>2, <1>3 DEF CountInv, Counted, Uncounted
<1>5. LengthIsAsWritten'
  <2> SUFFICES ASSUME parser.error = "OK", cur = "header_value_content_length"
               PROVE  Resumed.content_length
                        = Number(request.buf["on_header_value"]
                                   \o SubSeq(stream, Resumed.span.from, endp - 1))
    BY <1>2, <1>3 DEF LengthIsAsWritten
  <2>1. parser.span # NoSpan
    BY SpanTable DEF ParserInv, Good, Fits, NoSpan, ValueNodes
  <2>2. Resumed.span.from = endp
    BY <2>1 DEF Resumed, ParserInv, Good, Shape, ResetParser, NoSpan
  <2>3. SubSeq(stream, endp, endp - 1) = <<>>
    BY <1>1, SubSeqProperties, EmptySeq
  <2> QED
    BY <1>2, <1>3, <2>2, <2>3 DEF CountInv, LengthIsAsWritten, Uncounted
<1> QED
  BY <1>4, <1>5 DEF CountInv

(* Every step of the channel.                                              *)
LEMMA NextCounts ==
  ASSUME TypedInv, CountInv, [Next]_vars PROVE CountInv'
<1>0. Typed /\ ParserInv /\ (executing => phase = "execute")
  BY DEF TypedInv, ChannelTyped
<1>1. ASSUME ~executing, executing' = executing, cur' = cur, parser' = parser,
             SameValue(request, request')
      PROVE  CountInv'
  BY <1>1 DEF CountInv, Counted, LengthIsAsWritten, SameValue
<1>2. ASSUME UNCHANGED parserVars PROVE CountInv'
  BY <1>2 DEF CountInv, Counted, LengthIsAsWritten, parserVars
<1>3. CASE Parse
  BY <1>0, <1>3, RequestLineCounts, FieldCounts, AroundCounts, LengthCounts, ValuesCount,
     HeadersAlmostDoneCounts, BodyCounts, ReturnsCount
     DEF Parse, ParserStep, HeaderStep
<1>4. CASE ReadRemote
  <2>1. CASE \E n \in 1 .. Len(stream) : Execute(n)
    <3>1. Len(stream) \in Nat
      BY <1>0, Alphabet, LenProperties DEF Typed
    <3>2. PICK n \in Nat : Execute(n)
      BY <2>1, <3>1
    <3> QED
      BY <1>0, <3>2, ExecuteCounts
  <2> QED
    BY <1>2, <1>4, <2>1 DEF ReadRemote
<1>5. CASE TakeHeaders
  <2>1. SameValue(request, request')
    BY <1>0, <1>5 DEF TakeHeaders, Typed, RequestOK, RequestType, SameValue
  <2> QED
    BY <1>0, <1>1, <1>5, <2>1 DEF TakeHeaders
<1>6. CASE EndOfHead
  <2>1. CASE Reset
    <3>1. /\ cur' = "start" /\ parser' = ResetParser
          /\ request'.buf["on_header_value"] = <<>>
      BY <2>1 DEF Reset, ResetRequest, Callbacks
    <3> QED
      BY <3>1 DEF CountInv, Counted, LengthIsAsWritten, ResetParser
  <2> QED
    BY <1>2, <1>6, <2>1 DEF EndOfHead
<1>7. CASE \/ Parsed \/ WriteLine \/ WriteHeaders \/ ForwardReply \/ FlushLocal
           \/ FlushRemote \/ ReadLocal \/ CopyToRemote \/ SocketFails
  BY <1>2, <1>7 DEF Parsed, WriteLine, WriteHeaders, ForwardReply, FlushLocal, FlushRemote,
                    ReadLocal, CopyToRemote, SocketFails
<1>8. CASE CopyToLocal
  BY <1>0, <1>1, <1>8 DEF CopyToLocal, SameValue
<1>9. CASE UNCHANGED vars
  BY <1>2, <1>9 DEF vars
<1> QED
  BY <1>3, <1>4, <1>5, <1>6, <1>7, <1>8, <1>9 DEF Next, TaskStep

LEMMA CountInvariance == Spec => []CountInv
<1>1. Init => CountInv
  BY DEF Init, ParserInit, ResetRequest, ResetParser, CountInv, Counted, LengthIsAsWritten,
         Callbacks
<1>2. TypedInv /\ CountInv /\ [Next]_vars => CountInv'
  BY NextCounts
<1> QED
  BY <1>1, <1>2, TypedInvariance, PTL DEF Spec

(* The length of a body is the number its Content-Length spells, for every *)
(* stream and every cut of it: no longer number wraps around, and none is  *)
(* added to what an earlier header has left (llhttp.c, mul_add of          *)
(* content_length).                                                        *)
THEOREM LengthsAreAsWritten == Spec => []LengthIsAsWritten
<1>1. CountInv => LengthIsAsWritten
  BY DEF CountInv
<1> QED
  BY <1>1, CountInvariance, PTL
=============================================================================
