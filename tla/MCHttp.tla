------------------------------- MODULE MCHttp -------------------------------
(***************************************************************************)
(* Values of the constants for the model-checking runs of HttpChannel.     *)
(* Keywords are shortened; those that share a beginning still do.          *)
(***************************************************************************)
EXTENDS HttpChannel

(* The bytes of a string: its characters, with blanks and line ends named. *)
Named ==
  [c \in {" ", "\t", "\r", "\n", "\f"} |->
     CASE c = " "  -> "SP"
       [] c = "\t" -> "HT"
       [] c = "\r" -> "CR"
       [] c = "\n" -> "LF"
       [] c = "\f" -> "FF"]
B(text) ==
  [i \in 1 .. Len(text) |->
     LET c == SubSeq(text, i, i) IN IF c \in DOMAIN Named THEN Named[c] ELSE c]

SomeLetters ==
  {"a", "b", "c", "e", "g", "h", "i", "k", "l", "m", "n", "o", "p", "r", "s", "t", "u",
   "C", "E", "G", "H", "I", "O", "P", "R", "S", "T"}
LowerLetters ==
  [c \in SomeLetters |->
     CASE c = "C" -> "c" [] c = "E" -> "e" [] c = "G" -> "g" [] c = "H" -> "h"
       [] c = "I" -> "i" [] c = "O" -> "o" [] c = "P" -> "p" [] c = "R" -> "r"
       [] c = "S" -> "s" [] c = "T" -> "t" [] OTHER -> c]

ShortSpelling ==
  [GET |-> B("GE"), GET_PARAMETER |-> B("GE_P"), POST |-> B("PO"), PRI |-> B("PI"),
   CONNECT |-> B("CO"), SOURCE |-> B("SO"),
   connection |-> B("cn"), proxy_connection |-> B("pn"), content_length |-> B("cl"),
   transfer_encoding |-> B("te"), upgrade |-> B("up"), close |-> B("cs"),
   keep_alive |-> B("ka"), chunked |-> B("ch"), host |-> B("Ho"),
   pri_preface |-> B("\r\nS")]
  @@ ("HTTP/" :> B("H/") @@ "ICE/" :> B("I/") @@ "RTSP/" :> B("R/"))

UserHeaders == {[name |-> B("E"), value |-> B("u")]}
Service     == B("s")

----------------------------------------------------------------------------
(* Well-formed requests, and their bodies.                                 *)

Req(method, url, version, headers, body) ==
  [method |-> B(method), url |-> B(url), version |-> B(version), headers |-> headers,
   body |-> body]
H(name, value) == [name |-> B(name), value |-> B(value)]

SomeRequests ==
  {Req("GE", "/", "1.1", <<>>, <<>>),
   Req("GE", "/a?b#c", "1.0", <<H("ho", "h")>>, <<>>),
   Req("PO", "*", "1.1", <<H("Cl", "12")>>, B("GE / H/1.1\r\n")),
   Req("GE", "b://a@h:1/", "1.1", <<H("cn", "ka, CS"), H("e", "b")>>, <<>>),
   Req("PO", "/", "1.1",
       <<[name |-> B("g"), value |-> <<"lead", "cont">>], H("cl", "2")>>,
       <<"cont", "NUL">>)}

RequestOf == [s \in {Rendered(r) \o r.body : r \in SomeRequests} |->
                CHOOSE r \in SomeRequests : Rendered(r) \o r.body = s]

(* Every state of the parser meets every kind of byte that it tells apart: *)
(* a text that leads to it, and one of the bytes.                          *)
Then(texts, bytes) == {B(t) \o <<b>> : t \in texts, b \in bytes}

RequestLines ==
  Then({"", "\r", "G", "GE", "GE_", "PO ", "CO ", "PO /", "PO a", "PO a:", "PO a:/", "CO a",
        "CO @", "PO /?", "PO /#", "PO / ", "PO /\n", "PO /\r", "PO /\r\r"},
       {"SP", "HT", "CR", "LF", "a", "P", ":", "/", "?", "#", "@", "\"", "NUL"})
Versions ==
  Then({"GE / H", "GE / H/", "SO / I", "SO / H/1", "SO / H/1.", "GE / I", "GE_P / H",
        "GE_P / R", "PI / H/2.0", "PI / H/2.0\r", "PI / H/2.0\r\n", "PI / H/2.0\r\nS", 
        "PO / H/1.1", "PO / H/1.1\r"},
       {"SP", "CR", "LF", "/", ".", "1", "3", "S"})

(* Requests of HTTP/0.9 have the shortest line.                            *)
Simple(texts, bytes) == Then({"GE *\n" \o t : t \in texts}, bytes)

HeaderLines ==
  Simple({"", "c", "cl", "cl:", "cl:1", "cl:1 ", "cl:\r\n", "cl:1\r\n", "cl:1\r\ncl:", 
          "cl:1\r\nte",
          "g", "g:", "g:\r", "g:\r\n", "g:a", "g:a\r", "g:a\r\n",
          "cn:", "cn:c", "cn:cs", "cn:cs\r\n", "cn:a", "cn:a\r\n", "cn:a,",
          "te:", "te:c", "te:ch", "te:ch ", "te:ch\r\n", "te:a", "te:a,", "te:a\r\ncl", "te:a\r\ncl:1", "cl:1\r\nte:",
          "te:ch\r\nte:", "up:a\r\n"},
         {"SP", "HT", "CR", "LF", "NUL", "c", "9", ":", ","})

HeadEnds ==
  Simple({"\r", "\r\n", "cl:2\r\n\r\na", "cn:ka\r\n\r", "te:a\r\n\r", "up:a\r\ncn:up\r\n\r",
          "up:a\r\ncn:up\r\ncl:1\r\n\r\n", "te:ch\r\n\r\n0\r\n\r",
          "up:a\r\ncn:up\r\nte:ch\r\n\r\n0\r\n\r", "cn:ka\r\nte:ch\r\n\r\n0\r\n\r"},
         {"CR", "LF", "a"})
Chunks ==
  Simple({"te:ch\r\n\r\n" \o t :
            t \in {"", "1", "1\r", "1\r\n", "1\r\na", "1\r\na\r", "1\r\na\r\n", "0\r\n", "0", "2\r\n",
                   "1;", "1;a", "1;a=", "1;a=b", "1;a=\"", "1;a=\"\\", "1;a=\"b\""}},
         {"SP", "CR", "LF", "1", "g", ";", "=", "\"", "\\", "NUL"})

(* A connection that is handed over, one with two requests at once, and    *)
(* one with a request of HTTP/0.9 before another.                          *)
Simple09    == B("GE *\ncn:ka\r\n\r\nGE / H/1.1\r\n\r\n")
Connections == {B("CO a H/1.1\r\n\r\nab"), B("GE / H/1.1\r\n\r\nGE * H/1.1\r\ng:a\r\n\r\n"), Simple09}

Others ==
  RequestLines \cup Versions \cup HeaderLines \cup HeadEnds \cup Chunks \cup Connections

AllStreams == DOMAIN RequestOf \cup Others
SomeCuts    == [s \in AllStreams |->
                  {n \in 1 .. Len(s) :
                     s \in {Simple09} \cup DOMAIN RequestOf \/ n + 2 >= Len(s)}]
SomeLogged  == [s \in AllStreams |->
                  IF ToSet(s) \cap {"lead", "cont"} = {} THEN {TRUE} ELSE BOOLEAN]
SomeReplies == [s \in AllStreams |-> IF s = B("GE / H/1.1\r\n\r\n") THEN 3 ELSE 0]
=============================================================================
