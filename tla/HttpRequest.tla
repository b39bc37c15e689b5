----------------------------- MODULE HttpRequest -----------------------------
(***************************************************************************)
(* One request in src/version1.0/http.cpp: http_parse, which do_request    *)
(* calls once for a connection, with parse_uri, parse_headers and          *)
(* parse_analysis.  The socket gives the part of the request line that has *)
(* come, and files change while the request is handled.                    *)
(*                                                                         *)
(* A request line is a sequence of tokens, which are words or single       *)
(* characters; so is a URI.  It is cut off between two of its tokens.  A   *)
(* text is found inside longer words too.  The sizes of files are in       *)
(* pages.                                                                  *)
(***************************************************************************)
EXTENDS Integers, SequencesExt

CONSTANTS
  Words,     \* what lines, URIs and names are made of
  Methods,   \* of the requests
  Uris,      \* what they ask for, after the first slash
  Versions,  \* what follows the dot in their version
  Inside,    \* the texts that are found inside a word which is longer
  Known,     \* the versions of which the first character is 0 or 1
  Files,     \* the names of the files there are
  MaxPages,  \* bound: the sizes of files
  NPOS       \* what find returns for nothing: the largest size_t

\* std::string::find, in one token.
Occurs(t, w) == t = w \/ t \in Inside[w]

\* The characters that a line, its parts and a URI are cut at.
Ends == {" ", "/", "\r", "?"}

ASSUME RequestAssumption ==
  /\ Methods \cup Versions \cup {" ", "/", "HTTP", "1", ".", "\r", "index.html"} \subseteq Words
  /\ Uris \subseteq Seq(Words) /\ Files \subseteq Seq(Words)
  /\ MaxPages \in Nat /\ NPOS \in Nat
  /\ \A u \in Uris : Len(u) + 11 < NPOS
  \* The characters that end a part of the line are in none of the parts.
  /\ (Methods \cup Versions) \cap {" ", "/", "\r"} = {}
  /\ \A u \in Uris : \A i \in DOMAIN u : u[i] \notin {" ", "\r"}
  /\ \A w \in Words : Inside[w] \cap Ends = {}
  \* There is no GET after the URI.  No word begins with 1.0 or 1.1, which the code
  \* would take for the version of a line that has none.
  /\ \A w \in Versions \cup {" ", "/", "HTTP", "1", "."} : ~Occurs("GET", w)
  /\ Versions \cap {"0", "1"} \subseteq Known /\ Known \subseteq Versions

Requests == [method : Methods, uri : Uris, version : Versions]

Line(r) == <<r.method, " ", "/">> \o r.uri \o <<" ", "HTTP", "/", "1", ".", r.version, "\r">>

VARIABLES
  asked,    \* the request that the client sends
  come,     \* how many tokens of its line have come when they are read
  state,    \* where http_parse is
  uri,      \* request->uri
  st_size,  \* what stat has said
  src,      \* the size of the file that src_fd stands for
  outbuf_,  \* the answer: its Content-Length, whose content it is, and how much
  written,  \* the answer that was given to http_write
  files,    \* the size of a file, -1 when it has been removed
  trouble   \* history: a file has changed or a system call has failed

httpVars == <<asked, come, state, uri, st_size, src, outbuf_, written, files, trouble>>

Nothing == [announced |-> -1, name |-> <<>>, body |-> 0]
Answers == [announced : -1 .. MaxPages, name : Seq(Words), body : 0 .. MaxPages]

HttpTypeOK ==
  /\ asked \in Requests /\ come \in Nat
  /\ state \in {"read", "uri", "analysis", "open", "map", "body", "fin", "error", "killed", "ended"}
  /\ uri \in Seq(Words)
  /\ {st_size, src} \subseteq -1 .. MaxPages
  /\ {outbuf_, written} \subseteq Answers
  /\ files \in [Files -> -1 .. MaxPages]
  /\ trouble \in BOOLEAN

HttpInit ==
  /\ asked \in Requests /\ come = 0
  /\ state = "read"
  /\ uri = <<>> /\ st_size = -1 /\ src = -1
  /\ outbuf_ = Nothing /\ written = Nothing
  /\ files \in [Files -> 0 .. MaxPages]
  /\ trouble = FALSE

-----------------------------------------------------------------------------
(* std::string, with positions from 0, and size_t. *)

find(s, t, from) ==
  LET at == {p \in 0 .. Len(s) - 1 : p >= from /\ Occurs(t, s[p + 1])}
  IN  IF at = {} THEN NPOS ELSE Min(at)

\* Mutant: the positions are kept in a wider type.
Wider(n) == n

Wrap(n) == n % (NPOS + 1)

substr(s, from, n) == SubSeq(s, from + 1, Min({Len(s), from + n}))

-----------------------------------------------------------------------------
(* The world: some of the line comes, files are resized in place or removed. *)

ResizeFile ==
  \E f \in Files, n \in 0 .. MaxPages :
    /\ state # "ended" /\ files[f] # -1
    /\ files' = [files EXCEPT ![f] = n]
    /\ src' = IF uri = f /\ src # -1 THEN n ELSE src
    /\ trouble' = TRUE
    /\ UNCHANGED <<asked, come, state, uri, st_size, outbuf_, written>>

RemoveFile ==
  \E f \in Files :
    /\ state # "ended" /\ files[f] # -1
    /\ files' = [files EXCEPT ![f] = -1]
    /\ trouble' = TRUE
    /\ UNCHANGED <<asked, come, state, uri, st_size, src, outbuf_, written>>

\* read_ takes what has come.
Read ==
  /\ state = "read" /\ state' = "uri"
  /\ come' \in 1 .. Len(Line(asked))
  /\ UNCHANGED <<asked, uri, st_size, src, outbuf_, written, files, trouble>>

inbuf_ == SubSeq(Line(asked), 1, come)

-----------------------------------------------------------------------------
(* parse_uri. *)

request_line == substr(inbuf_, 0, find(inbuf_, "\r", 0))

HasGet == find(request_line, "GET", 0) # NPOS
HasPost == find(request_line, "POST", 0) # NPOS

\* method_get is 0, which the request is initialized with.
IsPost == ~HasGet /\ HasPost

\* The search for the URI begins at the method, or else at the end of the line.
Start ==
  CASE HasGet -> find(request_line, "GET", 0)
    [] IsPost -> find(request_line, "POST", 0)
    [] OTHER -> find(inbuf_, "\r", 0)

\* No position is less than 0: the ends of the URI that are not found are NPOS.
UriFrom == find(request_line, "/", Start)
UriTo == find(request_line, " ", UriFrom)

\* The URI without its query.
WithoutQuery(u) == substr(u, 0, find(u, "?", 0))

ParsedUri ==
  LET n == Wrap(UriTo - UriFrom)
  IN  IF n > 1 THEN WithoutQuery(substr(request_line, Wrap(UriFrom + 1), n - 1)) ELSE <<"index.html">>

\* The slash of the version must be followed by at least three characters, and
\* the first three of them are compared: whatever follows them is not looked at.
IsVersion(slash) ==
  /\ Wrap(Len(request_line) - slash) > 3
  /\ substr(request_line, Wrap(slash + 1), 3) \in {<<"1", ".", v>> : v \in Known}

\* parse_uri, and parse_headers, which does nothing.  There is no step for the
\* body of a POST.
ParseUri ==
  /\ state = "uri"
  /\ uri' = ParsedUri
  /\ state' = IF ~IsVersion(find(request_line, "/", UriTo)) THEN "error"
              ELSE IF IsPost THEN "body" ELSE "analysis"
  /\ UNCHANGED <<asked, come, st_size, src, outbuf_, written, files, trouble>>

-----------------------------------------------------------------------------
(* parse_analysis, and the end of http_parse. *)

Answer(n, name, m) == [announced |-> n, name |-> name, body |-> m]

\* Some names have answers of their own; the one of favicon.ico is empty.
Analysis ==
  /\ state = "analysis"
  /\ \/ /\ uri = <<"hello">>
        /\ outbuf_' = Answer(0, uri, 0)
        /\ state' = "fin"
        /\ UNCHANGED st_size
     \/ /\ uri = <<"favicon.ico">>
        /\ state' = "fin"
        /\ UNCHANGED <<outbuf_, st_size>>
     \/ /\ uri \notin {<<"hello">>, <<"favicon.ico">>}
        /\ IF uri \in Files /\ files[uri] # -1
           THEN /\ st_size' = files[uri]
                /\ outbuf_' = Answer(files[uri], uri, 0)
                /\ state' = "open"
           ELSE state' = "error" /\ UNCHANGED <<st_size, outbuf_>>
  /\ UNCHANGED <<asked, come, uri, src, written, files, trouble>>

\* Mutant: the answer is left in the buffer when a call fails.
NotCleared == UNCHANGED outbuf_

Cleared == outbuf_' = Nothing

Open ==
  /\ state = "open"
  /\ \/ /\ files[uri] # -1
        /\ src' = files[uri]
        /\ state' = "map"
        /\ UNCHANGED <<outbuf_, trouble>>
     \/ Cleared /\ state' = "error" /\ trouble' = TRUE /\ UNCHANGED src
  /\ UNCHANGED <<asked, come, uri, st_size, written, files>>

\* Nothing can be mapped of an empty file, and the pages that a file has lost
\* cannot be read: SIGBUS.
Map ==
  /\ state = "map"
  /\ src' = -1
  /\ \/ /\ st_size > 0
        /\ IF src < st_size
           THEN state' = "killed" /\ UNCHANGED outbuf_
           ELSE state' = "fin" /\ outbuf_' = [outbuf_ EXCEPT !.body = st_size]
        /\ UNCHANGED trouble
     \/ /\ Cleared
        /\ state' = "error"
        /\ trouble' = (trouble \/ st_size > 0)
  /\ UNCHANGED <<asked, come, uri, st_size, written, files>>

\* What is in the output buffer is written, after an error too; do_error does
\* nothing.
EndParse ==
  /\ state \in {"body", "fin", "error"} /\ state' = "ended"
  /\ written' = outbuf_
  /\ outbuf_' = Nothing
  /\ UNCHANGED <<asked, come, uri, st_size, src, files, trouble>>

HttpNext == ResizeFile \/ RemoveFile \/ Read \/ ParseUri \/ Analysis \/ Open \/ Map \/ EndParse

HttpSpec == HttpInit /\ [][HttpNext]_httpVars

-----------------------------------------------------------------------------

\* std::string::substr throws when it begins behind the end of the string, and
\* nothing catches that.  The positions from which parse_uri cuts are computed from
\* what find has returned, npos included; they are never behind the end.
NoThrow ==
  state # "read" =>
    \A p \in {UriFrom, find(request_line, "/", UriTo)} : Wrap(p + 1) <= Len(request_line)

\* What a request is, for its sender.
NameOf(r) ==
  IF r.uri = <<>> THEN <<"index.html">>
  ELSE IF Contains(r.uri, "?") THEN SubSeq(r.uri, 1, SelectInSeq(r.uri, LAMBDA t : t = "?") - 1)
  ELSE r.uri

IsWhole == come >= Len(Line(asked)) - 1

\* What is taken for a good request: a whole line, GET anywhere in the method, and
\* a version that begins with 1.0 or 1.1.  A GET request of these versions is one.
IsTaken == Occurs("GET", asked.method) /\ asked.version \in Known /\ IsWhole

\* The code looks for the method anywhere in the line.  A URI with a GET before
\* a slash makes a GET request of any other.
Disguised ==
  /\ ~Occurs("GET", asked.method)
  /\ \E i, j \in DOMAIN asked.uri : i < j /\ Occurs("GET", asked.uri[i]) /\ asked.uri[j] = "/"

\* An answer is given only to what is taken for a good request and to disguised
\* ones: never to a line that is cut off, to another version or to a method in
\* which there is no GET, although a part that is missing is looked for at npos.
\* It has the content of the file the request names, and as much of it as it
\* announces, although the file may change between stat, open and mmap.  And what
\* is taken for a good request for a file that is there, is not empty and stays
\* as it is gets its answer, but for favicon.ico, whose answer is empty.
AnswersTheRequest ==
  /\ written # Nothing =>
       /\ Disguised \/ (IsTaken /\ written.name = NameOf(asked))
       /\ written.announced = written.body
  /\ /\ state = "ended" /\ IsTaken /\ ~trouble
     /\ NameOf(asked) \in Files \ {<<"favicon.ico">>} /\ files[NameOf(asked)] > 0
     => written # Nothing
=============================================================================
