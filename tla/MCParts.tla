------------------------------ MODULE MCParts ------------------------------
(***************************************************************************)
(* Three sequential parts of the code on small instances, one at a time:   *)
(* the heap of timers (up to six nodes, a tree of three levels), a log     *)
(* line (8-bit integers, a buffer that a few items fill) and a request     *)
(* (whole and cut off, with queries, with a GET inside other methods and   *)
(* inside URIs, an unknown version and one that goes on after a known one, *)
(* and a file that is missing).                                            *)
(***************************************************************************)
EXTENDS TimeHeap, LogStream, HttpRequest

TheUris ==
  { <<>>, <<"a">>, <<"a", "?", "q">>, <<"?", "q">>, <<"b", "/", "c">>,
    <<"hello">>, <<"favicon.ico">>, <<"a", "?", "GET">>,
    <<"GET", "/", "a">>, <<"widGET", "/", "a">> }

TheWords ==
  { " ", "/", "HTTP", "0", "1", "2", ".", "\r", "index.html", "GET", "POST", "PUT",
    "FORGET", "widGET", "15", "a", "b", "c", "q", "?", "hello", "favicon.ico" }

TheInside == [w \in TheWords |-> IF w \in {"FORGET", "widGET"} THEN {"GET"} ELSE {}]

TheFiles == {<<"a">>, <<"index.html">>}

VARIABLE part  \* the part that this behaviour is about

Init ==
  /\ part \in {"heap", "line", "request"}
  /\ HeapInit /\ LogInit /\ HttpInit
  /\ part # "heap" => \A p, q \in Places : heap[p] = heap[q] /\ \A k \in Keys : heap[p] <= k
  /\ part # "request" => 
       /\ asked = CHOOSE r \in Requests : TRUE
       /\ files = [f \in Files |-> 0]

Next ==
  \/ part = "heap" /\ HeapNext /\ UNCHANGED <<logVars, httpVars, part>>
  \/ part = "line" /\ LogNext /\ UNCHANGED <<heapVars, httpVars, part>>
  \/ part = "request" /\ HttpNext /\ UNCHANGED <<heapVars, logVars, part>>

Spec == Init /\ [][Next]_<<heapVars, logVars, httpVars, part>>
=============================================================================
