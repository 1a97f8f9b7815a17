----------------------------- MODULE WtPrefixes -----------------------------
(***************************************************************************)
(* The stream prefixes of a connection (src/h3zero_common.c): a doubly     *)
(* linked list with a node for each WebTransport session, in the order of  *)
(* their declaration.  A prefix is the id of the control stream of its     *)
(* session.                                                                *)
(*                                                                         *)
(* h3zero_delete_stream_prefix unlinks the node, tells the application,    *)
(* and frees the node then.  The application may call it from there again, *)
(* for the same prefix or another one, and declare prefixes: the calls in  *)
(* progress are a stack.                                                   *)
(***************************************************************************)
EXTENDS Naturals, Sequences, SequencesExt, FiniteSets

CONSTANTS
  Sessions,   \* the sessions
  Copies,     \* bound: how many nodes of a prefix there are in memory
  MaxDeclared,   \* bound: how many prefixes are declared in all
  Closing,    \* the sessions whose control stream may go before its prefix
  None

ASSUME BoundsAssumption == {Copies, MaxDeclared} \subseteq Nat
ASSUME ClosingAssumption == Closing \subseteq Sessions
ASSUME NoneAssumption == None \notin Sessions \X (1..Copies)

\* A node is known by its prefix and a number.
Nodes == Sessions \X (1..Copies)

VARIABLES
  first, last,        \* stream_prefixes
  next, previous,     \* of each node
  allocated,          \* the nodes in memory
  streams,            \* the control streams that have a context
  deleting,           \* the nodes of the calls of delete_stream_prefix in progress
  teardown,           \* h3zero_delete_all_stream_prefixes: "no", "running", "done"
  declared            \* history: for the bound

linkVars == <<first, last, next, previous>>
prefixVars == <<linkVars, allocated, streams, deleting, teardown, declared>>

PrefixInit ==
  /\ first = None /\ last = None
  /\ next = [n \in Nodes |-> None] /\ previous = [n \in Nodes |-> None]
  /\ allocated = {} /\ streams = Sessions
  /\ deleting = <<>> /\ teardown = "no" /\ declared = 0
-----------------------------------------------------------------------------
\* The nodes that a walk from the first one meets.
Linked ==
  {n \in allocated :
     \A S \in SUBSET allocated :
       (first # None => first \in S) /\ (\A m \in S : next[m] # None => next[m] \in S)
         => n \in S}

h3zero_find_stream_prefix(p) ==
  LET found == {n \in Linked : n[1] = p}
  IN IF found = {} THEN None ELSE CHOOSE n \in found : TRUE

\* The application runs in the callback of the call that was entered last, if that
\* makes one, or of its own.
InCallback == deleting # <<>> /\ Last(deleting)[1] \in streams
AppRuns == InCallback \/ (deleting = <<>> /\ teardown = "no")

\* Mutated form: a prefix that is there is declared again.
h3zero_declare_stream_prefix_Twice(p) ==
  /\ AppRuns /\ teardown = "no"
  /\ declared < MaxDeclared /\ declared' = declared + 1
  /\ \E k \in 1..Copies :
       LET n == <<p, k>>
       IN /\ n \notin allocated /\ \A j \in 1..(k - 1) : <<p, j>> \in allocated
          /\ allocated' = allocated \cup {n}
          /\ first' = IF last = None THEN n ELSE first
          /\ next' = [m \in Nodes |-> IF m = last THEN n ELSE next[m]]
          /\ previous' = [previous EXCEPT ![n] = last]
          /\ last' = n
  /\ UNCHANGED <<streams, deleting, teardown>>

\* A new node is linked behind the last one.  (A declared prefix is refused, and
\* nothing changes; so it is without memory.)
h3zero_declare_stream_prefix(p) ==
  /\ AppRuns /\ teardown = "no"
  /\ declared < MaxDeclared /\ declared' = declared + 1
  /\ h3zero_find_stream_prefix(p) = None
  /\ \E k \in 1..Copies :
       LET n == <<p, k>>
       IN /\ n \notin allocated /\ \A j \in 1..(k - 1) : <<p, j>> \in allocated
          /\ allocated' = allocated \cup {n}
          /\ first' = IF last = None THEN n ELSE first
          /\ next' = [m \in Nodes |-> IF m = last THEN n ELSE next[m]]
          /\ previous' = [previous EXCEPT ![n] = last]
          /\ last' = n
  /\ UNCHANGED <<streams, deleting, teardown>>

\* Mutated form: the last node stays the last one.
Unlink_KeepsLast(n) ==
  /\ first' = IF previous[n] = None THEN next[n] ELSE first
  /\ next' = [m \in Nodes |-> IF m = previous[n] THEN next[n] ELSE next[m]]
  /\ last' = IF next[n] = None /\ previous[n] = None THEN None ELSE last
  /\ previous' = [m \in Nodes |-> IF m = next[n] THEN previous[n] ELSE previous[m]]

Unlink(n) ==
  /\ first' = IF previous[n] = None THEN next[n] ELSE first
  /\ next' = [m \in Nodes |-> IF m = previous[n] THEN next[n] ELSE next[m]]
  /\ last' = IF next[n] = None THEN previous[n] ELSE last
  /\ previous' = [m \in Nodes |-> IF m = next[n] THEN previous[n] ELSE previous[m]]

h3zero_delete_stream_prefix(p) ==
  LET n == h3zero_find_stream_prefix(p)
  IN /\ n # None /\ Unlink(n)
     /\ deleting' = Append(deleting, n)
     /\ UNCHANGED <<allocated, streams>>

Delete(p) ==
  AppRuns /\ h3zero_delete_stream_prefix(p) /\ UNCHANGED <<teardown, declared>>

\* The callback, if there was one, has returned.
Free ==
  /\ deleting # <<>>
  /\ LET n == Last(deleting)
     IN /\ allocated' = allocated \ {n} /\ deleting' = Front(deleting)
        /\ next' = [next EXCEPT ![n] = None] /\ previous' = [previous EXCEPT ![n] = None]
  /\ UNCHANGED <<first, last, streams, teardown, declared>>

\* Mutated form: a prefix without control stream is passed over.
DeleteAll_OnlyOpen ==
  /\ deleting = <<>> /\ teardown # "done"
  /\ IF first # None
     THEN first[1] \in streams /\ h3zero_delete_stream_prefix(first[1])
            /\ teardown' = "running"
     ELSE teardown' = "done" /\ UNCHANGED <<linkVars, allocated, streams, deleting>>
  /\ UNCHANGED declared

\* h3zero_delete_all_stream_prefixes, at the end of the connection
DeleteAll ==
  /\ deleting = <<>> /\ teardown # "done"
  /\ IF first # None
     THEN h3zero_delete_stream_prefix(first[1]) /\ teardown' = "running"
     ELSE teardown' = "done" /\ UNCHANGED <<linkVars, allocated, streams, deleting>>
  /\ UNCHANGED declared

\* The context of a control stream is deleted.
StreamGone(p) ==
  /\ AppRuns /\ p \in streams \cap Closing
  /\ streams' = streams \ {p}
  /\ UNCHANGED <<linkVars, allocated, deleting, teardown, declared>>
-----------------------------------------------------------------------------
\* The table that the list stands for: the prefixes in the order of the links.
Walk ==
  CHOOSE s \in [1..Cardinality(Linked) -> Linked] :
    \A i \in DOMAIN s : s[i] = IF i = 1 THEN first ELSE next[s[i - 1]]

PrefixOrder == [i \in DOMAIN Walk |-> Walk[i][1]]

Table == INSTANCE PrefixTable WITH table <- PrefixOrder

\* The list implements the table: prefixes are appended once, a deletion takes out
\* one of them and leaves the others in their order, wherever in the list it is and
\* whatever the application does in its callback.
TableKept == Table!Spec

\* The links agree with each other in both directions and with the ends of the list,
\* and lead to no node but those that are in memory and not being deleted; and no node
\* is freed twice, or while it is linked: the calls in progress are about different
\* nodes, that are in memory and out of the list.
LinksAgree ==
  LET live == allocated \ Range(deleting)
  IN /\ first = None <=> last = None
     /\ first # None => first \in live /\ previous[first] = None
     /\ last # None => last \in live /\ next[last] = None
     /\ \A n \in live :
          /\ next[n] # None => next[n] \in live /\ previous[next[n]] = n
          /\ previous[n] # None => previous[n] \in live /\ next[previous[n]] = n
          /\ next[n] = None => n = last
          /\ previous[n] = None => n = first
     /\ \A i, j \in DOMAIN deleting : deleting[i] = deleting[j] => i = j
     /\ Range(deleting) \subseteq allocated
     /\ Linked \cap Range(deleting) = {}
=============================================================================
