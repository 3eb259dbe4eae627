------------------------------ MODULE AgentChat -----------------------------
(***************************************************************************)
(* The agent that answers questions about one product.  A turn puts a      *)
(* context together, the live activity and the code of the product's       *)
(* newest repositories, and then asks the model, which may use tools for   *)
(* some rounds: reading files of these repositories and walking their code *)
(* graphs.                                                                 *)
(*                                                                         *)
(* The context is kept in three caches of the process.  Live activity is   *)
(* kept per token and list of repositories; key files and selected sources *)
(* are kept per product, also when nothing could be read.  Between the     *)
(* look at a cache and the entry in it GitHub is asked.                    *)
(***************************************************************************)
EXTENDS Naturals, FiniteSets, Sequences, SequencesExt

CONSTANTS
    Users,       \* each with a token and one turn at a time
    Readers,     \* users whose tokens read the product's repositories
    Repos,
    Kinds,       \* the caches kept per product: key files, selected sources
    Reach,       \* _GITHUB_MAX_REPOS
    Rounds,      \* _MAX_TOOL_ITERATIONS
    LiveTime, KeptTime   \* lifetimes of entries

VARIABLES
    connected,   \* the product's repositories, newest first
    graph,       \* repositories, of this and other products, with a code graph
    live,        \* entries of agent_context_cache
    kept,        \* kept[k]: the product's entry in cache k
    bare,        \* bare[k]: for how long nothing may be shown since it was entered
    turn

vars == <<connected, graph, live, kept, bare, turn>>

Sections == Kinds \union {"live"}
Idle == [pc |-> "idle"]
Nothing == [s \in {} |-> {}]

\* An entry and the time it has left.
Entries == [of: SUBSET Repos, left: 0 .. KeptTime]
Gone == [of |-> {}, left |-> 0]

TypeOK ==
    /\ Range(connected) \subseteq Repos /\ IsInjective(connected)
    /\ graph \subseteq Repos
    /\ \A e \in live : e.user \in Users /\ e.of \subseteq e.names /\ e.left \in 1 .. LiveTime
    /\ \A e, f \in live : e.user = f.user /\ e.names = f.names => e = f
    /\ kept \in [Kinds -> Entries] /\ bare \in [Kinds -> 0 .. KeptTime]
    /\ \A u \in Users : turn[u] # Idle =>
          /\ turn[u].repos \subseteq Repos /\ Cardinality(turn[u].repos) <= Reach
          /\ turn[u].calls \in 0 .. Rounds + 1
          /\ \A s \in DOMAIN turn[u].shown : s \in Sections /\ turn[u].shown[s] \subseteq Repos

-----------------------------------------------------------------------------
(* A turn begins: the repositories are loaded once.                        *)

\* Wrong variant: all repositories there are.
Newest_All == Range(connected)

Newest == {connected[i] : i \in 1 .. (IF Len(connected) < Reach THEN Len(connected) ELSE Reach)}

Begin(u) ==
    /\ turn[u] = Idle
    /\ turn' = [turn EXCEPT ![u] =
                  [pc |-> "context", repos |-> Newest, shown |-> Nothing, asking |-> "none",
                   graphs |-> \E r \in Range(connected) : r \in graph, calls |-> 0, seen |-> {}]]
    /\ UNCHANGED <<connected, graph, live, kept, bare>>

-----------------------------------------------------------------------------
(* The context: each section comes from its cache or from GitHub.          *)

\* Wrong variant: the key of live activity is the list of repositories only.
LiveFor_Anyone(u, names) == {e \in live : e.names = names}

LiveFor(u, names) == {e \in live : e.user = u /\ e.names = names}

Kept(k) == {e \in {kept[k]} : e.left > 0}

Cached(u, s) == {e.of : e \in IF s = "live" THEN LiveFor(u, turn[u].repos) ELSE Kept(s)}

\* Live activity first, then key files and sources; nothing without repositories.
Due(t) ==
    IF t.repos = {} THEN {}
    ELSE IF "live" \notin DOMAIN t.shown THEN {"live"} ELSE Kinds \ DOMAIN t.shown

Show(t, s, of) ==
    [t EXCEPT !.shown = [x \in DOMAIN @ \union {s} |-> IF x = s THEN of ELSE @[x]], !.asking = "none"]

UseCache(u, s) ==
    /\ turn[u].pc = "context" /\ turn[u].asking = "none" /\ s \in Due(turn[u])
    /\ \E of \in Cached(u, s) : turn' = [turn EXCEPT ![u] = Show(@, s, of)]
    /\ UNCHANGED <<connected, graph, live, kept, bare>>

AskGitHub(u, s) ==
    /\ turn[u].pc = "context" /\ turn[u].asking = "none" /\ s \in Due(turn[u])
    /\ Cached(u, s) = {}
    /\ turn' = [turn EXCEPT ![u].asking = s]
    /\ UNCHANGED <<connected, graph, live, kept, bare>>

\* What a user's token reads of some repositories: any may fail.
Answers(u) == IF u \in Readers THEN SUBSET turn[u].repos ELSE {{}}

\* Live activity is entered only when there is some.
FetchedLive(u, of) ==
    /\ turn[u].pc = "context" /\ turn[u].asking = "live" /\ of \in Answers(u)
    /\ live' = IF of = {} THEN live
               ELSE (live \ LiveFor(u, turn[u].repos))
                      \union {[user |-> u, names |-> turn[u].repos, of |-> of, left |-> LiveTime]}
    /\ turn' = [turn EXCEPT ![u] = Show(@, "live", of)]
    /\ UNCHANGED <<connected, graph, kept, bare>>

FetchedCode(u, k, of) ==
    /\ turn[u].pc = "context" /\ turn[u].asking = k /\ of \in Answers(u)
    /\ kept' = [kept EXCEPT ![k] = [of |-> of, left |-> KeptTime]]
    /\ bare' = [bare EXCEPT ![k] = IF of = {} THEN KeptTime ELSE @]
    /\ turn' = [turn EXCEPT ![u] = Show(@, k, of)]
    /\ UNCHANGED <<connected, graph, live>>

ContextDone(u) ==
    /\ turn[u].pc = "context" /\ turn[u].asking = "none" /\ Due(turn[u]) = {}
    /\ turn' = [turn EXCEPT ![u].pc = "model", ![u].shown = Nothing]
    /\ UNCHANGED <<connected, graph, live, kept, bare>>

-----------------------------------------------------------------------------
(* The model answers, or uses tools while there are rounds left; the last  *)
(* round's tools run and their results are not read any more.              *)

UsesTools(u) ==
    /\ turn[u].pc = "model" /\ turn[u].repos # {} /\ turn[u].calls <= Rounds
    /\ turn' = [turn EXCEPT ![u].pc = "tool", ![u].calls = @ + 1]
    /\ UNCHANGED <<connected, graph, live, kept, bare>>

ToolDone(u, t) ==
    /\ turn' = [turn EXCEPT ![u] = [t EXCEPT !.pc = IF t.calls > Rounds THEN "over" ELSE "model"]]
    /\ UNCHANGED <<connected, graph, live, kept, bare>>

\* read_file, list_files: a repository named by the model.
ReadFile(u, r) ==
    /\ turn[u].pc = "tool"
    /\ ToolDone(u, IF r \in turn[u].repos /\ u \in Readers
                   THEN [turn[u] EXCEPT !.seen = @ \union {r}] ELSE turn[u])

\* Wrong variant: any node there is will do.
Accessible_Any(u, r) == r \in graph

Accessible(u, r) == r \in graph /\ r \in turn[u].repos

\* query_code_graph by repository; get_symbol_context and trace_call_chain by a
\* node, of whatever repository, that the model names.
QueryGraph(u, r) ==
    /\ turn[u].pc = "tool" /\ turn[u].graphs
    /\ ToolDone(u, IF Accessible(u, r) THEN [turn[u] EXCEPT !.seen = @ \union {r}] ELSE turn[u])

\* The answer, the remark that the limit is reached, or an error of the model.
End(u) ==
    /\ turn[u].pc \in {"model", "over"}
    /\ turn' = [turn EXCEPT ![u] = Idle]
    /\ UNCHANGED <<connected, graph, live, kept, bare>>

-----------------------------------------------------------------------------
(* Meanwhile repositories come and go and are indexed, and time passes.    *)

Connect(r) ==
    /\ r \notin Range(connected)
    /\ connected' = <<r>> \o connected
    /\ UNCHANGED <<graph, live, kept, bare, turn>>

Disconnect(r) ==
    /\ \E i \in DOMAIN connected : connected[i] = r /\ connected' = RemoveAt(connected, i)
    /\ UNCHANGED <<graph, live, kept, bare, turn>>

\* A repository not connected here is one of another product.
Index(r) ==
    /\ graph' = IF r \in graph THEN graph \ {r} ELSE graph \union {r}
    /\ UNCHANGED <<connected, live, kept, bare, turn>>

\* A minute, or five, or ten.
Less(n) == IF n = 0 THEN 0 ELSE n - 1
\* Wrong variant: an entry without content does not age.
Older_Content(e) == IF e.of = {} THEN e ELSE [e EXCEPT !.left = Less(@)]

Older(e) == IF e.left <= 1 THEN Gone ELSE [e EXCEPT !.left = @ - 1]

Tick ==
    /\ live' = {[e EXCEPT !.left = Less(@)] : e \in {x \in live : x.left > 1}}
    /\ kept' = [k \in Kinds |-> Older(kept[k])]
    /\ bare' = [k \in Kinds |-> Less(bare[k])]
    /\ UNCHANGED <<connected, graph, turn>>

\* The caches are the process's.
Restart ==
    /\ live' = {} /\ kept' = [k \in Kinds |-> Gone] /\ bare' = [k \in Kinds |-> 0]
    /\ turn' = [u \in Users |-> Idle]
    /\ UNCHANGED <<connected, graph>>

Init ==
    /\ connected = <<>> /\ graph = {} /\ live = {}
    /\ kept = [k \in Kinds |-> Gone] /\ bare = [k \in Kinds |-> 0]
    /\ turn = [u \in Users |-> Idle]

Next ==
    \/ \E u \in Users : \/ Begin(u) \/ ContextDone(u) \/ UsesTools(u) \/ End(u)
                        \/ \E s \in Sections : UseCache(u, s) \/ AskGitHub(u, s)
                        \/ \E r \in Repos : ReadFile(u, r) \/ QueryGraph(u, r)
                        \/ \E of \in SUBSET Repos :
                              \/ FetchedLive(u, of)
                              \/ \E k \in Kinds : FetchedCode(u, k, of)
    \/ \E r \in Repos : Connect(r) \/ Disconnect(r) \/ Index(r)
    \/ Tick \/ Restart

Spec == Init /\ [][Next]_vars

-----------------------------------------------------------------------------
\* Live activity is shown to a user only as his own token reads it, and only of
\* the repositories the product had when his turn began, however turns of other
\* users with the same repositories overlap with it.
LiveIsOwn ==
    \A u \in Users :
        turn[u] # Idle /\ "live" \in DOMAIN turn[u].shown =>
            /\ turn[u].shown["live"] # {} => u \in Readers
            /\ turn[u].shown["live"] \subseteq turn[u].repos

\* What the tools show belongs to the repositories the turn began with, even if
\* the model names nodes of other products or of repositories removed meanwhile.
ToolsStayInside == \A u \in Users : turn[u] # Idle => turn[u].seen \subseteq turn[u].repos

Sees(u, k) == turn[u] # Idle /\ k \in DOMAIN turn[u].shown

\* A user gets no code into his context only if nothing could be read, for him or
\* for somebody else, less than the lifetime of an entry ago.
MissingIsRecent ==
    [][\A u \in Users, k \in Kinds :
         Sees(u, k)' /\ ~Sees(u, k) /\ turn'[u].shown[k] = {} => bare'[k] > 0]_vars

\* What one would expect, and a cache shared by users with different tokens does
\* not give: a user whose token reads the repositories misses code only if it
\* could not be read for him.
NobodyHidesCode ==
    [][\A u \in Readers, k \in Kinds : UseCache(u, k) => turn'[u].shown[k] # {}]_vars
=============================================================================
