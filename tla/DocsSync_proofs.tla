--------------------------- MODULE DocsSync_proofs ---------------------------
(***************************************************************************)
(* Proofs about DocsSync, for any numbers of documents, files and commits, *)
(* and any number of requests where nothing else is said.                  *)
(***************************************************************************)
EXTENDS DocsSync, FiniteSetTheorems, TLAPS

-----------------------------------------------------------------------------
(* The invariants.                                                         *)

Phases == {"branch", "base", "commit", "record"}
CopySets == UNION {[D -> Row] : D \in SUBSET Docs}
PushRequests ==
    [op: {"push"}, phase: Phases, copy: CopySets, head: Texts, tree: Trees, out: SUBSET Change]

RequestsOK ==
    req \in [Requests -> {Idle} \union ImportRequests \union RowRequests \union PushRequests]

\* What a request carries was made from what it loaded. A document has a name,
\* so that there is a file it can be pushed to.
FormOK(q) ==
    /\ q.op = "import" =>
         /\ \A p \in q.todo : q.tree[p] # Empty
         /\ \A c \in q.out : c.new = FromGitHub(c.old, c.new.text) /\ c.new.text # Empty
         /\ \A x \in q.new : \E p \in Paths :
              x = Imported(p, q.tree[p], x.text) /\ q.tree[p] # Empty
    /\ q.op = "pull" => q.old.path \in Paths
    /\ q.op = "push" =>
         /\ \A d \in DOMAIN q.copy : q.copy[d].name \in Paths
         /\ q.phase # "record" => q.out = {}
         /\ \A c \in q.out : /\ c.doc \in DOMAIN q.copy /\ c.old = q.copy[c.doc]
                             /\ c.new \in {Recorded(c.old, c.new.sha), Unread(c.old)}
Named == \A d \in Docs : rows[d].live => rows[d].name \in Paths
Forms == Named /\ \A r \in Requests : FormOK(req[r])

\* Commits are numbered as they come; as long as the branch has the commit a
\* push has read, it has the tree the push has read.
Numbered == head["main"] \in 1 .. clock /\ head["sync"] \in 0 .. clock
BasedOnHead(q) ==
    q.op = "push" =>
      /\ q.phase # "branch" => head[target] # 0
      /\ q.phase = "commit" =>
           /\ q.head \in 1 .. clock
           /\ head[target] = q.head => files[target] = q.tree
Bases == \A r \in Requests : BasedOnHead(req[r])

\* One request at a time, by chance or because there is only one.
One == \A r, s \in Requests : r = s
Solo == calm \/ One
Alone == \A r, s \in Requests : req[r] # Idle /\ req[s] # Idle => r = s

\* A row that has been loaded and is still there has the sync state it had; its
\* status may have become "local_changes".
Loaded(old, d) ==
    rows[d].live =>
      /\ rows[d].sha = old.sha /\ rows[d].path = old.path
      /\ rows[d].status \in {old.status, "local_changes"}
LoadedBy(q) ==
    /\ q.op = "import" => \A c \in q.out : Loaded(c.old, c.doc)
    /\ q.op = "pull" => Loaded(q.old, q.doc)
    /\ q.op = "push" => \A d \in DOMAIN q.copy : Loaded(q.copy[d], d)
Undisturbed == Solo => Alone /\ \A r \in Requests : LoadedBy(req[r])

\* While nothing else happens, an import finds the texts of its tree, and a push
\* the texts it has committed.
CalmFor(q) ==
    /\ q.op = "import" =>
         /\ q.tree = files["main"]
         /\ \A x \in q.new : x.sha = x.text
    /\ q.op = "push" /\ q.phase = "record" =>
         /\ \A d \in DOMAIN q.copy : files[target][PathOf(q.copy[d])] = q.copy[d].text
         /\ \A c \in q.out : c.new \in {Recorded(c.old, c.old.text), Unread(c.old)}
CalmIsExact ==
    calm => /\ \A d \in Docs : rows[d].live /\ d \notin edited /\ rows[d].status = "synced"
                                  => rows[d].sha = rows[d].text
            /\ \A r \in Requests : CalmFor(req[r])

\* Where nothing is pushed, a file never has a former text again: a SHA that has
\* been left behind stays so.
Quiet == ~config.enabled /\ target = "main"
Traced(row) ==
    row.linked => /\ row.path \in Paths /\ row.sha \in 1 .. clock
UpToDate(row) == row.linked => row.text = row.sha \/ files["main"][row.path] # row.sha
QuietFor(q) ==
    /\ q.op # "push"
    /\ q.op = "import" =>
         /\ \A p \in Paths : q.tree[p] \in 0 .. clock
         /\ \A c \in q.out : c.new.text \in 1 .. clock
         /\ \A x \in q.new : UpToDate(x)
QuietIsTraced ==
    Quiet =>
      /\ head["sync"] = 0
      /\ \A p \in Paths : files["main"][p] \in 0 .. clock
      /\ \A d \in Docs : rows[d].live => Traced(rows[d])
      /\ \A r \in Requests : QuietFor(req[r])
QuietIsUpToDate ==
    Quiet /\ One => \A d \in Docs : rows[d].live /\ d \notin edited => UpToDate(rows[d])

Inv ==
    /\ TypeOK /\ RequestsOK /\ Forms /\ Numbered /\ Bases
    /\ Undisturbed /\ CalmIsExact /\ QuietIsTraced /\ QuietIsUpToDate

-----------------------------------------------------------------------------
(* Types.                                                                  *)

StateTypes ==
    /\ rows \in [Docs -> Row]
    /\ files \in [Branches -> Trees]
    /\ head \in [Branches -> Texts]
    /\ clock \in Texts
    /\ config \in [enabled: BOOLEAN, branch: Branches]
    /\ edited \subseteq Docs
    /\ calm \in BOOLEAN

LEMMA PushParts ==
    ASSUME NEW q \in PushRequests
    PROVE  /\ q.op = "push" /\ q.phase \in Phases /\ q.head \in Texts /\ q.tree \in Trees
           /\ DOMAIN q.copy \subseteq Docs /\ q.out \subseteq Change
           /\ \A d \in DOMAIN q.copy : q.copy[d] \in Row
BY DEF PushRequests, CopySets

LEMMA TypeParts == StateTypes /\ RequestsOK => TypeOK
<1> SUFFICES ASSUME StateTypes, RequestsOK PROVE TypeOK
    OBVIOUS
<1>1. ASSUME NEW r \in Requests
      PROVE  \/ req[r] = Idle \/ req[r] \in ImportRequests \/ req[r] \in RowRequests
             \/ req[r] \in PushRequests
    BY DEF RequestsOK
<1> QED  BY <1>1, PushParts DEF StateTypes, RequestsOK, TypeOK, Phases

LEMMA TypesOfState == TypeOK => StateTypes
BY DEF TypeOK, StateTypes

LEMMA RequestKinds ==
    ASSUME RequestsOK, NEW r \in Requests
    PROVE  /\ req[r].op = "import" => req[r] \in ImportRequests
           /\ req[r].op \in {"pull", "refresh"} => req[r] \in RowRequests
           /\ req[r].op = "push" => req[r] \in PushRequests
           /\ req[r].op \in {"none", "import", "pull", "refresh", "push"}
           /\ req[r].op = "none" <=> req[r] = Idle
BY DEF RequestsOK, Idle, ImportRequests, RowRequests, PushRequests

LEMMA RowTypes ==
    /\ NoRow \in Row /\ 0 \in Texts /\ Empty \in Texts
    /\ \A row \in Row, text \in Texts : FromGitHub(row, text) \in Row /\ Recorded(row, text) \in Row
    /\ \A row \in Row : Unread(row) \in Row
    /\ \A text \in Texts, name \in Paths : NewRow(text, name) \in Row
    /\ \A p \in Paths, sha, text \in Texts : Imported(p, sha, text) \in Row
    /\ \A row \in Row : PathOf(row) \in Paths \union {NoPath}
<1>1. 0 \in Texts /\ Empty \in Texts
    BY SyncConstants DEF Texts, Empty
<1>2. /\ NoRow \in Row
      /\ \A text \in Texts, name \in Paths : NewRow(text, name) \in Row
      /\ \A p \in Paths, sha, text \in Texts : Imported(p, sha, text) \in Row
    BY <1>1 DEF NoRow, Row, NewRow, Imported
<1>3. \A row \in Row : PathOf(row) \in Paths \union {NoPath}
    BY DEF Row, PathOf
<1>4. \A row \in Row, text \in Texts : FromGitHub(row, text) \in Row
    BY DEF Row, FromGitHub
<1>5. \A row \in Row, text \in Texts : Recorded(row, text) \in Row
    BY <1>3 DEF Row, Recorded
<1>6. \A row \in Row : Unread(row) \in Row
    BY <1>3 DEF Row, Unread
<1> QED  BY <1>1, <1>2, <1>3, <1>4, <1>5, <1>6

LEMMA FlushTypes ==
    ASSUME rows \in [Docs -> Row], NEW C \in SUBSET Change
    PROVE  /\ AfterFlush(C) \in [Docs -> Row]
           /\ StillEdited(C) \subseteq edited \union Docs
<1>1. ASSUME NEW row \in Row, NEW c \in Change
      PROVE  Flushed(row, c) \in Row
    <2>1. c.old \in Row /\ c.new \in Row
        BY DEF Change
    <2>2. /\ Written(row.text, c.old.text, c.new.text) \in Texts
          /\ Written(row.path, c.old.path, c.new.path) \in Paths \union {NoPath}
          /\ Written(row.sha, c.old.sha, c.new.sha) \in Texts
          /\ Written(row.status, c.old.status, c.new.status) \in {"none", "synced", "local_changes"}
        BY <2>1 DEF Row, Written
    <2> QED  BY <2>2 DEF Row, Flushed
<1>2. \A d \in Docs : (\E c \in C : c.doc = d) => (CHOOSE c \in C : c.doc = d) \in C
    OBVIOUS
<1>3. AfterFlush(C) \in [Docs -> Row]
    BY <1>1, <1>2 DEF AfterFlush
<1>4. \A c \in C : c.doc \in Docs
    BY DEF Change
<1> QED  BY <1>3, <1>4 DEF StillEdited

LEMMA TickTypes == ASSUME StateTypes, Tick PROVE clock' \in Texts /\ clock' = clock + 1 /\ clock \in Nat
BY SyncConstants DEF StateTypes, Tick, Texts

LEMMA DoneTypes ==
    ASSUME RequestsOK, NEW r \in Requests, req' = Done(r)
    PROVE  RequestsOK'
BY DEF RequestsOK, Done

LEMMA BeginTypes ==
    ASSUME StateTypes, RequestsOK, NEW r \in Requests,
           NEW q \in ImportRequests \union RowRequests \union PushRequests, Begin(r, q)
    PROVE  RequestsOK' /\ calm' \in BOOLEAN
BY DEF Begin, RequestsOK, StateTypes

LEMMA EditTypes ==
    ASSUME StateTypes, RequestsOK, NEW d \in Docs,
           CreateDocument(d) \/ UpdateDocument(d) \/ DeleteDocument(d) \/ MoveToFolder(d)
    PROVE  StateTypes' /\ RequestsOK'
<1>1. \A row \in Row, text \in Texts : [row EXCEPT !.text = text] \in Row
    BY DEF Row
<1>2. \A row \in Row, name \in Paths : Moved(row, name) \in Row
    BY DEF Row, Moved
<1>3. CASE CreateDocument(d)
    <2>1. clock' \in Texts /\ UNCHANGED <<files, head, req, config, calm>>
        BY <1>3, TickTypes DEF CreateDocument, StateTypes
    <2>2. \E row \in Row : rows' = [rows EXCEPT ![d] = row]
        BY <1>3, <2>1, RowTypes DEF CreateDocument
    <2>3. edited' \subseteq Docs
        BY <1>3 DEF CreateDocument, StateTypes
    <2>4. rows' \in [Docs -> Row]
        BY <2>2 DEF StateTypes
    <2> QED  BY <2>1, <2>3, <2>4 DEF StateTypes, RequestsOK
<1>4. CASE UpdateDocument(d)
    BY <1>1, <1>4, TickTypes DEF UpdateDocument, StateTypes, RequestsOK
<1>5. CASE DeleteDocument(d)
    BY <1>5, RowTypes DEF DeleteDocument, StateTypes, RequestsOK
<1>6. CASE MoveToFolder(d)
    BY <1>2, <1>6 DEF MoveToFolder, StateTypes, RequestsOK
<1> QED  BY <1>3, <1>4, <1>5, <1>6

LEMMA BeginRequestTypes ==
    ASSUME StateTypes, RequestsOK, NEW r \in Requests,
           RefreshBegin(r) \/ ImportBegin(r) \/ PullBegin(r) \/ PushBegin(r)
    PROVE  StateTypes' /\ RequestsOK'
<1>1. CASE RefreshBegin(r) \/ PullBegin(r)
    <2>1. PICK op \in {"pull", "refresh"}, d \in Live : Begin(r, [op |-> op, doc |-> d, old |-> rows[d]])
        BY <1>1 DEF RefreshBegin, PullBegin
    <2>2. [op |-> op, doc |-> d, old |-> rows[d]] \in RowRequests
        BY DEF RowRequests, Live, StateTypes
    <2> QED  BY <1>1, <2>1, <2>2, BeginTypes DEF RefreshBegin, PullBegin, StateTypes
<1>2. CASE ImportBegin(r)
    <2> DEFINE q == [op |-> "import", tree |-> files["main"], out |-> {}, new |-> {},
                     todo |-> {p \in Paths : files["main"][p] # Empty}]
    <2>1. q \in ImportRequests
        BY DEF ImportRequests, StateTypes, Branches
    <2>2. Begin(r, q) /\ UNCHANGED <<rows, files, head, clock, config, edited>>
        BY <1>2 DEF ImportBegin
    <2> HIDE DEF q
    <2> QED  BY <2>1, <2>2, BeginTypes DEF StateTypes
<1>3. CASE PushBegin(r)
    <2>1. PICK D \in Selected :
             Begin(r, [op |-> "push", phase |-> IF target = "main" THEN "base" ELSE "branch",
                       copy |-> Copies(D), head |-> 0, tree |-> files[target], out |-> {}])
        BY <1>3 DEF PushBegin
    <2> DEFINE q == [op |-> "push", phase |-> IF target = "main" THEN "base" ELSE "branch",
                     copy |-> Copies(D), head |-> 0, tree |-> files[target], out |-> {}]
    <2>2. Copies(D) \in CopySets
        <3> DEFINE E == {x \in D : rows[x].text # Empty}
        <3>1. E \in SUBSET Docs
            BY DEF Selected, Live
        <3>2. Copies(D) \in [E -> Row]
            BY <3>1 DEF Copies, StateTypes
        <3> HIDE DEF E
        <3> QED  BY <3>1, <3>2 DEF CopySets
    <2>3. target \in Branches
        BY DEF StateTypes, target
    <2>4. q \in PushRequests
        BY <2>2, <2>3, RowTypes DEF PushRequests, StateTypes, Phases
    <2> HIDE DEF q
    <2>5. Begin(r, q)
        BY <2>1 DEF q
    <2> QED  BY <1>3, <2>4, <2>5, BeginTypes DEF PushBegin, StateTypes
<1> QED  BY <1>1, <1>2, <1>3

LEMMA ItemTypes ==
    ASSUME StateTypes, RequestsOK, NEW r \in Requests, ImportItem(r)
    PROVE  StateTypes' /\ RequestsOK'
<1>1. req[r] \in ImportRequests
    BY RequestKinds DEF ImportItem
<1>2. PICK p \in req[r].todo :
        LET text == files["main"][p]
            rest == [req[r] EXCEPT !.todo = @ \ {p}]
            found == {[doc |-> d, old |-> rows[d], new |-> FromGitHub(rows[d], text)] : d \in AtPath(p)}
        IN  \/ req' = [req EXCEPT ![r] = rest]
            \/ req' = [req EXCEPT ![r] =
                         IF AtPath(p) = {}
                         THEN [rest EXCEPT !.new = @ \union {Imported(p, rest.tree[p], text)}]
                         ELSE [rest EXCEPT !.out = @ \union found]]
    BY DEF ImportItem
<1> DEFINE text == files["main"][p]
           rest == [req[r] EXCEPT !.todo = @ \ {p}]
           found == {[doc |-> d, old |-> rows[d], new |-> FromGitHub(rows[d], text)] : d \in AtPath(p)}
<1>3. rest \in ImportRequests /\ p \in Paths /\ rest.tree[p] \in Texts
    BY <1>1 DEF ImportRequests, Trees
<1>4. text \in Texts
    BY <1>3 DEF StateTypes, Branches, Trees
<1>5. found \subseteq Change
    <2> HIDE DEF text
    <2>1. \A d \in AtPath(p) : d \in Docs /\ rows[d] \in Row /\ FromGitHub(rows[d], text) \in Row
        BY <1>4, RowTypes DEF AtPath, Live, StateTypes
    <2> QED  BY <2>1 DEF Change
<1>6. Imported(p, rest.tree[p], text) \in Row
    BY <1>3, <1>4, RowTypes
<1>7. \/ req' = [req EXCEPT ![r] = rest]
      \/ req' = [req EXCEPT ![r] = [rest EXCEPT !.new = @ \union {Imported(p, rest.tree[p], text)}]]
      \/ req' = [req EXCEPT ![r] = [rest EXCEPT !.out = @ \union found]]
    BY <1>2
<1> HIDE DEF text, rest, found
<1>8. /\ [rest EXCEPT !.new = @ \union {Imported(p, rest.tree[p], text)}] \in ImportRequests
      /\ [rest EXCEPT !.out = @ \union found] \in ImportRequests
    BY <1>3, <1>5, <1>6 DEF ImportRequests
<1>9. RequestsOK'
    BY <1>3, <1>7, <1>8 DEF RequestsOK
<1> QED  BY <1>9 DEF ImportItem, StateTypes

LEMMA PushTypes ==
    ASSUME StateTypes, RequestsOK, Forms, NEW r \in Requests,
           CreateBranch(r) \/ ReadBase(r) \/ GetFileSha(r)
    PROVE  StateTypes' /\ RequestsOK'
<1>1. req[r] \in PushRequests
    BY RequestKinds DEF CreateBranch, ReadBase, GetFileSha
<1>2. target \in Branches /\ files[target] \in Trees /\ head[target] \in Texts
    BY DEF StateTypes, target
<1>3. CASE CreateBranch(r)
    <2>3. files' \in [Branches -> Trees] /\ head' \in [Branches -> Texts]
        BY <1>3 DEF CreateBranch, StateTypes, Branches
    <2>1. [req[r] EXCEPT !.phase = "base"] \in PushRequests
        BY <1>1 DEF PushRequests, Phases
    <2>2. RequestsOK'
        BY <1>3, <2>1 DEF CreateBranch, RequestsOK
    <2> QED  BY <1>3, <2>2, <2>3 DEF CreateBranch, StateTypes
<1>4. CASE ReadBase(r)
    <2>1. [req[r] EXCEPT !.phase = "commit", !.head = head[target], !.tree = files[target]]
             \in PushRequests
        BY <1>1, <1>2 DEF PushRequests, Phases
    <2>2. RequestsOK'
        BY <1>4, <2>1 DEF ReadBase, RequestsOK
    <2> QED  BY <1>4, <2>2 DEF ReadBase, StateTypes
<1>5. CASE GetFileSha(r)
    <2>1. PICK d \in DOMAIN req[r].copy :
             \E new \in {Recorded(req[r].copy[d], files[target][PathOf(req[r].copy[d])]),
                         Unread(req[r].copy[d])} :
               req' = [req EXCEPT ![r].out =
                         @ \union {[doc |-> d, old |-> req[r].copy[d], new |-> new]}]
        BY <1>5 DEF GetFileSha
    <2>7. PICK new \in {Recorded(req[r].copy[d], files[target][PathOf(req[r].copy[d])]),
                      Unread(req[r].copy[d])} :
             req' = [req EXCEPT ![r].out = @ \union {[doc |-> d, old |-> req[r].copy[d], new |-> new]}]
        BY <2>1
    <2>2. req[r].copy[d] \in Row /\ d \in Docs
        BY <1>1, PushParts
    <2>3. new \in Row
        <3>1. PathOf(req[r].copy[d]) \in Paths
            BY <1>1, <2>2, PushParts DEF Forms, FormOK, PathOf, Row
        <3>2. files[target][PathOf(req[r].copy[d])] \in Texts
            BY <1>2, <3>1 DEF Trees
        <3> QED  BY <2>7, <2>2, <3>2, RowTypes
    <2>4. [doc |-> d, old |-> req[r].copy[d], new |-> new] \in Change
        BY <2>2, <2>3 DEF Change
    <2>5. [req[r] EXCEPT !.out = @ \union {[doc |-> d, old |-> req[r].copy[d], new |-> new]}] \in PushRequests
        BY <1>1, <2>4 DEF PushRequests
    <2>6. RequestsOK'
        BY <2>7, <2>5 DEF RequestsOK
    <2> QED  BY <1>5, <2>6 DEF GetFileSha, StateTypes
<1> QED  BY <1>3, <1>4, <1>5

LEMMA CommitTypes ==
    ASSUME StateTypes, RequestsOK, NEW r \in Requests, CreateCommit(r)
    PROVE  StateTypes' /\ RequestsOK'
<1> DEFINE q == req[r]
<1>1. q \in PushRequests
    BY RequestKinds DEF CreateCommit
<1>2. q.tree \in Trees /\ \A d \in DOMAIN q.copy : q.copy[d].text \in Texts
    BY <1>1, PushParts DEF Row
<1>3. PICK f \in Pushed(q.copy) : files' = [files EXCEPT ![target] = Overlay(q.tree, f)]
    BY DEF CreateCommit
<1>4. Tick /\ head' = [head EXCEPT ![target] = clock'] /\ calm' \in BOOLEAN
      /\ req' = [req EXCEPT ![r].phase = "record"] /\ UNCHANGED <<rows, config, edited>>
    BY DEF CreateCommit, StateTypes
<1>5. [q EXCEPT !.phase = "record"] \in PushRequests
    BY <1>1 DEF PushRequests, Phases
<1> HIDE DEF q
<1>6. \A p \in DOMAIN f : f[p] \in Texts
    BY <1>2, <1>3 DEF Pushed
<1>7. Overlay(q.tree, f) \in Trees
    BY <1>2, <1>6 DEF Overlay, Trees
<1>8. RequestsOK'
    BY <1>4, <1>5 DEF RequestsOK, q
<1> QED  BY <1>3, <1>4, <1>7, <1>8, TickTypes DEF StateTypes

LEMMA FinishTypes ==
    ASSUME StateTypes, RequestsOK, Forms, NEW r \in Requests,
           RefreshDocument(r) \/ ImportCommit(r) \/ PullRemoteChanges(r) \/ PushCommit(r) \/ Abandon(r)
    PROVE  StateTypes' /\ RequestsOK'
<1>1. RequestsOK'
    BY DoneTypes DEF RefreshDocument, ImportCommit, PullRemoteChanges, PushCommit, Abandon
<1>2. CASE RefreshDocument(r)
    <2>1. \A row \in Row, text \in Texts : [row EXCEPT !.text = text] \in Row
        BY DEF Row
    <2>2. req[r].doc \in Docs
        BY <1>2, RequestKinds DEF RefreshDocument, RowRequests
    <2> QED  BY <1>1, <1>2, <2>1, <2>2, TickTypes DEF RefreshDocument, StateTypes
<1>3. CASE ImportCommit(r)
    <2>1. req[r] \in ImportRequests
        BY <1>3, RequestKinds DEF ImportCommit
    <2>2. req[r].out \in SUBSET Change /\ req[r].new \in SUBSET Row
        BY <2>1 DEF ImportRequests
    <2>3. ASSUME NEW f, NEW d \in Docs
          PROVE  (IF \E x \in req[r].new : f[x] = d
                  THEN CHOOSE x \in req[r].new : f[x] = d
                  ELSE AfterFlush(req[r].out)[d]) \in Row
        BY <2>2, FlushTypes DEF StateTypes
    <2>4. rows' \in [Docs -> Row]
        BY <1>3, <2>3 DEF ImportCommit, StateTypes
    <2>5. edited' \subseteq Docs
        BY <1>3, <2>2, FlushTypes DEF ImportCommit, StateTypes
    <2> QED  BY <1>1, <1>3, <2>4, <2>5 DEF ImportCommit, StateTypes
<1>4. CASE PullRemoteChanges(r)
    <2> DEFINE q == req[r]
               text == files[target][q.old.path]
               C == {[doc |-> q.doc, old |-> q.old, new |-> FromGitHub(q.old, text)]}
    <2>1. q \in RowRequests /\ text \in Texts
        <3>1. q.op = "pull" /\ q \in RowRequests
            BY <1>4, RequestKinds DEF PullRemoteChanges
        <3>2. q.old.path \in Paths
            BY <3>1 DEF Forms, FormOK
        <3> QED  BY <3>1, <3>2 DEF StateTypes, Trees, target
    <2>2. C \in SUBSET Change
        BY <2>1, RowTypes DEF RowRequests, Change
    <2>3. /\ rows' = AfterFlush(C) /\ edited' = StillEdited(C)
          /\ UNCHANGED <<files, head, clock, config, calm>>
        BY <1>4 DEF PullRemoteChanges
    <2> HIDE DEF C
    <2> QED  BY <1>1, <2>2, <2>3, FlushTypes DEF StateTypes
<1>5. CASE PushCommit(r)
    <2>1. req[r].out \in SUBSET Change
        BY <1>5, RequestKinds, PushParts DEF PushCommit
    <2> QED  BY <1>1, <1>5, <2>1, FlushTypes DEF PushCommit, StateTypes
<1>6. CASE Abandon(r)
    BY <1>1, <1>6 DEF Abandon, StateTypes
<1> QED  BY <1>2, <1>3, <1>4, <1>5, <1>6

LEMMA OthersTypes ==
    ASSUME StateTypes, RequestsOK, ForeignCommit \/ MergePullRequest
    PROVE  StateTypes' /\ RequestsOK'
<1>1. clock' \in Texts /\ calm' \in BOOLEAN /\ UNCHANGED <<rows, req, config, edited>>
    BY TickTypes DEF ForeignCommit, MergePullRequest, StateTypes
<1>2. CASE ForeignCommit
    <2>1. PICK b \in Branches, p \in Paths, text \in {clock', Empty} :
             files' = [files EXCEPT ![b][p] = text] /\ head' = [head EXCEPT ![b] = clock']
        BY <1>2 DEF ForeignCommit
    <2> QED  BY <1>1, <2>1, RowTypes DEF StateTypes, Trees, RequestsOK
<1>3. CASE MergePullRequest
    BY <1>1, <1>3 DEF MergePullRequest, StateTypes, Branches, RequestsOK
<1> QED  BY <1>2, <1>3

-----------------------------------------------------------------------------
(* What requests become.                                                   *)

Finishing(r) ==
    RefreshDocument(r) \/ ImportCommit(r) \/ PullRemoteChanges(r) \/ PushCommit(r) \/ Abandon(r)
Beginning(r) == RefreshBegin(r) \/ ImportBegin(r) \/ PullBegin(r) \/ PushBegin(r)
Working(r) ==
    ImportItem(r) \/ CreateBranch(r) \/ ReadBase(r) \/ CreateCommit(r) \/ GetFileSha(r)
Editing(d) == CreateDocument(d) \/ UpdateDocument(d) \/ DeleteDocument(d) \/ MoveToFolder(d)

LEMMA Steps ==
    ASSUME [Next]_vars
    PROVE  \/ \E d \in Docs : Editing(d)
           \/ \E r \in Requests : Beginning(r) \/ Working(r) \/ Finishing(r)
           \/ ForeignCommit \/ MergePullRequest
           \/ UNCHANGED vars
BY DEF Next, RequestStep, Editing, Beginning, Working, Finishing

\* Only the request itself moves on; one that finishes gives its place back.
LEMMA OthersWait ==
    ASSUME RequestsOK, NEW r \in Requests, Beginning(r) \/ Working(r) \/ Finishing(r)
    PROVE  /\ \A s \in Requests : s # r => req'[s] = req[s]
           /\ Finishing(r) => req'[r] = Idle
<1>1. CASE Beginning(r)
    <2>1. \E q : req' = [req EXCEPT ![r] = q]
        BY <1>1 DEF Beginning, Begin, RefreshBegin, ImportBegin, PullBegin, PushBegin
    <2>2. req[r] = Idle
        BY <1>1 DEF Beginning, Begin, RefreshBegin, ImportBegin, PullBegin, PushBegin
    <2>3. ~Finishing(r)
        BY <2>2 DEF Finishing, RefreshDocument, ImportCommit, PullRemoteChanges, PushCommit,
                    Abandon, Idle
    <2> QED  BY <2>1, <2>3 DEF RequestsOK
<1>2. CASE Working(r) /\ ~Finishing(r)
    <2>1. \E q : req' = [req EXCEPT ![r] = q]
        BY <1>2 DEF Working, ImportItem, CreateBranch, ReadBase, CreateCommit, GetFileSha
    <2> QED  BY <1>2, <2>1 DEF RequestsOK
<1>3. CASE Finishing(r)
    <2>1. req' = Done(r)
        BY <1>3 DEF Finishing, RefreshDocument, ImportCommit, PullRemoteChanges, PushCommit, Abandon
    <2> QED  BY <2>1 DEF RequestsOK, Done
<1> QED  BY <1>1, <1>2, <1>3

-----------------------------------------------------------------------------
(* What requests carry, and that documents have names.                     *)

LEMMA FlushedParts ==
    ASSUME NEW row \in Row, NEW c \in Change
    PROVE  /\ Flushed(row, c).live = row.live /\ Flushed(row, c).name = row.name
           /\ Flushed(row, c).linked = row.linked
           /\ Flushed(row, c).text = Written(row.text, c.old.text, c.new.text)
           /\ Flushed(row, c).path = Written(row.path, c.old.path, c.new.path)
           /\ Flushed(row, c).sha = Written(row.sha, c.old.sha, c.new.sha)
           /\ Flushed(row, c).status = Written(row.status, c.old.status, c.new.status)
BY DEF Row, Flushed

LEMMA AfterFlushIs ==
    ASSUME StateTypes, NEW C \in SUBSET Change, NEW d \in Docs
    PROVE  \/ AfterFlush(C)[d] = rows[d] /\ d \notin {c.doc : c \in C}
           \/ \E c \in C : c.doc = d /\ AfterFlush(C)[d] = Flushed(rows[d], c)
<1>1. AfterFlush(C)[d] = IF \E c \in C : c.doc = d
                         THEN Flushed(rows[d], CHOOSE c \in C : c.doc = d)
                         ELSE rows[d]
    BY DEF AfterFlush
<1>2. (\E c \in C : c.doc = d) =>
         (CHOOSE c \in C : c.doc = d) \in C /\ (CHOOSE c \in C : c.doc = d).doc = d
    OBVIOUS
<1> QED  BY <1>1, <1>2

LEMMA FlushKeeps ==
    ASSUME StateTypes, NEW C \in SUBSET Change, NEW d \in Docs
    PROVE  /\ AfterFlush(C)[d].live = rows[d].live /\ AfterFlush(C)[d].name = rows[d].name
           /\ AfterFlush(C)[d].linked = rows[d].linked
<1>1. rows[d] \in Row
    BY DEF StateTypes
<1> QED  BY <1>1, AfterFlushIs, FlushedParts

\* What an import commits: the rows it found new, and the changes to others.
LEMMA ImportedRows ==
    ASSUME StateTypes, RequestsOK, NEW r \in Requests, ImportCommit(r), NEW d \in Docs
    PROVE  \/ /\ CanFlush(req[r].out) /\ rows'[d] = AfterFlush(req[r].out)[d]
              /\ d \in edited' <=> d \in StillEdited(req[r].out)
           \/ rows'[d] \in req[r].new /\ d \in Free
           \/ UNCHANGED <<rows, edited>>
<1> DEFINE C == req[r].out
           new == req[r].new
<1>1. CASE UNCHANGED <<rows, edited>>
    BY <1>1
<1>2. CASE ~UNCHANGED <<rows, edited>>
    <2>1. PICK f \in Identities(new) :
             /\ CanFlush(C)
             /\ rows' = [x \in Docs |-> IF \E y \in new : f[y] = x
                                        THEN CHOOSE y \in new : f[y] = x
                                        ELSE AfterFlush(C)[x]]
             /\ edited' = StillEdited(C) \ {f[y] : y \in new}
        BY <1>2 DEF ImportCommit
    <2> HIDE DEF C, new
    <2>2. rows'[d] = IF \E y \in new : f[y] = d THEN CHOOSE y \in new : f[y] = d ELSE AfterFlush(C)[d]
        BY <2>1
    <2>3. CASE \E y \in new : f[y] = d
        <3>1. rows'[d] \in new
            BY <2>2, <2>3
        <3>2. d \in Free
            BY <2>3 DEF Identities
        <3> QED  BY <3>1, <3>2 DEF new
    <2>4. CASE ~\E y \in new : f[y] = d
        BY <2>1, <2>2, <2>4 DEF C
    <2> QED  BY <2>3, <2>4
<1> QED  BY <1>1, <1>2

LEMMA NamesStay ==
    ASSUME StateTypes, RequestsOK, Forms, [Next]_vars
    PROVE  Named'
<1>1. ASSUME NEW d \in Docs, Editing(d)
      PROVE  Named'
    <2>1. \A x \in Docs : x # d => rows'[x] = rows[x]
        BY <1>1 DEF Editing, CreateDocument, UpdateDocument, DeleteDocument, MoveToFolder, StateTypes
    <2>2. rows'[d].live => rows'[d].name \in Paths
        <3>1. rows[d] \in Row
            BY DEF StateTypes
        <3>2. CASE CreateDocument(d)
            BY <3>2 DEF CreateDocument, StateTypes, NewRow
        <3>3. CASE UpdateDocument(d)
            <4>1. rows'[d] = [rows[d] EXCEPT !.text = clock']
                BY <3>3 DEF UpdateDocument, StateTypes
            <4> QED  BY <3>1, <4>1 DEF Forms, Named, Row
        <3>4. CASE DeleteDocument(d)
            BY <3>4 DEF DeleteDocument, StateTypes, NoRow
        <3>5. CASE MoveToFolder(d)
            <4>1. PICK name \in Paths : rows'[d] = Moved(rows[d], name)
                BY <3>5 DEF MoveToFolder, StateTypes
            <4> QED  BY <3>1, <4>1 DEF Moved, Row
        <3> QED  BY <1>1, <3>2, <3>3, <3>4, <3>5 DEF Editing
    <2> QED  BY <2>1, <2>2 DEF Forms, Named
<1>2. ASSUME UNCHANGED rows PROVE Named'
    BY <1>2 DEF Forms, Named
<1>3. ASSUME NEW r \in Requests, Finishing(r)
      PROVE  Named'
    <2>1. CASE Abandon(r)
        BY <1>2, <2>1 DEF Abandon
    <2>2. CASE RefreshDocument(r)
        <3>1. \A x \in Docs : rows'[x].live = rows[x].live /\ rows'[x].name = rows[x].name
            BY <2>2 DEF RefreshDocument, StateTypes, Row
        <3> QED  BY <3>1 DEF Forms, Named
    <2>3. ASSUME NEW C \in SUBSET Change, rows' = AfterFlush(C)
          PROVE  Named'
        BY <2>3, FlushKeeps DEF Forms, Named
    <2>4. CASE PullRemoteChanges(r)
        <3>1. req[r] \in RowRequests /\ req[r].op = "pull"
            BY <2>4, RequestKinds DEF PullRemoteChanges
        <3>2. files[target][req[r].old.path] \in Texts
            BY <3>1 DEF Forms, FormOK, StateTypes, Trees, target
        <3> DEFINE C == {[doc |-> req[r].doc, old |-> req[r].old,
                          new |-> FromGitHub(req[r].old, files[target][req[r].old.path])]}
        <3>3. C \in SUBSET Change /\ rows' = AfterFlush(C)
            BY <2>4, <3>1, <3>2, RowTypes DEF RowRequests, Change, PullRemoteChanges
        <3> HIDE DEF C
        <3> QED  BY <2>3, <3>3
    <2>5. CASE PushCommit(r)
        BY <2>3, <2>5, RequestKinds, PushParts DEF PushCommit
    <2>6. CASE ImportCommit(r)
        <3>1. req[r] \in ImportRequests /\ req[r].op = "import"
            BY <2>6, RequestKinds DEF ImportCommit
        <3>2. req[r].out \in SUBSET Change
            BY <3>1 DEF ImportRequests
        <3>3. \A x \in req[r].new : x.name \in Paths
            BY <3>1 DEF Forms, FormOK, Imported
        <3>4. ASSUME NEW d \in Docs, rows'[d].live PROVE rows'[d].name \in Paths
            BY <2>6, <3>2, <3>3, <3>4, ImportedRows, FlushKeeps DEF Forms, Named
        <3> QED  BY <3>4 DEF Named
    <2> QED  BY <1>3, <2>1, <2>2, <2>4, <2>5, <2>6 DEF Finishing
<1>4. ASSUME NEW r \in Requests, Beginning(r) \/ Working(r)
      PROVE  UNCHANGED rows
    BY <1>4 DEF Beginning, Working, RefreshBegin, ImportBegin, PullBegin, PushBegin,
       ImportItem, CreateBranch, ReadBase, CreateCommit, GetFileSha
<1>5. ForeignCommit \/ MergePullRequest \/ UNCHANGED vars => UNCHANGED rows
    BY DEF ForeignCommit, MergePullRequest, vars
<1> QED  BY <1>1, <1>2, <1>3, <1>4, <1>5, Steps

LEMMA PushMoves ==
    ASSUME RequestsOK, NEW r \in Requests, req[r].op = "push"
    PROVE  /\ \A out : req' = [req EXCEPT ![r].out = out] =>
                /\ req'[r].op = "push" /\ req'[r].phase = req[r].phase
                /\ req'[r].copy = req[r].copy /\ req'[r].out = out
           /\ \A phase : req' = [req EXCEPT ![r].phase = phase] =>
                /\ req'[r].op = "push" /\ req'[r].phase = phase /\ req'[r].copy = req[r].copy
                /\ req'[r].out = req[r].out /\ req'[r].tree = req[r].tree
                /\ req'[r].head = req[r].head
<1>1. req[r] \in PushRequests
    BY RequestKinds
<1>2. ASSUME NEW x \in PushRequests, NEW out, NEW phase
      PROVE  /\ [x EXCEPT !.out = out].op = "push" /\ [x EXCEPT !.out = out].phase = x.phase
             /\ [x EXCEPT !.out = out].copy = x.copy /\ [x EXCEPT !.out = out].out = out
             /\ [x EXCEPT !.phase = phase].op = "push" /\ [x EXCEPT !.phase = phase].phase = phase
             /\ [x EXCEPT !.phase = phase].copy = x.copy /\ [x EXCEPT !.phase = phase].out = x.out
             /\ [x EXCEPT !.phase = phase].tree = x.tree /\ [x EXCEPT !.phase = phase].head = x.head
    BY DEF PushRequests
<1>3. ASSUME NEW out, req' = [req EXCEPT ![r].out = out]
      PROVE  /\ req'[r].op = "push" /\ req'[r].phase = req[r].phase
             /\ req'[r].copy = req[r].copy /\ req'[r].out = out
    <2>1. req'[r] = [req[r] EXCEPT !.out = out]
        BY <1>3 DEF RequestsOK
    <2> QED  BY <1>1, <1>2, <2>1
<1>4. ASSUME NEW phase, req' = [req EXCEPT ![r].phase = phase]
      PROVE  /\ req'[r].op = "push" /\ req'[r].phase = phase /\ req'[r].copy = req[r].copy
             /\ req'[r].out = req[r].out /\ req'[r].tree = req[r].tree
             /\ req'[r].head = req[r].head
    <2>1. req'[r] = [req[r] EXCEPT !.phase = phase]
        BY <1>4 DEF RequestsOK
    <2> QED  BY <1>1, <1>2, <2>1
<1> QED  BY <1>3, <1>4

\* What an import makes of a file: nothing, a new row, or changes to the rows there.
Found(p) ==
    {[doc |-> d, old |-> rows[d], new |-> FromGitHub(rows[d], files["main"][p])] : d \in AtPath(p)}

LEMMA ItemSteps ==
    ASSUME RequestsOK, NEW r \in Requests, ImportItem(r)
    PROVE  /\ req[r] \in ImportRequests
           /\ req'[r].op = "import" /\ req'[r].tree = req[r].tree
           /\ \E p \in req[r].todo :
                /\ req'[r].todo = req[r].todo \ {p}
                /\ \/ req'[r].out = req[r].out /\ req'[r].new = req[r].new
                   \/ /\ files["main"][p] # Empty /\ req'[r].out = req[r].out
                      /\ req'[r].new = req[r].new
                           \union {Imported(p, req[r].tree[p], files["main"][p])}
                   \/ /\ files["main"][p] # Empty /\ req'[r].new = req[r].new
                      /\ req'[r].out = req[r].out \union Found(p)
<1>1. req[r] \in ImportRequests /\ req[r].op = "import"
    BY RequestKinds DEF ImportItem
<1>2. PICK p \in req[r].todo :
        LET text == files["main"][p]
            rest == [req[r] EXCEPT !.todo = @ \ {p}]
        IN  \/ req' = [req EXCEPT ![r] = rest]
            \/ /\ text # Empty
               /\ req' = [req EXCEPT ![r] =
                            IF AtPath(p) = {}
                            THEN [rest EXCEPT !.new = @ \union {Imported(p, rest.tree[p], text)}]
                            ELSE [rest EXCEPT !.out = @ \union Found(p)]]
    BY DEF ImportItem, Found
<1> DEFINE rest == [req[r] EXCEPT !.todo = @ \ {p}]
<1>3. /\ rest \in ImportRequests /\ rest.op = "import" /\ rest.todo = req[r].todo \ {p}
      /\ rest.tree = req[r].tree /\ rest.out = req[r].out /\ rest.new = req[r].new
    BY <1>1 DEF ImportRequests
<1>4. \/ req'[r] = rest
      \/ /\ files["main"][p] # Empty
         /\ \/ req'[r] = [rest EXCEPT !.new = @ \union {Imported(p, rest.tree[p], files["main"][p])}]
            \/ req'[r] = [rest EXCEPT !.out = @ \union Found(p)]
    BY <1>2 DEF RequestsOK
<1> HIDE DEF rest
<1>5. CASE req'[r] = rest
    BY <1>1, <1>3, <1>5
<1>6. CASE /\ files["main"][p] # Empty
           /\ req'[r] = [rest EXCEPT !.new = @ \union {Imported(p, rest.tree[p], files["main"][p])}]
    <2>1. /\ req'[r].op = "import" /\ req'[r].todo = rest.todo /\ req'[r].tree = rest.tree
          /\ req'[r].out = rest.out
          /\ req'[r].new = rest.new \union {Imported(p, rest.tree[p], files["main"][p])}
        BY <1>3, <1>6 DEF ImportRequests
    <2> QED  BY <1>1, <1>3, <1>6, <2>1
<1>7. CASE files["main"][p] # Empty /\ req'[r] = [rest EXCEPT !.out = @ \union Found(p)]
    <2>1. /\ req'[r].op = "import" /\ req'[r].todo = rest.todo /\ req'[r].tree = rest.tree
          /\ req'[r].out = rest.out \union Found(p) /\ req'[r].new = rest.new
        BY <1>3, <1>7 DEF ImportRequests
    <2> QED  BY <1>1, <1>3, <1>7, <2>1
<1> QED  BY <1>4, <1>5, <1>6, <1>7

LEMMA FoundIs ==
    ASSUME StateTypes, NEW p \in Paths
    PROVE  /\ Found(p) \subseteq Change
           /\ \A c \in Found(p) :
                /\ rows[c.doc].live /\ c.old = rows[c.doc]
                /\ c.new = FromGitHub(c.old, c.new.text) /\ c.new.text = files["main"][p]
<1>1. files["main"][p] \in Texts
    BY DEF StateTypes, Branches, Trees
<1>2. ASSUME NEW d \in AtPath(p)
      PROVE  /\ d \in Docs /\ rows[d] \in Row /\ rows[d].live
             /\ FromGitHub(rows[d], files["main"][p]) \in Row
             /\ FromGitHub(rows[d], files["main"][p]).text = files["main"][p]
    <2>1. d \in Docs /\ rows[d] \in Row /\ rows[d].live
        BY DEF AtPath, Live, StateTypes
    <2> QED  BY <1>1, <2>1, RowTypes DEF FromGitHub, Row
<1> QED  BY <1>2 DEF Found, Change

\* The file a document of a push goes to.
LEMMA PushPaths ==
    ASSUME RequestsOK, Forms, NEW r \in Requests, req[r].op = "push", NEW d \in DOMAIN req[r].copy
    PROVE  req[r].copy[d] \in Row /\ d \in Docs /\ PathOf(req[r].copy[d]) \in Paths
<1>1. req[r].copy[d] \in Row /\ d \in Docs
    BY RequestKinds, PushParts
<1>2. req[r].copy[d].name \in Paths
    BY DEF Forms, FormOK
<1> QED  BY <1>1, <1>2 DEF Row, PathOf

LEMMA BeginForms ==
    ASSUME StateTypes, RequestsOK, Forms, NEW r \in Requests, Beginning(r)
    PROVE  FormOK(req'[r])
<1>1. ASSUME NEW q, Begin(r, q) PROVE req'[r] = q
    BY <1>1 DEF Begin, RequestsOK
<1>2. CASE RefreshBegin(r)
    BY <1>1, <1>2 DEF RefreshBegin, FormOK
<1>3. CASE ImportBegin(r)
    <2>1. req'[r] = [op |-> "import", tree |-> files["main"], out |-> {}, new |-> {},
                     todo |-> {p \in Paths : files["main"][p] # Empty}]
        BY <1>1, <1>3 DEF ImportBegin
    <2> QED  BY <2>1 DEF FormOK
<1>4. CASE PullBegin(r)
    <2>1. PICK d \in {x \in Live : rows[x].path # NoPath /\ rows[x].linked} :
             Begin(r, [op |-> "pull", doc |-> d, old |-> rows[d]])
        BY <1>4 DEF PullBegin
    <2>2. rows[d].path \in Paths
        BY <2>1 DEF Live, StateTypes, Row
    <2>3. req'[r] = [op |-> "pull", doc |-> d, old |-> rows[d]]
        BY <1>1, <2>1
    <2> QED  BY <2>2, <2>3 DEF FormOK
<1>5. CASE PushBegin(r)
    <2>1. PICK D \in Selected :
             Begin(r, [op |-> "push", phase |-> IF target = "main" THEN "base" ELSE "branch",
                       copy |-> Copies(D), head |-> 0, tree |-> files[target], out |-> {}])
        BY <1>5 DEF PushBegin
    <2>2. req'[r] = [op |-> "push", phase |-> IF target = "main" THEN "base" ELSE "branch",
                     copy |-> Copies(D), head |-> 0, tree |-> files[target], out |-> {}]
        BY <1>1, <2>1
    <2>3. \A d \in DOMAIN Copies(D) : Copies(D)[d] = rows[d] /\ rows[d].live /\ d \in Docs
        BY DEF Copies, Selected, Live
    <2>4. /\ req'[r].op = "push" /\ req'[r].copy = Copies(D) /\ req'[r].out = {}
        BY <2>2
    <2> QED  BY <2>3, <2>4 DEF FormOK, Forms, Named
<1> QED  BY <1>2, <1>3, <1>4, <1>5 DEF Beginning

LEMMA WorkForms ==
    ASSUME StateTypes, RequestsOK, Forms, NEW r \in Requests, Working(r)
    PROVE  FormOK(req'[r])
<1>0. FormOK(req[r])
    BY DEF Forms
<1>1. CASE ImportItem(r)
    <2>1. PICK p \in req[r].todo :
            /\ req'[r].todo = req[r].todo \ {p}
            /\ \/ req'[r].out = req[r].out /\ req'[r].new = req[r].new
               \/ /\ files["main"][p] # Empty /\ req'[r].out = req[r].out
                  /\ req'[r].new = req[r].new
                       \union {Imported(p, req[r].tree[p], files["main"][p])}
               \/ /\ files["main"][p] # Empty /\ req'[r].new = req[r].new
                  /\ req'[r].out = req[r].out \union Found(p)
        BY <1>1, ItemSteps
    <2>2. /\ req'[r].op = "import" /\ req'[r].tree = req[r].tree /\ req[r] \in ImportRequests
          /\ req[r].op = "import" /\ p \in Paths
        BY <1>1, ItemSteps DEF ImportItem, ImportRequests
    <2>3. \A text : Imported(p, req[r].tree[p], text).text = text
        BY DEF Imported
    <2> QED  BY <1>0, <2>1, <2>2, <2>3, FoundIs DEF FormOK
<1>2. CASE CreateBranch(r) \/ CreateCommit(r)
    <2>1. req[r].op = "push" /\ req[r].phase # "record"
        BY <1>2 DEF CreateBranch, CreateCommit
    <2>2. PICK phase : req' = [req EXCEPT ![r].phase = phase]
        BY <1>2 DEF CreateBranch, CreateCommit
    <2>3. req[r].out = {}
        BY <1>0, <2>1 DEF FormOK
    <2> QED  BY <1>0, <2>1, <2>2, <2>3, PushMoves DEF FormOK
<1>3. CASE ReadBase(r)
    <2>1. req[r] \in PushRequests /\ req[r].op = "push" /\ req[r].phase = "base"
        BY <1>3, RequestKinds DEF ReadBase
    <2>2. req'[r] = [req[r] EXCEPT !.phase = "commit", !.head = head[target], !.tree = files[target]]
        BY <1>3 DEF ReadBase, RequestsOK
    <2>3. /\ req'[r].op = "push" /\ req'[r].copy = req[r].copy /\ req'[r].out = req[r].out
        BY <2>1, <2>2 DEF PushRequests
    <2> QED  BY <1>0, <2>1, <2>3 DEF FormOK
<1>4. CASE GetFileSha(r)
    <2>1. req[r].op = "push" /\ req[r].phase = "record"
        BY <1>4 DEF GetFileSha
    <2>2. PICK d \in DOMAIN req[r].copy :
             \E new \in {Recorded(req[r].copy[d], files[target][PathOf(req[r].copy[d])]),
                         Unread(req[r].copy[d])} :
               req' = [req EXCEPT ![r].out =
                         @ \union {[doc |-> d, old |-> req[r].copy[d], new |-> new]}]
        BY <1>4 DEF GetFileSha
    <2>3. PICK new \in {Recorded(req[r].copy[d], files[target][PathOf(req[r].copy[d])]),
                        Unread(req[r].copy[d])} :
             req' = [req EXCEPT ![r].out = @ \union {[doc |-> d, old |-> req[r].copy[d], new |-> new]}]
        BY <2>2
    <2>4. req[r].copy[d] \in Row
        BY <2>1, PushPaths
    <2>5. new \in {Recorded(req[r].copy[d], new.sha), Unread(req[r].copy[d])}
        BY <2>3, <2>4 DEF Recorded, Row
    <2>6. /\ req'[r].op = "push" /\ req'[r].phase = "record" /\ req'[r].copy = req[r].copy
          /\ req'[r].out = req[r].out \union {[doc |-> d, old |-> req[r].copy[d], new |-> new]}
        <3>1. req[r] \in PushRequests
            BY <2>1, RequestKinds
        <3>2. req'[r] = [req[r] EXCEPT !.out =
                           @ \union {[doc |-> d, old |-> req[r].copy[d], new |-> new]}]
            BY <2>3 DEF RequestsOK
        <3> QED  BY <2>1, <3>1, <3>2 DEF PushRequests
    <2> QED  BY <1>0, <2>1, <2>2, <2>5, <2>6 DEF FormOK
<1> QED  BY <1>1, <1>2, <1>3, <1>4 DEF Working

LEMMA FormsStay ==
    ASSUME StateTypes, RequestsOK, Forms, [Next]_vars
    PROVE  Forms'
<1>1. ASSUME NEW r \in Requests, Beginning(r) \/ Working(r) \/ Finishing(r)
      PROVE  \A s \in Requests : FormOK(req'[s])
    <2>1. FormOK(req'[r])
        <3>1. CASE Finishing(r)
            BY <3>1, OthersWait DEF FormOK, Idle
        <3> QED  BY <1>1, <3>1, BeginForms, WorkForms
    <2> QED  BY <1>1, <2>1, OthersWait DEF Forms
<1>2. (\E d \in Docs : Editing(d)) \/ ForeignCommit \/ MergePullRequest \/ UNCHANGED vars => UNCHANGED req
    BY DEF Editing, CreateDocument, UpdateDocument, DeleteDocument, MoveToFolder, ForeignCommit,
           MergePullRequest, vars
<1>3. (\A s \in Requests : FormOK(req'[s])) => (\A s \in Requests : FormOK(req[s]))'
    BY DEF FormOK
<1>4. UNCHANGED req => \A s \in Requests : FormOK(req'[s])
    BY DEF Forms
<1> QED  BY <1>1, <1>2, <1>3, <1>4, NamesStay, Steps DEF Forms

LEMMA TypesStay ==
    ASSUME StateTypes, RequestsOK, Forms, [Next]_vars
    PROVE  StateTypes' /\ RequestsOK'
<1>1. CASE UNCHANGED vars
    BY <1>1 DEF vars, StateTypes, RequestsOK
<1> QED
    BY <1>1, Steps, EditTypes, BeginRequestTypes, ItemTypes, PushTypes, CommitTypes, FinishTypes,
       OthersTypes
    DEF Editing, Beginning, Working, Finishing

LEMMA InitTypes == Init => StateTypes /\ RequestsOK /\ Forms
<1> SUFFICES ASSUME Init PROVE StateTypes /\ RequestsOK /\ Forms
    OBVIOUS
<1>1. 1 \in Texts /\ 0 \in Texts
    BY SyncConstants DEF Texts
<1>2. StateTypes
    BY <1>1, RowTypes DEF Init, StateTypes, Trees, Branches
<1>3. RequestsOK
    BY DEF Init, RequestsOK
<1>4. Forms
    BY DEF Init, Forms, Named, FormOK, NoRow, Idle
<1> QED  BY <1>2, <1>3, <1>4

\* Types; and a request keeps the rows it loaded as it loaded them: what it will
\* write was made from them.
THEOREM TypeCorrect == Spec => [](TypeOK /\ Forms)
<1>1. (StateTypes /\ RequestsOK /\ Forms) /\ [Next]_vars => (StateTypes /\ RequestsOK /\ Forms)'
    BY TypesStay, FormsStay
<1>2. StateTypes /\ RequestsOK /\ Forms => TypeOK /\ Forms
    BY TypeParts
<1> QED  BY <1>1, <1>2, InitTypes, PTL DEF Spec

-----------------------------------------------------------------------------
(* Commits of the branches.                                                *)

LEMMA NumbersAre ==
    ASSUME StateTypes
    PROVE  /\ clock \in Nat /\ target \in Branches
           /\ \A b \in Branches : head[b] \in Nat
           /\ \A b \in Branches, p \in Paths : files[b][p] \in Nat
BY SyncConstants DEF StateTypes, Trees, Texts, target

LEMMA TickCounts == ASSUME StateTypes, Tick PROVE clock' = clock + 1 /\ clock \in Nat
BY TickTypes

\* Branches stay as they are, or the sync branch is made, or one gets a commit.
NewHead(b) ==
    /\ clock' = clock + 1 /\ head' = [head EXCEPT ![b] = clock']
    /\ \A x \in Branches : x # b => files'[x] = files[x]

LEMMA HeadSteps ==
    ASSUME StateTypes, [Next]_vars
    PROVE  /\ \/ UNCHANGED <<files, head>> /\ clock' \in {clock, clock + 1}
              \/ (\E r \in Requests : CreateBranch(r)) /\ UNCHANGED clock
              \/ \E b \in Branches : NewHead(b)
           /\ target' = target
<1>1. target' = target
    BY DEF Next, RequestStep, CreateDocument, UpdateDocument, DeleteDocument, MoveToFolder,
           RefreshBegin, RefreshDocument, ImportBegin, ImportItem, ImportCommit, PullBegin,
           PullRemoteChanges, PushBegin, CreateBranch, ReadBase, CreateCommit, GetFileSha,
           PushCommit, Abandon, ForeignCommit, MergePullRequest, vars, target
<1>2. CASE \E d \in Docs : Editing(d)
    BY <1>1, <1>2 DEF Editing, CreateDocument, UpdateDocument, DeleteDocument, MoveToFolder, Tick
<1>3. ASSUME NEW r \in Requests, Beginning(r) \/ Finishing(r)
      PROVE  UNCHANGED <<files, head>> /\ clock' \in {clock, clock + 1}
    BY <1>3 DEF Beginning, RefreshBegin, ImportBegin, PullBegin, PushBegin, Finishing,
                RefreshDocument, ImportCommit, PullRemoteChanges, PushCommit, Abandon, Tick
<1>4. ASSUME NEW r \in Requests, Working(r)
      PROVE  \/ UNCHANGED <<files, head>> /\ clock' \in {clock, clock + 1}
             \/ CreateBranch(r) /\ UNCHANGED clock
             \/ NewHead(target)
    <2>1. CASE CreateCommit(r)
        <3>1. \E t : files' = [files EXCEPT ![target] = t]
            BY <2>1 DEF CreateCommit
        <3>2. clock' = clock + 1 /\ head' = [head EXCEPT ![target] = clock']
            BY <2>1, TickCounts DEF CreateCommit
        <3> QED  BY <3>1, <3>2 DEF NewHead, StateTypes
    <2> QED
        BY <1>4, <2>1 DEF Working, ImportItem, CreateBranch, ReadBase, GetFileSha
<1>5. CASE ForeignCommit
    BY <1>1, <1>5, TickCounts DEF ForeignCommit, NewHead, StateTypes
<1>6. CASE MergePullRequest
    BY <1>1, <1>6, TickCounts DEF MergePullRequest, NewHead, StateTypes, Branches
<1>7. target \in Branches
    BY NumbersAre
<1> QED  BY <1>1, <1>2, <1>3, <1>4, <1>5, <1>6, <1>7, Steps DEF vars

LEMMA NumberedStays ==
    ASSUME StateTypes, Numbered, [Next]_vars
    PROVE  Numbered'
<1>1. CASE UNCHANGED <<files, head>> /\ clock' \in {clock, clock + 1}
    BY <1>1, NumbersAre DEF Numbered
<1>2. ASSUME NEW r \in Requests, CreateBranch(r), UNCHANGED clock PROVE Numbered'
    BY <1>2, NumbersAre DEF CreateBranch, Numbered, Branches, StateTypes
<1>3. ASSUME NEW b \in Branches, NewHead(b) PROVE Numbered'
    BY <1>3, NumbersAre DEF NewHead, Numbered, Branches, StateTypes
<1> QED  BY <1>1, <1>2, <1>3, HeadSteps

\* What a push has read of its branch stays true of it, or the branch has moved on.
LEMMA BaseStays ==
    ASSUME StateTypes, Numbered, [Next]_vars, NEW q, BasedOnHead(q)
    PROVE  BasedOnHead(q)'
<1> USE NumbersAre
<1> SUFFICES ASSUME q.op = "push", q.phase # "branch"
             PROVE  /\ head'[target] # 0
                    /\ q.phase = "commit" =>
                         /\ q.head \in 1 .. clock'
                         /\ head'[target] = q.head => files'[target] = q.tree
    BY HeadSteps DEF BasedOnHead
<1>1. /\ head[target] # 0
      /\ q.phase = "commit" =>
           q.head \in 1 .. clock /\ (head[target] = q.head => files[target] = q.tree)
    BY DEF BasedOnHead
<1>2. CASE UNCHANGED <<files, head>> /\ clock' \in {clock, clock + 1}
    BY <1>1, <1>2
<1>3. ASSUME NEW r \in Requests, CreateBranch(r), UNCHANGED clock
      PROVE  head'[target] = head[target] /\ files'[target] = files[target]
    BY <1>1, <1>3 DEF CreateBranch, StateTypes, Branches
<1>4. ASSUME NEW b \in Branches, NewHead(b), b = target
      PROVE  head'[target] = clock + 1 /\ clock' = clock + 1
    BY <1>4 DEF NewHead, StateTypes
<1>5. ASSUME NEW b \in Branches, NewHead(b), b # target
      PROVE  /\ head'[target] = head[target] /\ files'[target] = files[target]
             /\ clock' = clock + 1
    BY <1>5 DEF NewHead, StateTypes
<1> QED  BY <1>1, <1>2, <1>3, <1>4, <1>5, HeadSteps

LEMMA BasesStay ==
    ASSUME StateTypes, RequestsOK, Numbered, Bases, [Next]_vars
    PROVE  Bases'
<1>1. ASSUME NEW s \in Requests, req'[s] = req[s]
      PROVE  BasedOnHead(req[s])'
    <2>1. BasedOnHead(req[s])
        BY DEF Bases
    <2>2. \A q : BasedOnHead(q) => BasedOnHead(q)'
        BY BaseStays
    <2> QED  BY <1>1, <2>1, <2>2
<1>2. ASSUME NEW r \in Requests, Beginning(r) \/ Working(r) \/ Finishing(r)
      PROVE  BasedOnHead(req[r])'
    <2> USE NumbersAre
    <2>0. target' = target
        BY HeadSteps
    <2>1. CASE Finishing(r)
        BY <2>1, OthersWait DEF BasedOnHead, Idle
    <2>2. CASE req'[r].op # "push"
        BY <2>2 DEF BasedOnHead
    <2>3. CASE PushBegin(r)
        <3>1. PICK D \in Selected :
                 Begin(r, [op |-> "push", phase |-> IF target = "main" THEN "base" ELSE "branch",
                           copy |-> Copies(D), head |-> 0, tree |-> files[target], out |-> {}])
            BY <2>3 DEF PushBegin
        <3>2. req'[r].phase = IF target = "main" THEN "base" ELSE "branch"
            BY <3>1 DEF Begin, RequestsOK
        <3>3. UNCHANGED head
            BY <2>3 DEF PushBegin
        <3> QED  BY <2>0, <3>2, <3>3 DEF BasedOnHead, Numbered
    <2>4. CASE CreateBranch(r)
        <3>0. req[r].op = "push" /\ req' = [req EXCEPT ![r].phase = "base"]
            BY <2>4 DEF CreateBranch
        <3>1. req'[r].phase = "base"
            <4>1. req[r] \in PushRequests /\ req'[r] = [req[r] EXCEPT !.phase = "base"]
                BY <3>0, RequestKinds DEF RequestsOK
            <4> QED  BY <4>1 DEF PushRequests
        <3>2. head'["sync"] # 0 /\ head'["main"] # 0
            BY <2>4 DEF CreateBranch, Numbered, StateTypes, Branches
        <3> QED  BY <2>0, <3>1, <3>2 DEF BasedOnHead, Branches
    <2>5. CASE ReadBase(r)
        <3>1. req[r] \in PushRequests /\ req[r].op = "push" /\ req[r].phase = "base"
            BY <2>5, RequestKinds DEF ReadBase
        <3>2. req'[r] = [req[r] EXCEPT !.phase = "commit", !.head = head[target], !.tree = files[target]]
            BY <2>5 DEF ReadBase, RequestsOK
        <3>3. /\ req'[r].phase = "commit" /\ req'[r].head = head[target]
              /\ req'[r].tree = files[target]
            BY <3>1, <3>2 DEF PushRequests
        <3>4. head[target] \in 1 .. clock
            <4>1. head[target] # 0
                BY <3>1 DEF Bases, BasedOnHead
            <4> QED  BY <4>1 DEF Numbered, Branches
        <3>5. UNCHANGED <<head, files, clock>>
            BY <2>5 DEF ReadBase
        <3> QED  BY <2>0, <3>3, <3>4, <3>5 DEF BasedOnHead
    <2>6. CASE CreateCommit(r)
        <3>0. req[r].op = "push" /\ req' = [req EXCEPT ![r].phase = "record"]
            BY <2>6 DEF CreateCommit
        <3>1. req'[r].phase = "record"
            <4>1. req[r] \in PushRequests /\ req'[r] = [req[r] EXCEPT !.phase = "record"]
                BY <3>0, RequestKinds DEF RequestsOK
            <4> QED  BY <4>1 DEF PushRequests
        <3>2. head'[target] = clock + 1
            BY <2>6, TickCounts DEF CreateCommit, StateTypes
        <3> QED  BY <2>0, <3>1, <3>2 DEF BasedOnHead
    <2>7. CASE GetFileSha(r)
        <3>1. req[r].op = "push" /\ req[r].phase = "record" /\ UNCHANGED head
            BY <2>7 DEF GetFileSha
        <3>2. req'[r].phase = "record"
            BY <2>7, <3>1, PushMoves DEF GetFileSha
        <3>3. head[target] # 0
            BY <3>1 DEF Bases, BasedOnHead
        <3> QED  BY <2>0, <3>1, <3>2, <3>3 DEF BasedOnHead
    <2>8. CASE ImportItem(r)
        BY <2>2, <2>8, ItemSteps
    <2>9. CASE RefreshBegin(r) \/ ImportBegin(r) \/ PullBegin(r)
        <3>1. req'[r].op \in {"refresh", "import", "pull"}
            BY <2>9 DEF RefreshBegin, ImportBegin, PullBegin, Begin, RequestsOK
        <3> QED  BY <2>2, <3>1
    <2> QED
        BY <1>2, <2>1, <2>3, <2>4, <2>5, <2>6, <2>7, <2>8, <2>9 DEF Beginning, Working
<1>3. ASSUME NEW r \in Requests, Beginning(r) \/ Working(r) \/ Finishing(r)
      PROVE  Bases'
    BY <1>1, <1>2, <1>3, OthersWait DEF Bases
<1>4. (\E d \in Docs : Editing(d)) \/ ForeignCommit \/ MergePullRequest \/ UNCHANGED vars => UNCHANGED req
    BY DEF Editing, CreateDocument, UpdateDocument, DeleteDocument, MoveToFolder, ForeignCommit,
           MergePullRequest, vars
<1>5. UNCHANGED req => Bases'
    BY <1>1 DEF Bases
<1> QED  BY <1>3, <1>4, <1>5, Steps

\* The step of a push that makes its commit.
LEMMA CommitIs ==
    ASSUME StateTypes, RequestsOK, [Next]_vars, NEW r \in Requests,
           req[r].op = "push", req[r].phase = "commit", req'[r].op = "push", req'[r].phase = "record"
    PROVE  CreateCommit(r)
<1>1. ASSUME NEW s \in Requests, Beginning(s) \/ Working(s) \/ Finishing(s)
      PROVE  s = r
    BY <1>1, OthersWait
<1>2. CASE (\E d \in Docs : Editing(d)) \/ ForeignCommit \/ MergePullRequest \/ UNCHANGED vars
    BY <1>2 DEF Editing, CreateDocument, UpdateDocument, DeleteDocument, MoveToFolder, ForeignCommit,
           MergePullRequest, vars
<1>3. ~Finishing(r)
    BY OthersWait DEF Idle
<1>4. ~Beginning(r)
    BY DEF Beginning, RefreshBegin, ImportBegin, PullBegin, PushBegin, Begin, Idle
<1>5. ~(ImportItem(r) \/ CreateBranch(r) \/ ReadBase(r) \/ GetFileSha(r))
    BY DEF ImportItem, CreateBranch, ReadBase, GetFileSha
<1> QED  BY <1>1, <1>2, <1>3, <1>4, <1>5, Steps DEF Working

\* The tree a push has read is still that of the branch when its commit is accepted.
LEMMA CommitKeeps ==
    ASSUME StateTypes, RequestsOK, Bases, NEW r \in Requests, CreateCommit(r),
           NEW p \in Paths, \A d \in DOMAIN req[r].copy : PathOf(req[r].copy[d]) # p
    PROVE  files'[target][p] = files[target][p]
<1>1. PICK f \in Pushed(req[r].copy) : files' = [files EXCEPT ![target] = Overlay(req[r].tree, f)]
    BY DEF CreateCommit
<1>2. p \notin DOMAIN f
    BY DEF Pushed
<1>3. files[target] = req[r].tree
    BY DEF CreateCommit, FastForward, Bases, BasedOnHead
<1>4. target \in Branches
    BY NumbersAre
<1> QED  BY <1>1, <1>2, <1>3, <1>4 DEF Overlay, StateTypes

-----------------------------------------------------------------------------
(* One request at a time: what it has loaded is what it writes to.         *)

LEMMA CalmWasCalm == ASSUME StateTypes, [Next]_vars, calm' PROVE calm
BY DEF Next, RequestStep, CreateDocument, UpdateDocument, DeleteDocument, MoveToFolder,
       RefreshBegin, RefreshDocument, ImportBegin, ImportItem, ImportCommit, PullBegin,
       PullRemoteChanges, PushBegin, CreateBranch, ReadBase, CreateCommit, GetFileSha,
       PushCommit, Abandon, ForeignCommit, MergePullRequest, vars, Begin

LEMMA OthersAreIdle ==
    ASSUME StateTypes, RequestsOK, Undisturbed, [Next]_vars, Solo',
           NEW r \in Requests, Beginning(r) \/ Working(r) \/ Finishing(r)
    PROVE  /\ Solo /\ Alone
           /\ \A s \in Requests : s # r => req[s] = Idle /\ req'[s] = Idle
<1>1. Solo /\ Alone
    BY CalmWasCalm DEF Solo, Undisturbed, One
<1>2. CASE Beginning(r)
    <2>1. PICK q : Begin(r, q)
        BY <1>2 DEF Beginning, RefreshBegin, ImportBegin, PullBegin, PushBegin
    <2>2. calm' => Running = {}
        BY <2>1 DEF Begin, StateTypes
    <2>3. \A s \in Requests : s # r => req[s] = Idle
        BY <2>2 DEF Solo, One, Running
    <2> QED  BY <1>1, <2>3, OthersWait
<1>3. CASE Working(r) \/ Finishing(r)
    <2>0. req[r].op \in {"import", "push", "refresh", "pull"} \/ req[r] # Idle
        <3>1. Working(r) => req[r].op \in {"import", "push"}
            BY DEF Working, ImportItem, CreateBranch, ReadBase, CreateCommit, GetFileSha
        <3>2. RefreshDocument(r) => req[r].op = "refresh"
            BY DEF RefreshDocument
        <3>3. ImportCommit(r) => req[r].op = "import"
            BY DEF ImportCommit
        <3>4. PullRemoteChanges(r) => req[r].op = "pull"
            BY DEF PullRemoteChanges
        <3>5. PushCommit(r) => req[r].op = "push"
            BY DEF PushCommit
        <3>6. Abandon(r) => req[r] # Idle
            BY DEF Abandon
        <3> QED  BY <1>3, <3>1, <3>2, <3>3, <3>4, <3>5, <3>6 DEF Finishing
    <2>1. req[r] # Idle
        BY <2>0 DEF Idle
    <2>2. \A s \in Requests : s # r => req[s] = Idle
        BY <1>1, <2>1 DEF Alone
    <2> QED  BY <1>1, <2>2, OthersWait
<1> QED  BY <1>1, <1>2, <1>3

LEMMA EditsKeepLoaded ==
    ASSUME StateTypes, NEW d \in Docs, Editing(d), NEW old, NEW e \in Docs, Loaded(old, e),
           CreateDocument(d) => e # d
    PROVE  Loaded(old, e)'
<1>1. rows[e] \in Row
    BY DEF StateTypes
<1>2. CASE e # d
    BY <1>2 DEF Editing, CreateDocument, UpdateDocument, DeleteDocument, MoveToFolder, StateTypes, Loaded
<1>3. CASE e = d /\ UpdateDocument(d)
    <2>1. rows'[e] = [rows[e] EXCEPT !.text = clock']
        BY <1>3 DEF UpdateDocument, StateTypes
    <2> QED  BY <1>1, <2>1 DEF Loaded, Row
<1>4. CASE e = d /\ DeleteDocument(d)
    BY <1>4 DEF DeleteDocument, StateTypes, NoRow, Loaded
<1>5. CASE e = d /\ MoveToFolder(d)
    <2>1. PICK name \in Paths : rows'[e] = Moved(rows[e], name)
        BY <1>5 DEF MoveToFolder, StateTypes
    <2>2. /\ Moved(rows[e], name).live = rows[e].live /\ Moved(rows[e], name).sha = rows[e].sha
          /\ Moved(rows[e], name).path = rows[e].path
          /\ Moved(rows[e], name).status \in {rows[e].status, "local_changes"}
        BY <1>1 DEF Moved, Row
    <2> QED  BY <2>1, <2>2 DEF Loaded
<1> QED  BY <1>2, <1>3, <1>4, <1>5 DEF Editing

\* The documents a request may write: none of them is made anew meanwhile.
LEMMA HeldAre ==
    ASSUME RequestsOK, NEW s \in Requests
    PROVE  /\ req[s].op = "pull" => req[s].doc \in Held(req[s]) /\ req[s].doc \in Docs
           /\ req[s].op = "import" =>
                \A c \in req[s].out : c.doc \in Held(req[s]) /\ c.doc \in Docs
           /\ req[s].op = "push" =>
                \A d \in DOMAIN req[s].copy : d \in Held(req[s]) /\ d \in Docs
<1>1. CASE req[s].op = "pull"
    BY <1>1, RequestKinds DEF Held, RowRequests
<1>2. CASE req[s].op = "import"
    BY <1>2, RequestKinds DEF Held, ImportRequests, Change
<1>3. CASE req[s].op = "push"
    BY <1>3, RequestKinds, PushParts DEF Held
<1> QED  BY <1>1, <1>2, <1>3

LEMMA EditsKeepLoads ==
    ASSUME StateTypes, RequestsOK, NEW d \in Docs, Editing(d), NEW s \in Requests, LoadedBy(req[s])
    PROVE  LoadedBy(req[s])'
<1>1. req'[s] = req[s]
    BY DEF Editing, CreateDocument, UpdateDocument, DeleteDocument, MoveToFolder
<1>2. CreateDocument(d) => d \notin Held(req[s])
    BY DEF CreateDocument, Free
<1> QED  BY <1>1, <1>2, HeldAre, EditsKeepLoaded DEF LoadedBy

LEMMA BeginLoads ==
    ASSUME StateTypes, RequestsOK, NEW r \in Requests, Beginning(r)
    PROVE  LoadedBy(req[r])'
<1>1. ASSUME NEW q, Begin(r, q) PROVE req'[r] = q
    BY <1>1 DEF Begin, RequestsOK
<1>2. CASE RefreshBegin(r)
    BY <1>1, <1>2 DEF RefreshBegin, LoadedBy
<1>3. CASE ImportBegin(r)
    <2>1. req'[r] = [op |-> "import", tree |-> files["main"], out |-> {}, new |-> {},
                     todo |-> {p \in Paths : files["main"][p] # Empty}]
        BY <1>1, <1>3 DEF ImportBegin
    <2> QED  BY <2>1 DEF LoadedBy
<1>4. CASE PullBegin(r)
    <2>1. PICK d \in {x \in Live : rows[x].path # NoPath /\ rows[x].linked} :
             Begin(r, [op |-> "pull", doc |-> d, old |-> rows[d]])
        BY <1>4 DEF PullBegin
    <2>2. req'[r] = [op |-> "pull", doc |-> d, old |-> rows[d]] /\ UNCHANGED rows
        BY <1>1, <1>4, <2>1 DEF PullBegin
    <2> QED  BY <2>2 DEF LoadedBy, Loaded
<1>5. CASE PushBegin(r)
    <2>1. PICK D \in Selected :
             Begin(r, [op |-> "push", phase |-> IF target = "main" THEN "base" ELSE "branch",
                       copy |-> Copies(D), head |-> 0, tree |-> files[target], out |-> {}])
        BY <1>5 DEF PushBegin
    <2>2. req'[r] = [op |-> "push", phase |-> IF target = "main" THEN "base" ELSE "branch",
                     copy |-> Copies(D), head |-> 0, tree |-> files[target], out |-> {}]
        BY <1>1, <2>1
    <2>3. \A d \in DOMAIN Copies(D) : Copies(D)[d] = rows[d]
        BY DEF Copies
    <2>4. req'[r].op = "push" /\ req'[r].copy = Copies(D) /\ UNCHANGED rows
        BY <1>5, <2>2 DEF PushBegin
    <2> QED  BY <2>3, <2>4 DEF LoadedBy, Loaded
<1> QED  BY <1>2, <1>3, <1>4, <1>5 DEF Beginning

LEMMA WorkKeepsLoads ==
    ASSUME StateTypes, RequestsOK, NEW r \in Requests, LoadedBy(req[r]), Working(r)
    PROVE  LoadedBy(req[r])'
<1>1. UNCHANGED rows
    BY DEF Working, ImportItem, CreateBranch, ReadBase, CreateCommit, GetFileSha
<1>2. \A old, d : Loaded(old, d) => Loaded(old, d)'
    BY <1>1 DEF Loaded
<1>3. CASE ImportItem(r)
    <2>1. /\ req[r].op = "import" /\ req'[r].op = "import" /\ req[r] \in ImportRequests
          /\ \E p \in req[r].todo : req'[r].out = req[r].out
                                     \/ req'[r].out = req[r].out \union Found(p)
        BY <1>3, ItemSteps, RequestKinds DEF ImportItem
    <2>2. \A p \in req[r].todo : p \in Paths
        BY <2>1 DEF ImportRequests
    <2>3. \A p \in req[r].todo : \A c \in Found(p) : Loaded(c.old, c.doc)
        BY <2>2, FoundIs DEF Loaded
    <2> QED  BY <1>2, <2>1, <2>3 DEF LoadedBy
<1>4. CASE ~ImportItem(r)
    <2>1. req[r].op = "push" /\ req[r] \in PushRequests
        BY <1>4, RequestKinds DEF Working, CreateBranch, ReadBase, CreateCommit, GetFileSha
    <2>2. CASE ReadBase(r)
        <3>1. req'[r] = [req[r] EXCEPT !.phase = "commit", !.head = head[target], !.tree = files[target]]
            BY <2>2 DEF ReadBase, RequestsOK
        <3>2. req'[r].op = "push" /\ req'[r].copy = req[r].copy
            BY <2>1, <3>1 DEF PushRequests
        <3> QED  BY <1>2, <2>1, <3>2 DEF LoadedBy
    <2>3. CASE ~ReadBase(r)
        <3>1. (\E phase : req' = [req EXCEPT ![r].phase = phase])
                \/ (\E out : req' = [req EXCEPT ![r].out = out])
            BY <1>4, <2>3 DEF Working, CreateBranch, CreateCommit, GetFileSha
        <3>2. req'[r].op = "push" /\ req'[r].copy = req[r].copy
            BY <2>1, <3>1, PushMoves
        <3> QED  BY <1>2, <2>1, <3>2 DEF LoadedBy
    <2> QED  BY <2>2, <2>3
<1> QED  BY <1>3, <1>4

LEMMA UndisturbedStays ==
    ASSUME StateTypes, RequestsOK, Undisturbed, [Next]_vars
    PROVE  Undisturbed'
<1> SUFFICES ASSUME Solo' PROVE Alone' /\ \A s \in Requests : LoadedBy(req[s])'
    BY DEF Undisturbed
<1>1. Solo /\ Alone /\ \A s \in Requests : LoadedBy(req[s])
    BY CalmWasCalm DEF Solo, One, Undisturbed
<1>2. ASSUME NEW d \in Docs, Editing(d)
      PROVE  Alone' /\ \A s \in Requests : LoadedBy(req[s])'
    <2>1. UNCHANGED req
        BY <1>2 DEF Editing, CreateDocument, UpdateDocument, DeleteDocument, MoveToFolder
    <2>2. \A s \in Requests : LoadedBy(req[s])'
        BY <1>1, <1>2, EditsKeepLoads
    <2> QED  BY <1>1, <2>1, <2>2 DEF Alone
<1>3. ASSUME NEW r \in Requests, Beginning(r) \/ Working(r) \/ Finishing(r)
      PROVE  Alone' /\ \A s \in Requests : LoadedBy(req[s])'
    <2>1. \A s \in Requests : s # r => req'[s] = Idle
        BY <1>3, OthersAreIdle
    <2>2. Finishing(r) => req'[r] = Idle
        BY <1>3, OthersWait
    <2>3. ASSUME NEW s \in Requests, req'[s] = Idle PROVE LoadedBy(req[s])'
        BY <2>3 DEF LoadedBy, Idle
    <2>4. LoadedBy(req[r])'
        BY <1>1, <1>3, <2>2, <2>3, BeginLoads, WorkKeepsLoads
    <2> QED  BY <2>1, <2>3, <2>4 DEF Alone
<1>4. CASE ForeignCommit \/ MergePullRequest \/ UNCHANGED vars
    <2>1. UNCHANGED <<rows, req>>
        BY <1>4 DEF ForeignCommit, MergePullRequest, vars
    <2> QED  BY <1>1, <2>1 DEF Alone, LoadedBy, Loaded
<1> QED  BY <1>2, <1>3, <1>4, Steps

-----------------------------------------------------------------------------
(* A calm synchronisation is exact.                                        *)

\* What a flush makes of a row that was loaded as it is but for its text.
Received(row, c) ==
    /\ row.text = c.new.text /\ row.sha = c.new.sha /\ row.path = c.new.path
    /\ \/ row.status = c.new.status
       \/ c.new.status = c.old.status /\ row.status = "local_changes"

LEMMA FlushExact ==
    ASSUME StateTypes, NEW C \in SUBSET Change, CanFlush(C), \A c \in C : Loaded(c.old, c.doc),
           NEW d \in Docs, d \notin StillEdited(C)
    PROVE  \/ AfterFlush(C)[d] = rows[d] /\ d \notin edited
           \/ \E c \in C : c.doc = d /\ Received(AfterFlush(C)[d], c)
<1>1. CASE AfterFlush(C)[d] = rows[d] /\ d \notin {c.doc : c \in C}
    BY <1>1 DEF StillEdited
<1>2. CASE \E c \in C : c.doc = d /\ AfterFlush(C)[d] = Flushed(rows[d], c)
    <2>1. PICK c \in C : c.doc = d /\ AfterFlush(C)[d] = Flushed(rows[d], c)
        BY <1>2
    <2>2. AfterFlush(C)[d].text = c.new.text
        BY <2>1 DEF StillEdited
    <2>3. rows[d] \in Row /\ c \in Change /\ rows[d].live /\ Loaded(c.old, d)
        BY <2>1 DEF StateTypes, CanFlush
    <2>4. /\ AfterFlush(C)[d].path = Written(rows[d].path, c.old.path, c.new.path)
          /\ AfterFlush(C)[d].sha = Written(rows[d].sha, c.old.sha, c.new.sha)
          /\ AfterFlush(C)[d].status = Written(rows[d].status, c.old.status, c.new.status)
        BY <2>1, <2>3, FlushedParts
    <2>5. /\ rows[d].sha = c.old.sha /\ rows[d].path = c.old.path
          /\ rows[d].status \in {c.old.status, "local_changes"}
        BY <2>3 DEF Loaded
    <2>6. AfterFlush(C)[d].path = c.new.path /\ AfterFlush(C)[d].sha = c.new.sha
        BY <2>4, <2>5 DEF Written
    <2>7. \/ AfterFlush(C)[d].status = c.new.status
          \/ c.new.status = c.old.status /\ AfterFlush(C)[d].status = "local_changes"
        BY <2>4, <2>5 DEF Written
    <2>8. Received(AfterFlush(C)[d], c)
        BY <2>2, <2>6, <2>7 DEF Received
    <2> QED  BY <2>1, <2>8
<1> QED  BY <1>1, <1>2, AfterFlushIs

\* A pull as one change of one row.
PullOf(q) ==
    {[doc |-> q.doc, old |-> q.old, new |-> FromGitHub(q.old, files[target][q.old.path])]}

LEMMA PullIs ==
    ASSUME StateTypes, RequestsOK, Forms, NEW r \in Requests, PullRemoteChanges(r)
    PROVE  /\ PullOf(req[r]) \in SUBSET Change /\ CanFlush(PullOf(req[r]))
           /\ rows' = AfterFlush(PullOf(req[r])) /\ edited' = StillEdited(PullOf(req[r]))
           /\ \A c \in PullOf(req[r]) :
                /\ c.doc = req[r].doc /\ c.old = req[r].old
                /\ c.new.text = files[target][c.old.path] /\ c.new.sha = c.new.text
                /\ c.new.path = c.old.path
<1>1. req[r] \in RowRequests /\ req[r].op = "pull"
    BY RequestKinds DEF PullRemoteChanges
<1>2. files[target][req[r].old.path] \in Texts
    BY <1>1 DEF Forms, FormOK, StateTypes, Trees, target
<1>3. PullOf(req[r]) \in SUBSET Change
    BY <1>1, <1>2, RowTypes DEF RowRequests, Change, PullOf
<1>4. /\ CanFlush(PullOf(req[r]))
      /\ rows' = AfterFlush(PullOf(req[r])) /\ edited' = StillEdited(PullOf(req[r]))
    BY DEF PullRemoteChanges, PullOf
<1>5. LET new == FromGitHub(req[r].old, files[target][req[r].old.path])
      IN  /\ new.text = files[target][req[r].old.path] /\ new.sha = new.text
          /\ new.path = req[r].old.path
    BY <1>1 DEF FromGitHub, RowRequests, Row
<1>6. \A c \in PullOf(req[r]) :
        /\ c.doc = req[r].doc /\ c.old = req[r].old
        /\ c.new = FromGitHub(req[r].old, files[target][req[r].old.path])
    BY DEF PullOf
<1> QED  BY <1>3, <1>4, <1>5, <1>6

Exact(row) == row.status = "synced" => row.sha = row.text
RowsExact == \A d \in Docs : rows[d].live /\ d \notin edited => Exact(rows[d])

LEMMA ChangesAreExact ==
    ASSUME StateTypes, RowsExact, NEW C \in SUBSET Change, CanFlush(C),
           \A c \in C : Loaded(c.old, c.doc), \A c \in C : Exact(c.new),
           NEW d \in Docs, d \notin StillEdited(C), AfterFlush(C)[d].live
    PROVE  Exact(AfterFlush(C)[d])
<1>1. AfterFlush(C)[d].live = rows[d].live
    BY FlushKeeps
<1> QED  BY <1>1, FlushExact DEF Exact, RowsExact, Received

LEMMA FormsAreExact ==
    ASSUME RequestsOK, Forms, NEW r \in Requests, CalmFor(req[r])
    PROVE  /\ req[r].op = "import" => \A c \in req[r].out : Exact(c.new)
           /\ req[r].op = "push" => \A c \in req[r].out : Exact(c.new)
<1>0. \A row \in Row, text \in Texts : FromGitHub(row, text).sha = FromGitHub(row, text).text
    BY DEF Row, FromGitHub
<1>1. CASE req[r].op = "import"
    <2>1. req[r] \in ImportRequests
        BY <1>1, RequestKinds
    <2>2. \A c \in req[r].out : c.old \in Row /\ c.new \in Row /\ c.new = FromGitHub(c.old, c.new.text)
        BY <1>1, <2>1 DEF ImportRequests, Change, Forms, FormOK
    <2>3. \A c \in req[r].out : c.new.text \in Texts
        BY <2>2 DEF Row
    <2> QED  BY <1>0, <1>1, <2>2, <2>3 DEF Exact
<1>2. CASE req[r].op = "push"
    <2>1. req[r] \in PushRequests
        BY <1>2, RequestKinds
    <2>2. \A c \in req[r].out : c.old \in Row
        BY <2>1, PushParts DEF Change
    <2>3. \A row \in Row : Exact(Recorded(row, row.text)) /\ Exact(Unread(row))
        BY DEF Exact, Recorded, Unread, Row
    <2>4. \A c \in req[r].out : c.new \in {Recorded(c.old, c.old.text), Unread(c.old)}
        BY <1>2 DEF CalmFor, Forms, FormOK
    <2> QED  BY <1>2, <2>2, <2>3, <2>4
<1> QED  BY <1>1, <1>2

LEMMA EditsStayExact ==
    ASSUME StateTypes, RowsExact, NEW e \in Docs, Editing(e)
    PROVE  RowsExact'
<1> SUFFICES ASSUME NEW d \in Docs, rows'[d].live, d \notin edited' PROVE Exact(rows'[d])
    BY DEF RowsExact, Exact
<1>1. CASE d # e
    BY <1>1 DEF RowsExact, Editing, CreateDocument, UpdateDocument, DeleteDocument, MoveToFolder, StateTypes
<1>2. CASE d = e
    <2>1. ~CreateDocument(e) /\ ~UpdateDocument(e)
        BY <1>2 DEF CreateDocument, UpdateDocument
    <2>2. CASE DeleteDocument(e)
        BY <1>2, <2>2 DEF DeleteDocument, StateTypes, NoRow
    <2>3. CASE MoveToFolder(e)
        <3>1. PICK name \in Paths : rows'[d] = Moved(rows[d], name)
            BY <1>2, <2>3 DEF MoveToFolder, StateTypes
        <3>2. rows[d] \in Row
            BY DEF StateTypes
        <3> QED  BY <3>1, <3>2 DEF Moved, Exact, Row
    <2> QED  BY <2>1, <2>2, <2>3 DEF Editing
<1> QED  BY <1>1, <1>2

LEMMA FinishesStayExact ==
    ASSUME StateTypes, RequestsOK, Forms, RowsExact, NEW r \in Requests, Finishing(r),
           LoadedBy(req[r]), CalmFor(req[r])
    PROVE  RowsExact'
<1> SUFFICES ASSUME NEW d \in Docs, rows'[d].live, d \notin edited' PROVE Exact(rows'[d])
    BY DEF RowsExact, Exact
<1>1. CASE Abandon(r)
    BY <1>1 DEF Abandon, RowsExact
<1>2. CASE RefreshDocument(r)
    <2>1. d # req[r].doc /\ d \notin edited
        BY <1>2 DEF RefreshDocument
    <2>2. rows'[d] = rows[d]
        BY <1>2, <2>1 DEF RefreshDocument, StateTypes
    <2> QED  BY <2>1, <2>2 DEF RowsExact
<1>3. CASE PullRemoteChanges(r)
    <2>1. req[r].op = "pull"
        BY <1>3 DEF PullRemoteChanges
    <2>2. \A c \in PullOf(req[r]) : Loaded(c.old, c.doc) /\ Exact(c.new)
        BY <1>3, <2>1, PullIs DEF LoadedBy, Exact
    <2> QED  BY <1>3, <2>2, PullIs, ChangesAreExact
<1>4. CASE PushCommit(r)
    <2>1. req[r].op = "push" /\ CanFlush(req[r].out)
          /\ rows' = AfterFlush(req[r].out) /\ edited' = StillEdited(req[r].out)
        BY <1>4 DEF PushCommit
    <2>2. req[r].out \in SUBSET Change
        BY <2>1, RequestKinds, PushParts
    <2>3. \A c \in req[r].out : Loaded(c.old, c.doc)
        BY <2>1 DEF LoadedBy, Forms, FormOK
    <2> QED  BY <2>1, <2>2, <2>3, FormsAreExact, ChangesAreExact
<1>5. CASE ImportCommit(r)
    <2>1. req[r].op = "import" /\ req[r] \in ImportRequests
        BY <1>5, RequestKinds DEF ImportCommit
    <2>2. req[r].out \in SUBSET Change
        BY <2>1 DEF ImportRequests
    <2>3. \A c \in req[r].out : Loaded(c.old, c.doc) /\ Exact(c.new)
        BY <2>1, FormsAreExact DEF LoadedBy
    <2>4. \A x \in req[r].new : Exact(x)
        BY <2>1 DEF CalmFor, Exact
    <2>5. CASE /\ CanFlush(req[r].out) /\ rows'[d] = AfterFlush(req[r].out)[d]
               /\ d \in edited' <=> d \in StillEdited(req[r].out)
        BY <2>2, <2>3, <2>5, ChangesAreExact
    <2>6. CASE UNCHANGED <<rows, edited>>
        BY <2>6 DEF RowsExact
    <2> QED  BY <1>5, <2>4, <2>5, <2>6, ImportedRows
<1> QED  BY <1>1, <1>2, <1>3, <1>4, <1>5 DEF Finishing

\* While calm lasts, the documents of a commit are kept in files of their own.
LEMMA CommitHasThem ==
    ASSUME StateTypes, RequestsOK, Forms, NEW r \in Requests, CreateCommit(r), calm',
           NEW d \in DOMAIN req[r].copy
    PROVE  files'[target][PathOf(req[r].copy[d])] = req[r].copy[d].text
<1> DEFINE copy == req[r].copy
           D == DOMAIN copy
           F == {PathOf(copy[e]) : e \in D}
           path == [e \in D |-> PathOf(copy[e])]
<1>1. PICK f \in Pushed(copy) :
        /\ files' = [files EXCEPT ![target] = Overlay(req[r].tree, f)]
        /\ calm' = (calm /\ Cardinality(DOMAIN f) = Cardinality(D))
    BY DEF CreateCommit
<1>2. DOMAIN f = F
    BY <1>1 DEF Pushed
<1>3. Cardinality(F) = Cardinality(D)
    BY <1>1, <1>2
<1>4. req[r].op = "push"
    BY DEF CreateCommit
<1>5. IsFiniteSet(D)
    <2>1. D \subseteq Docs
        BY <1>4, RequestKinds, PushParts
    <2> QED  BY <2>1, SyncConstants, FS_Subset
<1>6. path \in Surjection(D, F)
    BY DEF Surjection
<1>7. path \in Injection(D, F)
    <2> HIDE DEF D, F, path
    <2> QED  BY <1>3, <1>5, <1>6, FS_SurjSameCardinalityImpliesInj, FS_Surjection
<1>8. PICK e \in D : PathOf(copy[e]) = PathOf(copy[d]) /\ copy[e].text = f[PathOf(copy[d])]
    BY <1>1, <1>2 DEF Pushed
<1>9. e = d
    <2>1. path[e] = path[d]
        BY <1>8
    <2> HIDE DEF path
    <2> QED  BY <1>7, <2>1 DEF Injection, IsInjective
<1>10. PathOf(copy[d]) \in Paths /\ target \in Branches
    BY <1>4, PushPaths, NumbersAre
<1>11. files'[target][PathOf(copy[d])] = f[PathOf(copy[d])]
    BY <1>1, <1>2, <1>10 DEF Overlay, StateTypes
<1> QED  BY <1>8, <1>9, <1>11

LEMMA BeginIsCalm ==
    ASSUME StateTypes, RequestsOK, NEW r \in Requests, Beginning(r)
    PROVE  CalmFor(req[r])'
<1>1. ASSUME NEW q, Begin(r, q) PROVE req'[r] = q
    BY <1>1 DEF Begin, RequestsOK
<1>2. CASE RefreshBegin(r) \/ PullBegin(r)
    <2>1. PICK op \in {"refresh", "pull"}, d \in Docs : Begin(r, [op |-> op, doc |-> d, old |-> rows[d]])
        BY <1>2 DEF RefreshBegin, PullBegin, Live
    <2>2. req'[r].op = op
        BY <1>1, <2>1
    <2> QED  BY <2>2 DEF CalmFor
<1>3. CASE ImportBegin(r)
    <2>1. /\ UNCHANGED files
          /\ req'[r] = [op |-> "import", tree |-> files["main"], out |-> {}, new |-> {},
                        todo |-> {p \in Paths : files["main"][p] # Empty}]
        BY <1>1, <1>3 DEF ImportBegin
    <2> QED  BY <2>1 DEF CalmFor
<1>4. CASE PushBegin(r)
    <2>1. PICK D \in Selected :
             Begin(r, [op |-> "push", phase |-> IF target = "main" THEN "base" ELSE "branch",
                       copy |-> Copies(D), head |-> 0, tree |-> files[target], out |-> {}])
        BY <1>4 DEF PushBegin
    <2>2. req'[r].op = "push" /\ req'[r].phase # "record"
        BY <1>1, <2>1
    <2> QED  BY <2>2 DEF CalmFor
<1> QED  BY <1>2, <1>3, <1>4 DEF Beginning

LEMMA WorkStaysCalm ==
    ASSUME StateTypes, RequestsOK, Forms, [Next]_vars, NEW r \in Requests, CalmFor(req[r]),
           Working(r), calm'
    PROVE  CalmFor(req[r])'
<1>0. target' = target /\ FormOK(req[r])
    BY HeadSteps DEF Forms
<1>1. CASE ImportItem(r)
    <2>1. /\ req[r].op = "import" /\ req[r] \in ImportRequests /\ UNCHANGED files
          /\ req'[r].op = "import" /\ req'[r].tree = req[r].tree
        BY <1>1, ItemSteps DEF ImportItem
    <2>2. \E p \in req[r].todo :
             req'[r].new \subseteq req[r].new \union {Imported(p, req[r].tree[p], files["main"][p])}
        BY <1>1, ItemSteps
    <2>3. \A p : Imported(p, files["main"][p], files["main"][p]).sha
                  = Imported(p, files["main"][p], files["main"][p]).text
        BY DEF Imported
    <2> QED  BY <2>1, <2>2, <2>3 DEF CalmFor
<1>2. CASE CreateBranch(r) \/ ReadBase(r)
    <2>1. req[r].op = "push" /\ req[r] \in PushRequests
        BY <1>2, RequestKinds DEF CreateBranch, ReadBase
    <2>2. CASE CreateBranch(r)
        <3>1. req' = [req EXCEPT ![r].phase = "base"]
            BY <2>2 DEF CreateBranch
        <3>2. req'[r].op = "push" /\ req'[r].phase = "base"
            BY <2>1, <3>1, PushMoves
        <3> QED  BY <3>2 DEF CalmFor
    <2>3. CASE ReadBase(r)
        <3>1. req'[r] = [req[r] EXCEPT !.phase = "commit", !.head = head[target], !.tree = files[target]]
            BY <2>3 DEF ReadBase, RequestsOK
        <3>2. req'[r].op = "push" /\ req'[r].phase = "commit"
            BY <2>1, <3>1 DEF PushRequests
        <3> QED  BY <3>2 DEF CalmFor
    <2> QED  BY <1>2, <2>2, <2>3
<1>3. CASE CreateCommit(r)
    <2>1. req[r].op = "push" /\ req[r].phase = "commit" /\ req' = [req EXCEPT ![r].phase = "record"]
        BY <1>3 DEF CreateCommit
    <2>2. req'[r].op = "push" /\ req'[r].copy = req[r].copy /\ req'[r].out = {}
        BY <1>0, <2>1, PushMoves DEF FormOK
    <2> QED  BY <1>0, <1>3, <2>2, CommitHasThem DEF CalmFor
<1>4. CASE GetFileSha(r)
    <2>1. req[r].op = "push" /\ req[r].phase = "record" /\ UNCHANGED files
        BY <1>4 DEF GetFileSha
    <2>2. PICK d \in DOMAIN req[r].copy :
             \E new \in {Recorded(req[r].copy[d], files[target][PathOf(req[r].copy[d])]),
                         Unread(req[r].copy[d])} :
               req' = [req EXCEPT ![r].out =
                         @ \union {[doc |-> d, old |-> req[r].copy[d], new |-> new]}]
        BY <1>4 DEF GetFileSha
    <2>3. PICK new \in {Recorded(req[r].copy[d], files[target][PathOf(req[r].copy[d])]),
                        Unread(req[r].copy[d])} :
             req' = [req EXCEPT ![r].out = @ \union {[doc |-> d, old |-> req[r].copy[d], new |-> new]}]
        BY <2>2
    <2>4. files[target][PathOf(req[r].copy[d])] = req[r].copy[d].text
        BY <2>1 DEF CalmFor
    <2>5. /\ req'[r].op = "push" /\ req'[r].copy = req[r].copy
          /\ req'[r].out = req[r].out \union {[doc |-> d, old |-> req[r].copy[d], new |-> new]}
        BY <2>1, <2>3, PushMoves
    <2> QED  BY <1>0, <2>1, <2>3, <2>4, <2>5 DEF CalmFor
<1> QED  BY <1>1, <1>2, <1>3, <1>4 DEF Working

LEMMA CalmIsExactStays ==
    ASSUME StateTypes, RequestsOK, Forms, Undisturbed, CalmIsExact, [Next]_vars
    PROVE  CalmIsExact'
<1> SUFFICES ASSUME calm' PROVE RowsExact' /\ \A s \in Requests : CalmFor(req[s])'
    BY DEF CalmIsExact, RowsExact, Exact
<1>1. calm /\ Solo' /\ Alone /\ \A s \in Requests : LoadedBy(req[s])
    BY CalmWasCalm DEF Solo, Undisturbed
<1>2. RowsExact /\ \A s \in Requests : CalmFor(req[s])
    BY <1>1 DEF CalmIsExact, RowsExact, Exact
<1>3. UNCHANGED <<rows, edited>> => RowsExact'
    BY <1>2 DEF RowsExact, Exact
<1>4. ASSUME NEW s \in Requests, req'[s] = Idle PROVE CalmFor(req[s])'
    BY <1>4 DEF CalmFor, Idle
<1>5. ASSUME NEW d \in Docs, Editing(d)
      PROVE  RowsExact' /\ \A s \in Requests : CalmFor(req[s])'
    <2>1. UNCHANGED <<req, files, target>>
        BY <1>5, HeadSteps DEF Editing, CreateDocument, UpdateDocument, DeleteDocument, MoveToFolder
    <2> QED  BY <1>2, <1>5, <2>1, EditsStayExact DEF CalmFor
<1>6. ASSUME NEW r \in Requests, Beginning(r) \/ Working(r) \/ Finishing(r)
      PROVE  RowsExact' /\ \A s \in Requests : CalmFor(req[s])'
    <2>1. \A s \in Requests : s # r => req'[s] = Idle
        BY <1>1, <1>6, OthersAreIdle
    <2>2. CalmFor(req[r])'
        BY <1>2, <1>4, <1>6, OthersWait, BeginIsCalm, WorkStaysCalm
    <2>3. Beginning(r) \/ Working(r) => UNCHANGED <<rows, edited>>
        BY DEF Beginning, Working, RefreshBegin, ImportBegin, PullBegin, PushBegin,
               ImportItem, CreateBranch, ReadBase, CreateCommit, GetFileSha
    <2>4. RowsExact'
        BY <1>1, <1>2, <1>3, <1>6, <2>3, FinishesStayExact
    <2> QED  BY <1>4, <2>1, <2>2, <2>4
<1>7. CASE ForeignCommit \/ MergePullRequest
    <2>1. UNCHANGED <<rows, edited, req>> /\ Running = {}
        BY <1>7 DEF ForeignCommit, MergePullRequest, StateTypes
    <2>2. \A s \in Requests : req'[s] = Idle
        BY <2>1 DEF Running
    <2> QED  BY <1>3, <1>4, <2>1, <2>2
<1>8. CASE UNCHANGED vars
    BY <1>2, <1>3, <1>8, HeadSteps DEF vars, CalmFor
<1> QED  BY <1>5, <1>6, <1>7, <1>8, Steps

-----------------------------------------------------------------------------
(* Where nothing is pushed.                                                *)

\* Files get texts that are new, or disappear; there is no second branch.
LEMMA QuietFiles ==
    ASSUME StateTypes, RequestsOK, Quiet, QuietIsTraced, [Next]_vars
    PROVE  /\ Quiet' /\ clock \in Nat /\ clock' \in {clock, clock + 1} /\ head'["sync"] = 0
           /\ \A p \in Paths : \/ files'["main"][p] = files["main"][p]
                               \/ files'["main"][p] \in {clock + 1, 0} /\ clock' = clock + 1
<1>0. clock \in Nat /\ \A p \in Paths : files["main"][p] \in Nat
    BY NumbersAre DEF Branches
<1>1. config' = config
    BY DEF Next, RequestStep, CreateDocument, UpdateDocument, DeleteDocument, MoveToFolder,
           RefreshBegin, RefreshDocument, ImportBegin, ImportItem, ImportCommit, PullBegin,
           PullRemoteChanges, PushBegin, CreateBranch, ReadBase, CreateCommit, GetFileSha,
           PushCommit, Abandon, ForeignCommit, MergePullRequest, vars
<1>2. Quiet'
    BY <1>1 DEF Quiet, target
<1>3. head["sync"] = 0 /\ \A r \in Requests : req[r].op # "push"
    BY DEF QuietIsTraced, QuietFor
<1>4. \A r \in Requests : ~CreateBranch(r) /\ ~CreateCommit(r)
    BY <1>3 DEF CreateBranch, CreateCommit
<1>5. CASE ForeignCommit
    <2>1. PICK b \in Branches, p \in Paths :
            /\ head[b] # 0
            /\ \E text \in {clock', Empty} : files' = [files EXCEPT ![b][p] = text]
            /\ head' = [head EXCEPT ![b] = clock']
        BY <1>5 DEF ForeignCommit
    <2>2. b = "main" /\ clock' = clock + 1
        BY <1>3, <1>5, <2>1, TickCounts DEF Branches, ForeignCommit
    <2>3. head'["sync"] = 0
        BY <1>3, <2>1, <2>2 DEF StateTypes, Branches
    <2>4. \A x \in Paths : x # p => files'["main"][x] = files["main"][x]
        BY <2>1, <2>2 DEF StateTypes, Branches, Trees
    <2>5. files'["main"][p] \in {clock + 1, 0}
        BY <2>1, <2>2 DEF StateTypes, Branches, Trees, Empty
    <2> QED  BY <1>0, <1>2, <2>2, <2>3, <2>4, <2>5
<1>6. ~MergePullRequest
    BY <1>3 DEF MergePullRequest
<1>7. CASE UNCHANGED <<files, head>> /\ clock' \in {clock, clock + 1}
    BY <1>0, <1>2, <1>3, <1>7
<1>8. CASE \E d \in Docs : Editing(d)
    BY <1>7, <1>8, TickCounts DEF Editing, CreateDocument, UpdateDocument, DeleteDocument, MoveToFolder
<1>9. ASSUME NEW r \in Requests, Beginning(r) \/ Working(r) \/ Finishing(r)
      PROVE  UNCHANGED <<files, head>> /\ clock' \in {clock, clock + 1}
    BY <1>4, <1>9, TickCounts DEF Beginning, RefreshBegin, ImportBegin, PullBegin, PushBegin,
       Working, ImportItem, ReadBase, GetFileSha, Finishing, RefreshDocument, ImportCommit,
       PullRemoteChanges, PushCommit, Abandon
<1> QED  BY <1>5, <1>6, <1>7, <1>8, <1>9, Steps DEF vars

\* A row that is left alone stays traced; one that is up to date stays so.
LEMMA RowsWait ==
    ASSUME StateTypes, RequestsOK, Quiet, QuietIsTraced, [Next]_vars, NEW row, Traced(row)
    PROVE  Traced(row)' /\ (UpToDate(row) => UpToDate(row)')
<1> USE QuietFiles
<1>1. CASE ~row.linked
    BY <1>1 DEF Traced, UpToDate
<1>2. CASE row.linked
    <2>1. row.path \in Paths /\ row.sha \in 1 .. clock
        BY <1>2 DEF Traced
    <2>2. Traced(row)'
        BY <1>2, <2>1 DEF Traced
    <2>3. files'["main"][row.path] = files["main"][row.path]
            \/ files'["main"][row.path] # row.sha
        BY <2>1
    <2> QED  BY <1>2, <2>1, <2>2, <2>3 DEF UpToDate
<1> QED  BY <1>1, <1>2

\* What an import or pull makes of a file, among the rows it writes.
LEMMA FlushTraced ==
    ASSUME StateTypes, NEW C \in SUBSET Change, NEW d \in Docs, Traced(rows[d]),
           \A c \in C : /\ c.new.path = c.old.path /\ c.new.sha = c.new.text
                        /\ c.new.text \in 1 .. clock
    PROVE  Traced(AfterFlush(C)[d])
<1>1. AfterFlush(C)[d].linked = rows[d].linked
    BY FlushKeeps
<1>2. CASE AfterFlush(C)[d] = rows[d]
    BY <1>2
<1>3. ASSUME NEW c \in C, AfterFlush(C)[d] = Flushed(rows[d], c)
      PROVE  Traced(AfterFlush(C)[d])
    <2>1. rows[d] \in Row /\ c \in Change
        BY DEF StateTypes
    <2>2. AfterFlush(C)[d].path = rows[d].path /\ AfterFlush(C)[d].sha \in {rows[d].sha, c.new.sha}
        BY <1>3, <2>1, FlushedParts DEF Written
    <2> QED  BY <1>1, <2>2 DEF Traced
<1> QED  BY <1>2, <1>3, AfterFlushIs

LEMMA ImportChanges ==
    ASSUME StateTypes, RequestsOK, Forms, NEW r \in Requests, req[r].op = "import"
    PROVE  /\ req[r].out \in SUBSET Change
           /\ \A c \in req[r].out : c.new.path = c.old.path /\ c.new.sha = c.new.text
<1>1. req[r] \in ImportRequests
    BY RequestKinds
<1>2. \A c \in req[r].out : c.old \in Row /\ c.new \in Row /\ c.new = FromGitHub(c.old, c.new.text)
    BY <1>1 DEF ImportRequests, Change, Forms, FormOK
<1>3. \A row \in Row, text \in Texts :
        FromGitHub(row, text).path = row.path /\ FromGitHub(row, text).sha = text
    BY DEF Row, FromGitHub
<1>4. \A row \in Row : row.text \in Texts
    BY DEF Row
<1>5. req[r].out \in SUBSET Change
    BY <1>1 DEF ImportRequests
<1> QED  BY <1>2, <1>3, <1>4, <1>5

\* New rows: their SHA is that of a file of the tree.
LEMMA NewRowsTraced ==
    ASSUME StateTypes, RequestsOK, Forms, NEW r \in Requests, req[r].op = "import", QuietFor(req[r]),
           clock \in Nat, NEW x \in req[r].new
    PROVE  Traced(x) /\ x.linked
<1>1. PICK p \in Paths : x = Imported(p, req[r].tree[p], x.text) /\ req[r].tree[p] # Empty
    BY DEF Forms, FormOK
<1>2. req[r].tree[p] \in 0 .. clock
    BY DEF QuietFor
<1>3. req[r].tree[p] \in 1 .. clock
    BY <1>1, <1>2 DEF Empty
<1>4. x.linked /\ x.path = p /\ x.sha = req[r].tree[p]
    BY <1>1 DEF Imported
<1> QED  BY <1>3, <1>4 DEF Traced

LEMMA EditsStayTraced ==
    ASSUME StateTypes, NEW e \in Docs, Editing(e), NEW d \in Docs, rows'[d].live
    PROVE  \/ ~rows'[d].linked
           \/ /\ rows[d].live /\ rows'[d].linked = rows[d].linked
              /\ rows'[d].path = rows[d].path /\ rows'[d].sha = rows[d].sha
              /\ d \notin edited' => d \notin edited /\ rows'[d].text = rows[d].text
<1>1. rows[d] \in Row
    BY DEF StateTypes
<1>2. CASE d # e
    BY <1>2 DEF Editing, CreateDocument, UpdateDocument, DeleteDocument, MoveToFolder, StateTypes
<1>3. CASE d = e /\ CreateDocument(e)
    BY <1>3 DEF CreateDocument, StateTypes, NewRow
<1>4. CASE d = e /\ UpdateDocument(e)
    <2>1. rows'[d] = [rows[d] EXCEPT !.text = clock'] /\ d \in edited' /\ rows[d].live
        BY <1>4 DEF UpdateDocument, StateTypes
    <2> QED  BY <1>1, <2>1 DEF Row
<1>5. CASE d = e /\ DeleteDocument(e)
    BY <1>5 DEF DeleteDocument, StateTypes, NoRow
<1>6. CASE d = e /\ MoveToFolder(e)
    <2>1. PICK name \in Paths : rows'[d] = Moved(rows[d], name)
        BY <1>6 DEF MoveToFolder, StateTypes
    <2>2. UNCHANGED edited /\ rows[d].live
        BY <1>6 DEF MoveToFolder
    <2> QED  BY <1>1, <2>1, <2>2 DEF Moved, Row
<1> QED  BY <1>2, <1>3, <1>4, <1>5, <1>6 DEF Editing

\* What becomes of the rows when a request finishes.
LEMMA FinishesStayTraced ==
    ASSUME StateTypes, RequestsOK, Forms, Quiet, QuietIsTraced, NEW r \in Requests, Finishing(r),
           NEW d \in Docs, rows'[d].live
    PROVE  Traced(rows'[d])
<1>0. clock \in Nat /\ QuietFor(req[r])
    BY NumbersAre DEF QuietIsTraced
<1>1. rows[d].live => Traced(rows[d])
    BY DEF QuietIsTraced
<1>2. CASE Abandon(r)
    BY <1>1, <1>2 DEF Abandon
<1>3. CASE RefreshDocument(r)
    <2>1. rows[d] \in Row
        BY DEF StateTypes
    <2>2. /\ rows'[d].live = rows[d].live /\ rows'[d].linked = rows[d].linked
          /\ rows'[d].path = rows[d].path /\ rows'[d].sha = rows[d].sha
        BY <1>3, <2>1 DEF RefreshDocument, StateTypes, Row
    <2> QED  BY <1>1, <2>2 DEF Traced
<1>4. CASE PullRemoteChanges(r)
    <2>1. req[r].op = "pull" /\ files[target][req[r].old.path] # Empty
        BY <1>4 DEF PullRemoteChanges
    <2>2. files[target][req[r].old.path] \in 1 .. clock
        <3>1. req[r].old.path \in Paths
            BY <2>1 DEF Forms, FormOK
        <3> QED  BY <1>0, <2>1, <3>1 DEF QuietIsTraced, Quiet, Empty
    <2>3. \A c \in PullOf(req[r]) : /\ c.new.path = c.old.path /\ c.new.sha = c.new.text
                                    /\ c.new.text \in 1 .. clock
        BY <1>4, <2>2, PullIs
    <2>4. PullOf(req[r]) \in SUBSET Change /\ rows'[d] = AfterFlush(PullOf(req[r]))[d]
        BY <1>4, PullIs
    <2>5. rows[d].live
        BY <2>4, FlushKeeps
    <2> QED  BY <1>1, <2>3, <2>4, <2>5, FlushTraced
<1>5. ~PushCommit(r)
    BY <1>0 DEF PushCommit, QuietFor
<1>6. CASE ImportCommit(r)
    <2>1. req[r].op = "import"
        BY <1>6 DEF ImportCommit
    <2>2. \A c \in req[r].out : c.new.text \in 1 .. clock
        BY <1>0, <2>1 DEF QuietFor
    <2>3. CASE rows'[d] = AfterFlush(req[r].out)[d]
        <3>1. rows[d].live
            BY <2>1, <2>3, FlushKeeps, ImportChanges
        <3> QED  BY <1>1, <2>1, <2>2, <2>3, <3>1, FlushTraced, ImportChanges
    <2>4. CASE UNCHANGED <<rows, edited>>
        BY <1>1, <2>4
    <2> QED  BY <1>0, <1>6, <2>1, <2>3, <2>4, ImportedRows, NewRowsTraced
<1> QED  BY <1>2, <1>3, <1>4, <1>5, <1>6 DEF Finishing

\* One request at a time writes the text a SHA belongs to, or one that the file
\* does not have any more.
LEMMA FinishesUpToDate ==
    ASSUME StateTypes, RequestsOK, Forms, Undisturbed, Quiet, One, QuietIsTraced, QuietIsUpToDate,
           NEW r \in Requests, Finishing(r), NEW d \in Docs, rows'[d].live, d \notin edited'
    PROVE  UpToDate(rows'[d])
<1>0. QuietFor(req[r]) /\ LoadedBy(req[r])
    BY DEF QuietIsTraced, Undisturbed, Solo
<1>1. rows[d].live /\ d \notin edited => UpToDate(rows[d])
    BY DEF QuietIsUpToDate
<1>2. CASE Abandon(r)
    BY <1>1, <1>2 DEF Abandon
<1>3. CASE RefreshDocument(r)
    <2>1. d # req[r].doc /\ d \notin edited
        BY <1>3 DEF RefreshDocument
    <2>2. rows'[d] = rows[d]
        BY <1>3, <2>1 DEF RefreshDocument, StateTypes
    <2> QED  BY <1>1, <2>1, <2>2
<1>4. ASSUME NEW C \in SUBSET Change, CanFlush(C),
             \A c \in C : Loaded(c.old, c.doc) /\ c.new.sha = c.new.text,
             rows'[d] = AfterFlush(C)[d], d \notin StillEdited(C)
      PROVE  UpToDate(rows'[d])
    <2>1. rows[d].live
        BY <1>4, FlushKeeps
    <2>2. CASE AfterFlush(C)[d] = rows[d] /\ d \notin edited
        BY <1>1, <1>4, <2>1, <2>2
    <2>3. CASE \E c \in C : c.doc = d /\ Received(AfterFlush(C)[d], c)
        BY <1>4, <2>3 DEF Received, UpToDate
    <2> QED  BY <1>4, <2>2, <2>3, FlushExact
<1>5. CASE PullRemoteChanges(r)
    <2>1. req[r].op = "pull"
        BY <1>5 DEF PullRemoteChanges
    <2>2. \A c \in PullOf(req[r]) : Loaded(c.old, c.doc) /\ c.new.sha = c.new.text
        BY <1>0, <1>5, <2>1, PullIs DEF LoadedBy
    <2>3. /\ PullOf(req[r]) \in SUBSET Change /\ CanFlush(PullOf(req[r]))
          /\ rows'[d] = AfterFlush(PullOf(req[r]))[d] /\ d \notin StillEdited(PullOf(req[r]))
        BY <1>5, PullIs
    <2> QED  BY <1>4, <2>2, <2>3
<1>6. ~PushCommit(r)
    BY <1>0 DEF PushCommit, QuietFor
<1>7. CASE ImportCommit(r)
    <2>1. req[r].op = "import"
        BY <1>7 DEF ImportCommit
    <2>2. \A c \in req[r].out : Loaded(c.old, c.doc) /\ c.new.sha = c.new.text
        BY <1>0, <2>1, ImportChanges DEF LoadedBy
    <2>3. \A x \in req[r].new : UpToDate(x)
        BY <1>0, <2>1 DEF QuietFor
    <2>4. CASE /\ CanFlush(req[r].out) /\ rows'[d] = AfterFlush(req[r].out)[d]
               /\ d \in edited' <=> d \in StillEdited(req[r].out)
        BY <1>4, <2>1, <2>2, <2>4, ImportChanges
    <2>5. CASE UNCHANGED <<rows, edited>>
        BY <1>1, <2>5
    <2> QED  BY <1>7, <2>3, <2>4, <2>5, ImportedRows
<1> QED  BY <1>2, <1>3, <1>5, <1>6, <1>7 DEF Finishing

\* What an import has found stays as good as it was.
LEMMA RequestsWait ==
    ASSUME StateTypes, RequestsOK, Forms, Quiet, QuietIsTraced, [Next]_vars,
           NEW s \in Requests, req'[s] = req[s]
    PROVE  QuietFor(req[s])'
<1>0. QuietFor(req[s]) /\ clock \in Nat /\ clock' \in {clock, clock + 1}
    BY QuietFiles DEF QuietIsTraced
<1>1. CASE req[s].op # "import"
    BY <1>0, <1>1 DEF QuietFor
<1>2. CASE req[s].op = "import"
    <2>1. ASSUME NEW x \in req[s].new
          PROVE  UpToDate(x)'
        <3>1. Traced(x) /\ UpToDate(x)
            BY <1>0, <1>2, NewRowsTraced DEF QuietFor
        <3> QED  BY <3>1, RowsWait
    <2>2. /\ \A p \in Paths : req[s].tree[p] \in 0 .. clock'
          /\ \A c \in req[s].out : c.new.text \in 1 .. clock'
        BY <1>0, <1>2 DEF QuietFor
    <2> QED  BY <1>0, <1>2, <2>1, <2>2 DEF QuietFor
<1> QED  BY <1>1, <1>2

LEMMA BeginsQuiet ==
    ASSUME StateTypes, RequestsOK, Quiet, QuietIsTraced, NEW r \in Requests, Beginning(r)
    PROVE  QuietFor(req[r])'
<1>1. ASSUME NEW q, Begin(r, q) PROVE req'[r] = q
    BY <1>1 DEF Begin, RequestsOK
<1>2. CASE RefreshBegin(r) \/ PullBegin(r)
    <2>1. PICK op \in {"pull", "refresh"}, d \in Docs : Begin(r, [op |-> op, doc |-> d, old |-> rows[d]])
        BY <1>2 DEF RefreshBegin, PullBegin, Live
    <2>2. req'[r].op = op
        BY <1>1, <2>1
    <2> QED  BY <2>2 DEF QuietFor
<1>3. CASE ImportBegin(r)
    <2>1. /\ req'[r] = [op |-> "import", tree |-> files["main"], out |-> {}, new |-> {},
                        todo |-> {p \in Paths : files["main"][p] # Empty}]
          /\ UNCHANGED clock
        BY <1>1, <1>3 DEF ImportBegin
    <2> QED  BY <2>1 DEF QuietFor, QuietIsTraced
<1>4. ~PushBegin(r)
    BY DEF PushBegin, Quiet
<1> QED  BY <1>2, <1>3, <1>4 DEF Beginning

LEMMA ItemQuiet ==
    ASSUME StateTypes, RequestsOK, Quiet, QuietIsTraced, NEW r \in Requests, ImportItem(r)
    PROVE  QuietFor(req[r])'
<1>1. /\ req[r].op = "import" /\ req[r] \in ImportRequests /\ UNCHANGED <<files, clock>>
      /\ req'[r].op = "import" /\ req'[r].tree = req[r].tree
    BY ItemSteps DEF ImportItem
<1>2. QuietFor(req[r])
    BY DEF QuietIsTraced
<1>3. PICK p \in req[r].todo :
        \/ req'[r].out = req[r].out /\ req'[r].new = req[r].new
        \/ /\ files["main"][p] # Empty /\ req'[r].out = req[r].out
           /\ req'[r].new = req[r].new
                \union {Imported(p, req[r].tree[p], files["main"][p])}
        \/ /\ files["main"][p] # Empty /\ req'[r].new = req[r].new
           /\ req'[r].out = req[r].out \union Found(p)
    BY ItemSteps
<1>4. p \in Paths
    BY <1>1 DEF ImportRequests
<1>5. files["main"][p] # Empty => files["main"][p] \in 1 .. clock
    BY <1>4, NumbersAre DEF QuietIsTraced, Empty
<1>6. UpToDate(Imported(p, req[r].tree[p], files["main"][p]))
    BY DEF UpToDate, Imported
<1>7. \A c \in Found(p) : c.new.text = files["main"][p]
    BY <1>4, FoundIs
<1>8. \A x : UpToDate(x) => UpToDate(x)'
    BY <1>1 DEF UpToDate
<1>9. ASSUME NEW x \in req'[r].new PROVE UpToDate(x)'
    BY <1>1, <1>2, <1>3, <1>6, <1>8 DEF QuietFor
<1>10. \A c \in req'[r].out : c.new.text \in 1 .. clock
    BY <1>1, <1>2, <1>3, <1>5, <1>7 DEF QuietFor
<1> QED  BY <1>1, <1>2, <1>9, <1>10 DEF QuietFor

LEMMA QuietIsTracedStays ==
    ASSUME StateTypes, RequestsOK, Forms, QuietIsTraced, [Next]_vars
    PROVE  QuietIsTraced'
<1> SUFFICES ASSUME Quiet
             PROVE  /\ head'["sync"] = 0
                    /\ \A p \in Paths : files'["main"][p] \in 0 .. clock'
                    /\ \A d \in Docs : rows'[d].live => Traced(rows[d])'
                    /\ \A s \in Requests : QuietFor(req[s])'
    <2>1. config' = config
        BY DEF Next, RequestStep, CreateDocument, UpdateDocument, DeleteDocument, MoveToFolder,
           RefreshBegin, RefreshDocument, ImportBegin, ImportItem, ImportCommit, PullBegin,
           PullRemoteChanges, PushBegin, CreateBranch, ReadBase, CreateCommit, GetFileSha,
           PushCommit, Abandon, ForeignCommit, MergePullRequest, vars
    <2>2. Quiet' <=> Quiet
        BY <2>1 DEF Quiet, target
    <2> QED  BY <2>2 DEF QuietIsTraced
<1>1. head'["sync"] = 0 /\ \A p \in Paths : files'["main"][p] \in 0 .. clock'
    BY QuietFiles DEF QuietIsTraced
<1>2. clock \in Nat /\ clock' \in {clock, clock + 1}
    BY QuietFiles
<1>3. ASSUME NEW row, Traced(row) PROVE Traced(row)'
    BY <1>3, RowsWait
<1>4. \A d \in Docs : rows[d].live => Traced(rows[d])
    BY DEF QuietIsTraced
<1>5. UNCHANGED rows => \A d \in Docs : rows'[d].live => Traced(rows[d])'
    BY <1>2, <1>4 DEF Traced
<1>6. ASSUME NEW d \in Docs, rows'[d].live, Traced(rows'[d])
      PROVE  Traced(rows[d])'
    BY <1>2, <1>6 DEF Traced
<1>7. UNCHANGED req => \A s \in Requests : QuietFor(req[s])'
    BY RequestsWait
<1>8. ASSUME NEW e \in Docs, Editing(e)
      PROVE  /\ \A d \in Docs : rows'[d].live => Traced(rows[d])'
             /\ \A s \in Requests : QuietFor(req[s])'
    <2>1. UNCHANGED req
        BY <1>8 DEF Editing, CreateDocument, UpdateDocument, DeleteDocument, MoveToFolder
    <2>2. ASSUME NEW d \in Docs, rows'[d].live PROVE Traced(rows'[d])
        BY <1>4, <1>8, <2>2, EditsStayTraced DEF Traced
    <2> QED  BY <1>6, <1>7, <2>1, <2>2
<1>9. ASSUME NEW r \in Requests, Beginning(r) \/ Working(r) \/ Finishing(r)
      PROVE  /\ \A d \in Docs : rows'[d].live => Traced(rows[d])'
             /\ \A s \in Requests : QuietFor(req[s])'
    <2>1. Beginning(r) \/ Working(r) => UNCHANGED rows
        BY DEF Beginning, Working, RefreshBegin, ImportBegin, PullBegin, PushBegin,
               ImportItem, CreateBranch, ReadBase, CreateCommit, GetFileSha
    <2>2. \A d \in Docs : rows'[d].live => Traced(rows[d])'
        BY <1>5, <1>6, <1>9, <2>1, FinishesStayTraced
    <2>3. Finishing(r) => QuietFor(req[r])'
        BY OthersWait DEF QuietFor, Idle
    <2>4. req[r].op # "push"
        BY DEF QuietIsTraced, QuietFor
    <2>5. Working(r) => ImportItem(r)
        BY <2>4 DEF Working, CreateBranch, ReadBase, CreateCommit, GetFileSha
    <2>6. QuietFor(req[r])'
        BY <1>9, <2>3, <2>5, BeginsQuiet, ItemQuiet
    <2> QED  BY <1>9, <2>2, <2>6, OthersWait, RequestsWait
<1>10. CASE ForeignCommit \/ MergePullRequest \/ UNCHANGED vars
    <2>1. UNCHANGED <<rows, req>>
        BY <1>10 DEF ForeignCommit, MergePullRequest, vars
    <2> QED  BY <1>1, <1>5, <1>7, <2>1
<1> QED  BY <1>1, <1>8, <1>9, <1>10, Steps

LEMMA QuietIsUpToDateStays ==
    ASSUME StateTypes, RequestsOK, Forms, Undisturbed, QuietIsTraced, QuietIsUpToDate, [Next]_vars
    PROVE  QuietIsUpToDate'
<1> SUFFICES ASSUME Quiet, One, NEW d \in Docs, rows'[d].live, d \notin edited'
             PROVE  UpToDate(rows[d])'
    <2>1. config' = config
        BY DEF Next, RequestStep, CreateDocument, UpdateDocument, DeleteDocument, MoveToFolder,
           RefreshBegin, RefreshDocument, ImportBegin, ImportItem, ImportCommit, PullBegin,
           PullRemoteChanges, PushBegin, CreateBranch, ReadBase, CreateCommit, GetFileSha,
           PushCommit, Abandon, ForeignCommit, MergePullRequest, vars
    <2>2. Quiet' <=> Quiet
        BY <2>1 DEF Quiet, target
    <2> QED  BY <2>2 DEF QuietIsUpToDate, One
<1>1. rows[d].live /\ d \notin edited => UpToDate(rows[d]) /\ Traced(rows[d])
    BY DEF QuietIsUpToDate, QuietIsTraced
<1>2. rows[d].live /\ d \notin edited /\ rows'[d] = rows[d] => UpToDate(rows[d])'
    <2> SUFFICES ASSUME rows[d].live, d \notin edited, rows'[d] = rows[d]
                 PROVE  UpToDate(rows[d])'
        OBVIOUS
    <2> DEFINE row == rows[d]
    <2>1. Traced(row) /\ UpToDate(row)
        BY <1>1
    <2>2. CASE ~row.linked
        BY <2>2 DEF UpToDate
    <2>3. CASE row.linked
        <3>1. row.path \in Paths /\ row.sha \in 1 .. clock
            BY <2>1, <2>3 DEF Traced
        <3> QED  BY <2>1, <3>1, QuietFiles DEF UpToDate
    <2> QED  BY <2>2, <2>3
<1>3. ASSUME NEW e \in Docs, Editing(e) PROVE UpToDate(rows[d])'
    <2>1. UNCHANGED files
        BY <1>3 DEF Editing, CreateDocument, UpdateDocument, DeleteDocument, MoveToFolder
    <2> QED  BY <1>1, <1>3, <2>1, EditsStayTraced DEF UpToDate
<1>4. ASSUME NEW r \in Requests, Finishing(r) PROVE UpToDate(rows[d])'
    <2>1. UNCHANGED files
        BY <1>4 DEF Finishing, RefreshDocument, ImportCommit, PullRemoteChanges, PushCommit, Abandon
    <2>2. UpToDate(rows'[d])
        BY <1>4, FinishesUpToDate
    <2> QED  BY <2>1, <2>2 DEF UpToDate
<1>5. ASSUME NEW r \in Requests, Beginning(r) \/ Working(r) PROVE UNCHANGED <<rows, edited>>
    BY <1>5 DEF Beginning, Working, RefreshBegin, ImportBegin, PullBegin, PushBegin,
               ImportItem, CreateBranch, ReadBase, CreateCommit, GetFileSha
<1>6. ForeignCommit \/ MergePullRequest \/ UNCHANGED vars => UNCHANGED <<rows, edited>>
    BY DEF ForeignCommit, MergePullRequest, vars
<1> QED  BY <1>2, <1>3, <1>4, <1>5, <1>6, Steps

-----------------------------------------------------------------------------
(* What holds of the system.                                               *)

LEMMA InitHolds == Init => Inv
<1> SUFFICES ASSUME Init PROVE Inv
    OBVIOUS
<1>1. Numbered /\ Bases
    BY DEF Init, Numbered, Bases, BasedOnHead, Idle
<1>2. Undisturbed
    BY DEF Init, Undisturbed, Alone, LoadedBy, Idle
<1>3. CalmIsExact
    BY DEF Init, CalmIsExact, CalmFor, Idle, NoRow
<1>4. QuietIsTraced
    BY DEF Init, QuietIsTraced, QuietFor, Idle, NoRow, Branches, Empty
<1>5. QuietIsUpToDate
    BY DEF Init, QuietIsUpToDate, NoRow
<1> QED  BY <1>1, <1>2, <1>3, <1>4, <1>5, InitTypes, TypeParts DEF Inv

LEMMA InvStays == Inv /\ [Next]_vars => Inv'
<1> SUFFICES ASSUME Inv, [Next]_vars PROVE Inv'
    OBVIOUS
<1>1. StateTypes /\ RequestsOK /\ Forms
    BY TypesOfState DEF Inv
<1>2. StateTypes' /\ RequestsOK' /\ Forms'
    BY <1>1, TypesStay, FormsStay
<1>3. TypeOK'
    <2>1. (StateTypes /\ RequestsOK => TypeOK)'
        BY TypeParts, PTL
    <2> QED  BY <1>2, <2>1
<1>4. Numbered' /\ Bases' /\ Undisturbed' /\ CalmIsExact' /\ QuietIsTraced' /\ QuietIsUpToDate'
    BY <1>1, NumberedStays, BasesStay, UndisturbedStays, CalmIsExactStays, QuietIsTracedStays,
       QuietIsUpToDateStays
    DEF Inv
<1> QED  BY <1>2, <1>3, <1>4 DEF Inv

LEMMA InvHolds == Spec => []Inv
BY InitHolds, InvStays, PTL DEF Spec

\* A push changes the files it pushes and no others: the commit it builds on is
\* still the last one of the branch when GitHub takes the new one.
THEOREM PushKeeps == Spec => PushKeepsOthers
<1>1. Inv /\ [Next]_vars =>
        [ \A r \in Requests :
            (req[r].op = "push" /\ req'[r].op = "push"
               /\ req[r].phase = "commit" /\ req'[r].phase = "record")
              => \A p \in Paths \ {PathOf(req[r].copy[d]) : d \in DOMAIN req[r].copy} :
                   files'[target][p] = files[target][p] ]_vars
    BY TypesOfState, CommitIs, CommitKeeps DEF Inv
<1> QED  BY <1>1, InvHolds, PTL DEF Spec, PushKeepsOthers

\* While one request runs at a time and nobody commits meanwhile, the SHA of a
\* synced document that was not edited since is that of its text, wherever
\* requests fail and whatever is edited while they run.
THEOREM SyncIsExact == Spec => []CalmSyncIsExact
<1>1. Inv => CalmSyncIsExact
    BY DEF Inv, CalmIsExact, CalmSyncIsExact, Live
<1> QED  BY <1>1, InvHolds, PTL

\* Where documents are only imported and pulled, one request at a time, a document
\* that has fallen behind its file is reported: other people's commits may fall
\* between any two calls of an import.
THEOREM LagIsSeen == (\A r, s \in Requests : r = s) => (Spec => []LagIsReported)
<1> SUFFICES ASSUME One PROVE Spec => []LagIsReported
    BY DEF One
<1>1. Inv => LagIsReported
    <2> SUFFICES ASSUME Inv, Quiet, NEW d \in Docs, rows[d].live, d \notin edited, rows[d].linked,
                        rows[d].text # files[target][rows[d].path]
                 PROVE  Reported(d) = "remote_changes"
        BY DEF LagIsReported, Live, Quiet
    <2>1. rows[d].path \in Paths /\ UpToDate(rows[d]) /\ target = "main"
        BY DEF Inv, QuietIsTraced, QuietIsUpToDate, Traced, Quiet
    <2>2. rows[d].path # NoPath
        BY <2>1, SyncConstants
    <2> QED  BY <2>1, <2>2 DEF UpToDate, Reported
<1> QED  BY <1>1, InvHolds, PTL
=============================================================================
