------------------------------ MODULE MCRouter -------------------------------
(* The instance of the command router: one project root, the lists that     *)
(* Codex reports of it, and the symmetries.  The listing itself is compared *)
(* with what it must contain, over small state files and thread histories.  *)
EXTENDS CommandRouter

CONSTANT home

Symmetry == Permutations(Ids) \cup Permutations(Threads) \cup Permutations(Handlers)

File(act, order, saved, locals, rootOf, selected, labelled) ==
    [active |-> act, order |-> order, saved |-> saved, locals |-> locals,
     rootOf |-> rootOf, selected |-> selected, labelled |-> labelled,
     projectless |-> {"chat"},
     assigned |-> [t \in {"chat", "one", "two"} |-> IF t = "two" THEN "p" ELSE None]]

(* Codex knows the root from its workspace list or from thread history.     *)
NoFile    == File(<<>>, <<>>, <<>>, <<>>, [i \in {} |-> None], None, {})
KnownFile == [NoFile EXCEPT !.active = <<home>>]
Session   == [id |-> "one", cwd |-> home, cli |-> FALSE]
PathsOf(answer) == [i \in DOMAIN answer.projects |-> answer.projects[i].path]
OneProject == {PathsOf(ListProjects(w, ts, FALSE)) : w \in {NoFile, KnownFile}, ts \in {<<Session>>}}

(* ----- bounded inputs of the listing: two paths, two projects ------------ *)
Short(S) == {<<>>} \cup {<<x>> : x \in S} \cup {<<x, y>> : x, y \in S}
ListingOf == INSTANCE ProjectListing WITH Projects <- {"a", "b"}
Files ==
    {File(act, ord, <<"b">>, loc, root, sel, lab) :
        act \in {<<>>, <<"a">>, <<"p">>}, ord \in Short({"a", "b", "p", "q", "gone"}),
        loc \in {<<>>, <<"q", "p">>}, root \in [{"p", "q"} -> {"a", None}],
        sel \in {None, "p", "gone"}, lab \in {{}, {"b"}}}
Histories == Short([id : {"chat", "one", "two"}, cwd : {"a", "b", None}, cli : BOOLEAN])

(* What each list must hold, whatever its order: every project that has a   *)
(* root, and every listed path that no project claims, exactly once.        *)
Claimed(w)  == {w.rootOf[i] : i \in {j \in ToSet(w.locals) : ListingOf!HasRoot(w, j)}}
MustList(w) == {i \in ToSet(w.locals) : ListingOf!HasRoot(w, i)}
               \cup ((ToSet(w.active \o w.order \o w.saved) \cap {"a", "b"}) \ Claimed(w))
ASSUME ListsEachOnce ==
    \A w \in Files : LET l == ListingOf!WorkspaceProjects(w) IN
        /\ {ListingOf!KeyOf(l[i]) : i \in DOMAIN l} = MustList(w)
        /\ Len(l) = Cardinality(MustList(w))
        /\ \A i, j \in DOMAIN l : (i < j /\ l[j].active) => (l[i].active \/ l[i].path = l[j].path)

(* Nothing of the history is hidden by the workspace list, and no directory *)
(* is listed as a bare path beside a project that has it as its root.       *)
ASSUME MergesHistory ==
    \A w \in Files, ts \in {h \in Histories : Len(h) < 2} :
        LET l == ListingOf!ListProjects(w, ts, FALSE).projects
        IN  /\ {t.cwd : t \in ListingOf!HistoryOf(w, ts)} \subseteq {e.path : e \in ToSet(l)}
            /\ \A d, e \in ToSet(l) : d.path = e.path /\ d.project = None => d = e

(* A thread of another project is never listed, and every thread of the     *)
(* directory is listed in some project.                                     *)
ASSUME ThreadsOfTheirProject ==
    \A ts \in Histories, mine \in [{"chat", "one", "two"} -> {None, "p", "q"}] :
        LET in(id) == ToSet(ListingOf!ListProjectThreads(NoFile, mine, ts, "a", id, 2)) IN
        /\ \A t \in in("q") : ListingOf!OwnerOf(NoFile, mine, t.id) # "p"
        /\ {t \in ToSet(ts) : t.cwd = "a"} = in("p") \cup in("q")
=============================================================================
