--------------------------- MODULE ProjectListing ---------------------------
(***************************************************************************)
(* The projects and threads Codex Desktop is said to have                  *)
(* (connectors/codex-desktop/index.js listProjects, listProjectThreads):   *)
(* pure operators on its state file and on the answer of thread/list.      *)
(*                                                                         *)
(* The state file is a record w: the sequences active, order and saved of  *)
(* workspace entries (paths and project ids), locals (the ids of           *)
(* local-projects, in key order) with their first root rootOf, the         *)
(* selected project, the labelled paths, the project each thread is        *)
(* assigned to and the set of projectless threads.  The answer is a        *)
(* sequence of [id, cwd, cli].  Names and labels' texts are left out.      *)
(***************************************************************************)
EXTENDS Naturals, Sequences, FiniteSets, SequencesExt

CONSTANTS Projects,  \* absolute project paths
          None

\* Keep the first of the elements of s that have the same key in the sequence
\* keys beside it.
FirstOfEach(s, keys) ==
    LET keep == {i \in DOMAIN s : \A j \in 1 .. i - 1 : keys[j] # keys[i]}
    IN  [n \in 1 .. Cardinality(keep) |->
           s[CHOOSE i \in keep : Cardinality(keep \cap 1 .. i) = n]]

(***************************************************************************)
(* The workspace list.                                                     *)
(***************************************************************************)
\* One line of the list; a bare path has no project.
Listed(path, project, sources, active) ==
    [path |-> path, project |-> project, sources |-> sources, active |-> active]
KeyOf(e) == IF e.project = None THEN e.path ELSE e.project

HasRoot(w, id) == id \in ToSet(w.locals) /\ w.rootOf[id] # None

\* The projects at a root, in the user's order.
ClaimedBy(w, root) ==
    SelectSeq(FirstOfEach(w.order \o w.locals, w.order \o w.locals),
              LAMBDA id : HasRoot(w, id) /\ w.rootOf[id] = root)

\* What one entry stands for: a project, the projects that claim a path, or
\* the bare path.  Of the projects at an active root only the selected one is
\* active, if it is among them.
Stands(w, entry, active) ==
    LET claims == ClaimedBy(w, entry) IN
    IF entry \in ToSet(w.locals)
    THEN IF HasRoot(w, entry)
         THEN <<Listed(w.rootOf[entry], entry, {"codex-desktop"}, active)>> ELSE <<>>
    ELSE IF entry \notin Projects THEN <<>>
    ELSE IF claims = <<>> THEN <<Listed(entry, None, {"codex-desktop"}, active)>>
    ELSE [i \in DOMAIN claims |->
            Listed(entry, claims[i], {"codex-desktop"},
                   active /\ (claims[i] = w.selected \/ w.selected \notin ToSet(claims)))]

StandAll(w, entries, active) == FlattenSeq([i \in DOMAIN entries |-> Stands(w, entries[i], active)])

\* The active workspaces, the labelled ones, then everything else; what was
\* listed before is not listed again.
WorkspaceProjects(w) ==
    LET all == StandAll(w, w.active, TRUE)
               \o StandAll(w, SelectSeq(w.order \o w.saved, LAMBDA e : e \in w.labelled), FALSE)
               \o StandAll(w, w.order \o w.saved \o w.locals, FALSE)
    IN  FirstOfEach(all, [i \in DOMAIN all |-> KeyOf(all[i])])

(***************************************************************************)
(* The projects of the thread history, and both merged.                    *)
(***************************************************************************)
HistoryOf(w, threads) ==
    {t \in ToSet(threads) : t.cwd # None /\ t.id \notin w.projectless}

SourcesOf(ts) == {IF t.cli THEN "codex-cli" ELSE "codex-desktop" : t \in ts}

\* One per directory.  They are sorted by a name that is left out here: the
\* order is some order.
ThreadProjects(w, threads) ==
    LET ts == HistoryOf(w, threads)
    IN  SetToSeq({Listed(p, None, SourcesOf({t \in ts : t.cwd = p}), FALSE) :
                    p \in {t.cwd : t \in ts}})

\* Workspace entries win and keep their order.
Merged(workspace, history) ==
    workspace \o SelectSeq(history, LAMBDA e : e.path \notin {x.path : x \in ToSet(workspace)})

\* thread/list unreachable: the workspace list alone, or the error when there
\* is none, so that "offline" and "empty" stay apart.
ListProjects(w, threads, unreachable) ==
    LET workspace == WorkspaceProjects(w)
    IN  [error    |-> unreachable /\ workspace = <<>>,
         projects |-> IF unreachable THEN workspace
                      ELSE Merged(workspace, ThreadProjects(w, threads))]

(***************************************************************************)
(* The threads of one project: projects may share a directory, so          *)
(* membership is the assignment Codex made, else the one this daemon made  *)
(* (localProjectByThread), and a thread nobody assigned is in all of them. *)
(***************************************************************************)
OwnerOf(w, mine, t) == IF w.assigned[t] # None THEN w.assigned[t] ELSE mine[t]

ListProjectThreads(w, mine, threads, cwd, project, limit) ==
    LET here == SelectSeq(threads, LAMBDA t : t.cwd = cwd)
        own  == IF project = None THEN here
                ELSE SelectSeq(here, LAMBDA t : OwnerOf(w, mine, t.id) \in {None, project})
    IN  SubSeq(own, 1, IF Len(own) < limit THEN Len(own) ELSE limit)
=============================================================================
