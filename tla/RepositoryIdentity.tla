------------------------ MODULE RepositoryIdentity ------------------------
(***************************************************************************)
(* The identity of a repository (discover_repository of git.rs) and what   *)
(* it is for: a memory written in one worktree is found in another if, and *)
(* only if, both are of one repository.  Clones get worktrees, and origins *)
(* that are spelled in any of Git's forms, set and changed at any time;    *)
(* each Git command of a discovery may fail.                               *)
(*                                                                         *)
(* A path keeps the clone it has: another one put in its place would, as   *)
(* long as it has no hosted origin, get its identity.  Paths are those of  *)
(* Unix: drive letters and backslashes are left out, and the caller is at  *)
(* the root of its worktree.                                               *)
(***************************************************************************)
EXTENDS Naturals, FiniteSets

CONSTANTS
    Clone,        \* common directories, by path
    Root,         \* roots of worktrees, by path
    Remotes,      \* the origins that are set, see Remote
    None,
    MaxMemories   \* bound: memories written

\* File URLs with a host, without one, and without one but spelled File://.
Form == {"https", "ssh", "scp", "file_host", "file", "File", "path", "relative"}
Host == {"forge", "mirror"}
Path == {"team/app", "Team/app"}
\* An origin: where it is, and what of its spelling does not say so.  (In the
\* scp form a question mark belongs to the path; only a host has user and case.)
Remote == {r \in [form: Form, host: Host, path: Path, user: BOOLEAN, upper: BOOLEAN,
                  git: BOOLEAN, slash: BOOLEAN, query: BOOLEAN] :
              /\ r.form = "scp" => ~r.query
              /\ r.form = "File" => ~r.user /\ ~r.upper}

ASSUME IdentityAssumption == /\ Remotes \subseteq Remote /\ None \notin Remotes \cup Clone
                             /\ Clone \cap Root = {} /\ MaxMemories \in Nat

VARIABLES
    clone,      \* the clone each root is a worktree of, or None
    origin,     \* the origin of each clone, or None
    memories    \* what was written, under which identity, and where

vars == <<clone, origin, memories>>

----------------------------------------------------------------------------
(* discover_repository *)

\* remote_is_local_repository: a path, or a file URL without a host whose
\* scheme is in one case.
Local(r) == r.form \in {"file", "path", "relative"}

\* The steps of normalize_remote, on the spelling
\* [scheme://][user@]host/path[.git][/][?query].  A URL loses its query; user
\* and case of the host go in a URL and in the scp form; the last slashes and
\* then the suffix are dropped, each only from the end of what is left.
Unqueried(r) == IF r.form = "scp" THEN r ELSE [r EXCEPT !.query = FALSE]
HostFolded(r) == [r EXCEPT !.user = FALSE, !.upper = FALSE]
Unslashed(r) == IF r.query THEN r ELSE [r EXCEPT !.slash = FALSE]
Unsuffixed(r) == IF r.query \/ r.slash THEN r ELSE [r EXCEPT !.git = FALSE]
\* Only the scheme of a file URL is a part of the name, in lower case.
FileUrl(r) == r.form \in {"file_host", "File"}
Authority(r) == IF r.form = "File" THEN None ELSE r.host
Spelling(r) == [file |-> FileUrl(r), user |-> r.user, upper |-> r.upper,
                host |-> Authority(r), path |-> r.path, git |-> r.git, slash |-> r.slash,
                query |-> r.query]
\* Mutants: the suffix is dropped before the slashes; the path is folded too.
NameSuffixFirst(r) == Spelling(Unslashed(Unsuffixed(HostFolded(Unqueried(r)))))
NameFolded(r) ==
    [Spelling(Unsuffixed(Unslashed(HostFolded(Unqueried(r))))) EXCEPT !.path = "team/app"]
Name(r) == Spelling(Unsuffixed(Unslashed(HostFolded(Unqueried(r)))))

\* The commands of a discovery that gave an answer.  Without the first one
\* there is no repository, and the scope is the directory's (build_scope).
Everything == {"toplevel", "common_dir", "origin"}
Answers == SUBSET Everything
Directory(w, answers) == IF "common_dir" \in answers THEN clone[w] ELSE w
Identity(w, answers) ==
    LET remote == IF "origin" \in answers THEN origin[clone[w]] ELSE None
    IN IF "toplevel" \notin answers THEN [by |-> "workspace", name |-> <<>>, path |-> w]
       ELSE IF remote # None /\ ~Local(remote)
       THEN [by |-> "origin", name |-> <<Name(remote)>>, path |-> None]
       ELSE [by |-> "directory", name |-> <<>>, path |-> Directory(w, answers)]

----------------------------------------------------------------------------

Worktrees == {w \in Root : clone[w] # None}
AddWorktree(w, c) == /\ clone[w] = None
                     /\ clone' = [clone EXCEPT ![w] = c]
                     /\ UNCHANGED <<origin, memories>>
SetOrigin(c, r) == /\ origin[c] # r
                   /\ origin' = [origin EXCEPT ![c] = r]
                   /\ UNCHANGED <<clone, memories>>
\* A memory is written with the identity its worktree was discovered to have.
Remember(w, answers) ==
    /\ Cardinality(memories) < MaxMemories
    /\ memories' = memories \cup {[id |-> Identity(w, answers), whole |-> answers = Everything,
                                   clone |-> clone[w], origin |-> origin[clone[w]]]}
    /\ UNCHANGED <<clone, origin>>

Init == /\ clone = [w \in Root |-> None] /\ origin = [c \in Clone |-> None]
        /\ memories = {}
Next == \/ \E w \in Root, c \in Clone : AddWorktree(w, c)
        \/ \E c \in Clone, r \in Remotes \cup {None} : SetOrigin(c, r)
        \/ \E w \in Worktrees, a \in Answers : Remember(w, a)
Spec == Init /\ [][Next]_vars

----------------------------------------------------------------------------
(* Properties *)

\* What an origin names: a repository of a host, or of this machine if it is a
\* File URL, whatever the spelling.
Hosted(r) == r # None /\ r.form \in {"https", "ssh", "scp", "file_host", "File"}
Named(r) == <<r.form \in {"file_host", "File"}, IF r.form = "File" THEN None ELSE r.host, r.path>>
SameOrigin(r, s) == Hosted(r) /\ Hosted(s) /\ Named(r) = Named(s)

\* A memory is never found in a repository that is neither the clone it was
\* written in nor one with the same hosted origin: whatever commands fail, when
\* it was written or now, and whatever origins were set since (the test
\* identical_relative_remotes_do_not_collide_across_local_repositories).
NoStrangersMemories ==
    \A m \in memories, w \in Worktrees : \A answers \in Answers :
        m.id = Identity(w, answers) =>
            clone[w] = m.clone \/ SameOrigin(origin[clone[w]], m.origin)

\* A memory is found again in every worktree of its clone, and in every clone
\* of the same hosted repository however its origin is spelled, unless the
\* clone went from one to the other meanwhile or a command failed.
FoundAgain ==
    \A m \in memories, w \in Worktrees :
        /\ m.whole
        /\ \/ SameOrigin(origin[clone[w]], m.origin)
           \/ clone[w] = m.clone /\ ~Hosted(origin[clone[w]]) /\ ~Hosted(m.origin)
        => m.id = Identity(w, Everything)
=============================================================================
