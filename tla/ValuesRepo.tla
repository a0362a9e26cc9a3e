------------------------------ MODULE ValuesRepo ------------------------------
(***************************************************************************)
(* The values repository and its CI: a branch edits the files under        *)
(* sites/, scripts/validate_changed_clusters.py validates what the edits   *)
(* can have affected, and a branch that passes is merged.  Whatever lies   *)
(* on main is rendered and sent to the API.                                *)
(*                                                                         *)
(* A path is the sequence of its parts; a tree gives each path a file's    *)
(* contents, and a directory exists while a file lies in it, as in git.    *)
(* The suffix of a values file is left out: a cluster's path ends in the   *)
(* cluster.                                                                *)
(***************************************************************************)
EXTENDS ValuesRules, WireForms, FiniteSets

CONSTANTS
    Sites, Mces, Clusters,
    Texts,          \* path |-> what may be written there
    Trees,          \* what main may hold to begin with
    MaxEdits,       \* edits of one branch
    None            \* no filter

VARIABLES
    main,       \* the tree that is deployed
    head,       \* the tree of the branch under review
    renamed,    \* paths whose deletion git shows as one half of a rename
    edits,      \* how many edits the branch has made
    merged      \* whether it has been merged

vars == <<main, head, renamed, edits, merged>>

-----------------------------------------------------------------------------
(* Paths *)

Config == <<"sites", "configValues.yaml">>
SiteValues(s) == <<"sites", s, "values.yaml">>
MceValues(s, m) == <<"sites", s, "mces", m, "values.yaml">>
ClusterFile(s, m, c) == <<"sites", s, "mces", m, "hostedClusters", c>>

Paths ==
    {Config} \cup {SiteValues(s) : s \in Sites}
      \cup {MceValues(s, m) : s \in Sites, m \in Mces}
      \cup {ClusterFile(s, m, c) : s \in Sites, m \in Mces, c \in Clusters}

\* What a path may hold: nothing, what is not YAML, or a mapping.
Contents(file) == file \notin {Missing, Broken} => ValuesFile(file)

ASSUME RepoAssumption ==
    /\ None \notin Sites \cup Mces \cup Clusters
    /\ \A c \in Clusters : UpperOf[c] \in DOMAIN FailoverOf
    /\ \A p \in Paths : \A file \in Texts[p] : Contents(file)
    /\ \A tree \in Trees :
          /\ tree = [p \in Paths |-> tree[p]]
          /\ \A p \in Paths : Contents(tree[p])

IsDir(tree, dir) ==
    \E p \in Paths : tree[p] # Missing /\ Len(p) > Len(dir)
                       /\ SubSeq(p, 1, Len(dir)) = dir

-----------------------------------------------------------------------------
(* validate_dhcp_values.py *)

\* validate_yaml_file, with allow_empty.
Parses(file) == file \notin {Missing, Broken}

validate_site(tree, s) ==
    /\ Parses(tree[SiteValues(s)])
    /\ IsDir(tree, <<"sites", s, "mces">>)

validate_mce(tree, s, m) ==
    /\ Parses(tree[MceValues(s, m)])
    /\ IsDir(tree, <<"sites", s, "mces", m, "hostedClusters">>)

validate_hosted_cluster(file) == Parses(file) /\ DOMAIN file # {}

Merged(tree, s, m, c) ==
    merge_yaml_files(tree[Config], tree[SiteValues(s)], tree[MceValues(s, m)],
                     tree[ClusterFile(s, m, c)])

validate_cluster(tree, s, m, c) ==
    LET file == tree[ClusterFile(s, m, c)]
    IN  validate_hosted_cluster(file)
          /\ _validate_dhcp_content(c, file, Merged(tree, s, m, c))

\* run_validation exits 0: no error in the global file, nor in anything the
\* filters let through.  What is below a part with an error is not looked at.
run_validation(tree, filter) ==
    /\ Parses(tree[Config])
    /\ \A s \in Sites :
         IsDir(tree, <<"sites", s>>) /\ filter.site \in {None, s} =>
           /\ validate_site(tree, s)
           /\ \A m \in Mces :
                IsDir(tree, <<"sites", s, "mces", m>>) /\ filter.mce \in {None, m} =>
                  /\ validate_mce(tree, s, m)
                  /\ \A c \in Clusters :
                       tree[ClusterFile(s, m, c)] # Missing
                           /\ filter.cluster \in {None, c}
                         => validate_cluster(tree, s, m, c)

-----------------------------------------------------------------------------
(* validate_changed_clusters.py *)

_Target(s, m, c) == [site |-> s, mce |-> m, cluster |-> c]

Everything == _Target(None, None, None)

\* (Wrong on purpose.)
Wrong_deletions_unlisted == {p \in Paths : main[p] # head[p] /\ head[p] # Missing}

\* `git diff --name-only base...HEAD`: of a rename only the new name is listed.
_get_changed_files == {p \in Paths : main[p] # head[p]} \ renamed

\* (Wrong on purpose.)
Wrong_target(parts) ==
    CASE Len(parts) = 3 /\ parts[3] = "values.yaml" ->
           {_Target(parts[2], None, None)}
      [] Len(parts) = 6 /\ parts[5] = "hostedClusters" ->
           {_Target(parts[2], parts[4], parts[6])}
      [] OTHER -> {}

\* What a changed path selects, if it is not the global file.
target(parts) ==
    CASE Len(parts) = 3 /\ parts[3] = "values.yaml" ->
           {_Target(parts[2], None, None)}
      [] Len(parts) = 5 /\ parts[3] = "mces" /\ parts[5] = "values.yaml" ->
           {_Target(parts[2], parts[4], None)}
      [] Len(parts) = 6 /\ parts[3] = "mces" /\ parts[5] = "hostedClusters" ->
           {_Target(parts[2], parts[4], parts[6])}
      [] OTHER -> {}

_resolve_targets(changed) ==
    LET targets == UNION {target(p) : p \in changed}
    IN  IF Config \in changed THEN {Everything}
        ELSE {t \in targets :
                /\ t.mce # None => _Target(t.site, None, None) \notin targets
                /\ t.cluster # None => _Target(t.site, t.mce, None) \notin targets}

\* main() exits 0, which it also does when nothing is selected.
Passes == \A t \in _resolve_targets(_get_changed_files) : run_validation(head, t)

-----------------------------------------------------------------------------
(* The specification *)

Init ==
    /\ main \in Trees
    /\ run_validation(main, Everything)
    /\ head = main
    /\ renamed = {}
    /\ edits = 0
    /\ merged = FALSE

Edit ==
    /\ ~merged
    /\ edits < MaxEdits
    /\ edits' = edits + 1
    /\ UNCHANGED <<main, merged>>

\* What the tree `branch` has lost of main.
Deleted(branch) == {p \in Paths : main[p] # Missing /\ branch[p] = Missing}

\* A file is added, changed, or deleted (Missing is written).  A second edit
\* of the same file would leave the same diff as one.  git takes a deleted file
\* for renamed when one that was added, here or outside these paths, is like
\* it: any of them may be.
Write(p, file) ==
    /\ Edit
    /\ head[p] = main[p]
    /\ head[p] # file
    /\ head' = [head EXCEPT ![p] = file]
    /\ renamed' \in SUBSET Deleted(head')

Land ==
    /\ ~merged
    /\ edits > 0
    /\ Passes
    /\ main' = head
    /\ merged' = TRUE
    /\ UNCHANGED <<head, renamed, edits>>

Next ==
    \/ \E p \in Paths : \E file \in Texts[p] : Write(p, file)
    \/ Land

Spec == Init /\ [][Next]_vars

-----------------------------------------------------------------------------
(* Properties *)

Hosted == Sites \X Mces \X Clusters

File(tree, h) == tree[ClusterFile(h[1], h[2], h[3])]

\* The dhcp_values of a hosted cluster, merged.
ValuesOf(tree, h) == Get(Merged(tree, h[1], h[2], h[3]), "dhcp_values")

Payload(tree, h) ==
    DhcpScopePayload(ValuesOf(tree, h)["network"], Rendered(h[3], ValuesOf(tree, h)))

AppliesTo(tree, h) ==
    /\ Get(ValuesOf(tree, h), "network") # Null
    /\ Accepts(ValuesOf(tree, h)["network"], Rendered(h[3], ValuesOf(tree, h)))

\* CI looks only at the clusters a branch can have affected, and yet main as a
\* whole stays valid, unless git saw a rename in the branch: no edit of a shared
\* file slips past the clusters, of whatever site, that inherit from it
\* (validate_changed_clusters.py:4-10).
MainStaysValid == (merged => renamed = {}) => run_validation(main, Everything)

\* The branch has been merged in which git saw a file renamed that the cluster
\* inherits from.
Slipped(h) ==
    merged /\ renamed \cap {Config, SiteValues(h[1]), MceValues(h[1], h[2])} # {}

\* A rename hides the old name from the selection, and yet it takes one of a
\* file that a cluster inherits from to leave that cluster invalid on main: its
\* own files, and the renames of others, are seen through.
OnlyMovesSlip ==
    \A h \in Hosted :
        File(main, h) # Missing /\ ~Slipped(h)
            => validate_cluster(main, h[1], h[2], h[3])

\* A branch that passes has had every cluster validated that inherits from a
\* file it changes (validate_changed_clusters.py:4-5: "a change to a parent
\* values.yaml triggers validation of every cluster that inherits from it").
InheritorsValidated ==
    Passes =>
        \A h \in Hosted :
            /\ File(head, h) # Missing
            /\ \E p \in {Config, SiteValues(h[1]), MceValues(h[1], h[2])} :
                  main[p] # head[p]
            => validate_cluster(head, h[1], h[2], h[3])

\* What has passed CI the API accepts, and as the very payload CI resolved it
\* to (docs/dhcp_values.md:176: "a values file that passes CI renders and
\* applies identically").
AppliesAsValidated ==
    \A h \in Hosted : Managed(File(main, h)) /\ ~Slipped(h) =>
        /\ AppliesTo(main, h)
        /\ Payload(main, h) = ciPayload(kwargs(h[3], ValuesOf(main, h)))

\* CI turns down no file the API would take, but for one that leaves out what
\* the script insists on or lists its exclusions out of order.
RefusesNothingElse ==
    \A h \in Hosted :
        LET dv == ValuesOf(head, h)
        IN  Managed(File(head, h)) /\ dv # Null =>
              (required_paths(dv) /\ AppliesTo(head, h)
                   /\ ascending(GetList(dv, "exclusions"))
                 => _validate_dhcp_content(h[3], File(head, h),
                                           Merged(head, h[1], h[2], h[3])))

\* A scope that was applied reads back as it was written, however the server
\* serialises it, and its exclusions in the order of the values file; sent
\* back, it is accepted and changes nothing (docs/dhcp_values.md:543: "the GET
\* response from the API must exactly match the rendered Helm payload").
ReadsBackUnchanged ==
    \A h \in Hosted : Managed(File(main, h)) /\ ~Slipped(h) =>
        LET p == Payload(main, h)
            listed == GetList(ValuesOf(main, h), "exclusions")
        IN  /\ Readings(p) = {p}
            /\ \A i, j \in DOMAIN listed : i < j => listed[i][2] < listed[j][1]
            /\ Accepts(p.scope, body(p, listed))
            /\ DhcpScopePayload(p.scope, body(p, listed)) = p
=============================================================================
