--------------------------- MODULE ValuesRepoProofs ---------------------------
(***************************************************************************)
(* What CI promises of the values repository, for any sites, MCEs and      *)
(* clusters, any texts of their files and any number of edits: main as a   *)
(* whole stays valid though CI looks only at what a branch can have        *)
(* affected, unless git sees a rename in it; whatever git sees, a cluster  *)
(* stays valid of which no inherited file is renamed; and what is valid    *)
(* the API accepts, as the payload CI resolved it to.                      *)
(***************************************************************************)
EXTENDS ValuesRepo, SequenceTheorems, TLAPS

-----------------------------------------------------------------------------
(* Paths, and what they select *)

\* `p` lies somewhere below the directory `dir`.
Under(p, dir) == Len(p) > Len(dir) /\ SubSeq(p, 1, Len(dir)) = dir

\* Each path is the global file or a file of a site, an MCE or a cluster.
LEMMA KindsOfPath ==
    ASSUME NEW p \in Paths
    PROVE  \/ p = Config
           \/ \E s \in Sites : p = SiteValues(s)
           \/ \E s \in Sites, m \in Mces : p = MceValues(s, m)
           \/ \E s \in Sites, m \in Mces, c \in Clusters : p = ClusterFile(s, m, c)
BY DEF Paths

\* A values file of a site selects the site.
LEMMA TargetOfSite ==
    ASSUME NEW s
    PROVE  target(SiteValues(s)) = {_Target(s, None, None)}
<1>1. /\ Len(SiteValues(s)) = 3 /\ Len(SiteValues(s)) # 5 /\ Len(SiteValues(s)) # 6
      /\ SiteValues(s)[2] = s /\ SiteValues(s)[3] = "values.yaml"
  BY DEF SiteValues
<1> QED
  BY <1>1, Zenon DEF target

\* A values file of an MCE selects the MCE.
LEMMA TargetOfMce ==
    ASSUME NEW s, NEW m
    PROVE  target(MceValues(s, m)) = {_Target(s, m, None)}
<1>1. /\ Len(MceValues(s, m)) = 5 /\ Len(MceValues(s, m)) # 3 /\ Len(MceValues(s, m)) # 6
      /\ MceValues(s, m)[2] = s /\ MceValues(s, m)[4] = m
      /\ MceValues(s, m)[3] = "mces" /\ MceValues(s, m)[5] = "values.yaml"
  BY DEF MceValues
<1> QED
  BY <1>1, Zenon DEF target

\* The file of a cluster selects the cluster.
LEMMA TargetOfCluster ==
    ASSUME NEW s, NEW m, NEW c
    PROVE  target(ClusterFile(s, m, c)) = {_Target(s, m, c)}
<1> DEFINE p == ClusterFile(s, m, c)
<1>1. /\ Len(p) = 6 /\ Len(p) # 3 /\ Len(p) # 5
      /\ p[2] = s /\ p[4] = m /\ p[6] = c
      /\ p[3] = "mces" /\ p[5] = "hostedClusters"
  BY DEF ClusterFile
<1> QED
  BY <1>1, Zenon DEF target

\* The parts of a path.
Names == {"sites", "configValues.yaml", "values.yaml", "mces", "hostedClusters"}

Parts == Names \cup Sites \cup Mces \cup Clusters

\* The literal parts are parts.
LEMMA NamesAreParts ==
    /\ "sites" \in Parts /\ "configValues.yaml" \in Parts /\ "values.yaml" \in Parts
    /\ "mces" \in Parts /\ "hostedClusters" \in Parts
    /\ Sites \subseteq Parts /\ Mces \subseteq Parts /\ Clusters \subseteq Parts
BY DEF Parts, Names

\* Every path is a sequence of parts.
LEMMA PathParts == Paths \subseteq Seq(Parts)
<1>1. Config \in Seq(Parts)
  BY NamesAreParts DEF Config
<1>2. \A s \in Sites : SiteValues(s) \in Seq(Parts)
  BY NamesAreParts DEF SiteValues
<1>3. \A s \in Sites, m \in Mces : MceValues(s, m) \in Seq(Parts)
  BY NamesAreParts DEF MceValues
<1>4. \A s \in Sites, m \in Mces, c \in Clusters : ClusterFile(s, m, c) \in Seq(Parts)
  BY NamesAreParts DEF ClusterFile
<1> QED
  BY KindsOfPath, <1>1, <1>2, <1>3, <1>4

\* The beginning of a path.
LEMMA FirstParts ==
    ASSUME NEW p \in Seq(Parts), NEW n \in Nat, n <= Len(p)
    PROVE  /\ SubSeq(p, 1, n) \in Seq(Parts)
           /\ Len(SubSeq(p, 1, n)) = n
           /\ \A i \in 1 .. n : SubSeq(p, 1, n)[i] = p[i]
<1>1. Len(p) \in Nat
  OBVIOUS
<1>2. \A i \in 1 .. n : p[i] \in Parts
  BY <1>1
<1>3. /\ SubSeq(p, 1, n) \in Seq(Parts)
      /\ Len(SubSeq(p, 1, n)) = IF 1 <= n THEN n - 1 + 1 ELSE 0
      /\ \A i \in 1 .. n - 1 + 1 : SubSeq(p, 1, n)[i] = p[1 + i - 1]
  BY <1>2, SubSeqProperties
<1> QED
  BY <1>3

\* A path below a directory has the directory's parts first.
LEMMA UnderParts ==
    ASSUME NEW p \in Paths, NEW dir \in Seq(Parts), Under(p, dir)
    PROVE  /\ Len(p) > Len(dir)
           /\ \A i \in 1 .. Len(dir) : p[i] = dir[i]
<1>1. p \in Seq(Parts)
  BY PathParts
<1>2. Len(p) > Len(dir) /\ SubSeq(p, 1, Len(dir)) = dir
  BY DEF Under
<1>3. ASSUME NEW i \in 1 .. Len(dir)
      PROVE  SubSeq(p, 1, Len(dir))[i] = p[i]
  BY <1>1, <1>2, FirstParts
<1> QED
  BY <1>2, <1>3

\* The files of a site, its MCEs and their clusters.
OfSite(s) ==
    {SiteValues(s)} \cup {MceValues(s, m) : m \in Mces}
      \cup {ClusterFile(s, m, c) : m \in Mces, c \in Clusters}

\* The files of an MCE and its clusters.
OfMce(s, m) == {MceValues(s, m)} \cup {ClusterFile(s, m, c) : c \in Clusters}

\* What lies below the directory of a site is of the site.
LEMMA UnderSite ==
    ASSUME NEW p \in Paths, NEW s, NEW dir \in Seq(Parts),
           Len(dir) >= 2, dir[2] = s, Under(p, dir)
    PROVE  p \in OfSite(s)
<1>1. p[2] = s
  BY UnderParts
<1>2. p # Config
  <2>1. Len(p) # 2
    <3>1. Len(p) > Len(dir) /\ Len(p) \in Nat /\ Len(dir) \in Nat
      BY UnderParts, PathParts
    <3> QED
      BY <3>1
  <2>2. Len(Config) = 2
    BY DEF Config
  <2> QED
    BY <2>1, <2>2, Zenon
<1>3. ASSUME NEW t \in Sites, p = SiteValues(t)
      PROVE  t = s
  BY <1>1, <1>3 DEF SiteValues
<1>4. ASSUME NEW t \in Sites, NEW m \in Mces, p = MceValues(t, m)
      PROVE  t = s
  BY <1>1, <1>4 DEF MceValues
<1>5. ASSUME NEW t \in Sites, NEW m \in Mces, NEW c \in Clusters, p = ClusterFile(t, m, c)
      PROVE  t = s
  BY <1>1, <1>5 DEF ClusterFile
<1> QED
  BY <1>2, <1>3, <1>4, <1>5, KindsOfPath DEF OfSite

\* What lies below the directory of an MCE is of the MCE.
LEMMA UnderMce ==
    ASSUME NEW p \in Paths, NEW s, NEW m, NEW dir \in Seq(Parts),
           Len(dir) >= 4, dir[2] = s, dir[4] = m, Under(p, dir)
    PROVE  p \in OfMce(s, m)
<1>1. Len(p) > 4 /\ p[2] = s /\ p[4] = m
  BY UnderParts
<1>2. p # Config
  BY <1>1 DEF Config
<1>3. ASSUME NEW t \in Sites
      PROVE  p # SiteValues(t)
  BY <1>1 DEF SiteValues
<1>4. ASSUME NEW t \in Sites, NEW n \in Mces, p = MceValues(t, n)
      PROVE  t = s /\ n = m
  BY <1>1, <1>4 DEF MceValues
<1>5. ASSUME NEW t \in Sites, NEW n \in Mces, NEW c \in Clusters, p = ClusterFile(t, n, c)
      PROVE  t = s /\ n = m
  BY <1>1, <1>5 DEF ClusterFile
<1> QED
  BY <1>2, <1>3, <1>4, <1>5, KindsOfPath DEF OfMce

\* Two trees that agree on what is below a directory both have it or neither.
LEMMA SameDirectory ==
    ASSUME NEW old, NEW new, NEW dir,
           \A p \in Paths : Under(p, dir) => new[p] = old[p]
    PROVE  IsDir(new, dir) <=> IsDir(old, dir)
BY DEF IsDir, Under

\* A site has a directory where one of its MCEs has, and the MCE where one of
\* its clusters has a file.
LEMMA ParentDirectories ==
    ASSUME NEW tree, NEW s \in Sites, NEW m \in Mces
    PROVE  /\ IsDir(tree, <<"sites", s, "mces", m>>) => IsDir(tree, <<"sites", s>>)
           /\ \A c \in Clusters :
                tree[ClusterFile(s, m, c)] # Missing =>
                   IsDir(tree, <<"sites", s, "mces", m>>)
<1> DEFINE site == <<"sites", s>>
           mce == <<"sites", s, "mces", m>>
<1>1. site \in Seq(Parts) /\ mce \in Seq(Parts)
  BY NamesAreParts
<1>2. /\ Len(site) = 2 /\ site[1] = "sites" /\ site[2] = s
      /\ Len(mce) = 4 /\ mce[1] = "sites" /\ mce[2] = s
      /\ mce[3] = "mces" /\ mce[4] = m
  OBVIOUS
<1> HIDE DEF site, mce
<1>3. ASSUME NEW p \in Paths, Under(p, mce)
      PROVE  Under(p, site)
  <2>1. /\ Len(p) > 4 /\ p \in Seq(Parts)
        /\ p[1] = "sites" /\ p[2] = s
    BY SMTT(30), <1>1, <1>2, <1>3, UnderParts, PathParts
  <2>2. SubSeq(p, 1, 2) = site
    <3>1. /\ SubSeq(p, 1, 2) \in Seq(Parts) /\ Len(SubSeq(p, 1, 2)) = 2
          /\ \A i \in 1 .. 2 : SubSeq(p, 1, 2)[i] = p[i]
      BY <2>1, FirstParts
    <3>2. \A i \in 1 .. 2 : SubSeq(p, 1, 2)[i] = site[i]
      BY <3>1, <2>1, <1>2
    <3> QED
      BY <3>1, <3>2, <1>1, <1>2, SeqEqual
  <2> QED
    BY <2>1, <2>2, <1>2 DEF Under
<1>4. IsDir(tree, mce) => IsDir(tree, site)
  BY <1>3 DEF IsDir, Under
<1>5. ASSUME NEW c \in Clusters, tree[ClusterFile(s, m, c)] # Missing
      PROVE  IsDir(tree, mce)
  <2> DEFINE p == ClusterFile(s, m, c)
  <2>1. /\ p \in Paths /\ Len(p) = 6
        /\ p[1] = "sites" /\ p[2] = s /\ p[3] = "mces" /\ p[4] = m
    BY DEF ClusterFile, Paths
  <2>2. p \in Seq(Parts) /\ Len(p) = 6
    BY <2>1, PathParts
  <2> HIDE DEF p
  <2>3. SubSeq(p, 1, 4) = mce
    <3>1. /\ SubSeq(p, 1, 4) \in Seq(Parts) /\ Len(SubSeq(p, 1, 4)) = 4
          /\ \A i \in 1 .. 4 : SubSeq(p, 1, 4)[i] = p[i]
      <4>1. 4 \in Nat /\ 4 <= Len(p) /\ p \in Seq(Parts)
        BY <2>2
      <4>2. ASSUME NEW n \in Nat, n <= Len(p)
            PROVE  /\ SubSeq(p, 1, n) \in Seq(Parts) /\ Len(SubSeq(p, 1, n)) = n
                   /\ \A i \in 1 .. n : SubSeq(p, 1, n)[i] = p[i]
        BY <4>1, <4>2, FirstParts, Zenon
      <4> QED
        BY <4>1, <4>2
    <3>2. \A i \in 1 .. 4 : SubSeq(p, 1, 4)[i] = mce[i]
      BY <3>1, <2>1, <1>2
    <3> QED
      BY <3>1, <3>2, <1>1, <1>2, SeqEqual
  <2>4. Len(p) > Len(mce) /\ SubSeq(p, 1, Len(mce)) = mce
    BY <2>1, <2>3, <1>2
  <2>5. tree[p] # Missing
    BY <1>5 DEF p
  <2> QED
    BY <2>1, <2>4, <2>5 DEF IsDir
<1> QED
  BY <1>4, <1>5 DEF site, mce

-----------------------------------------------------------------------------
(* Nothing that a branch affects is left unvalidated                        *)

\* A target is its three parts.
LEMMA TargetParts ==
    ASSUME NEW s, NEW m, NEW c
    PROVE  /\ _Target(s, m, c).site = s
           /\ _Target(s, m, c).mce = m
           /\ _Target(s, m, c).cluster = c
BY DEF _Target

\* Of the targets of a change one that covers them is kept.
LEMMA CoarserIsKept ==
    ASSUME NEW changed, Config \notin changed, NEW p \in changed,
           NEW s, NEW m, NEW c, target(p) = {_Target(s, m, c)}
    PROVE  \E t \in _resolve_targets(changed) :
              t.site = s /\ t.mce \in {None, m} /\ t.cluster \in {None, c}
<1> DEFINE targets == UNION {target(q) : q \in changed}
           Kept(t) == /\ t.mce # None => _Target(t.site, None, None) \notin targets
                      /\ t.cluster # None => _Target(t.site, t.mce, None) \notin targets
<1>1. _Target(s, m, c) \in targets
  OBVIOUS
<1>2. \A t \in targets : Kept(t) => t \in _resolve_targets(changed)
  BY DEF _resolve_targets
<1> HIDE DEF targets
<1>3. CASE _Target(s, None, None) \in targets
  <2>1. Kept(_Target(s, None, None))
    BY TargetParts
  <2> QED
    BY <1>3, <2>1, <1>2, TargetParts
<1>4. CASE _Target(s, None, None) \notin targets /\ _Target(s, m, None) \in targets
  <2>1. Kept(_Target(s, m, None))
    BY <1>4, TargetParts
  <2> QED
    BY <1>4, <2>1, <1>2, TargetParts
<1>5. CASE _Target(s, None, None) \notin targets /\ _Target(s, m, None) \notin targets
  <2>1. Kept(_Target(s, m, c))
    BY <1>5, TargetParts
  <2> QED
    BY <1>1, <2>1, <1>2, TargetParts
<1> QED
  BY <1>3, <1>4, <1>5

\* A branch that passes, and in which git sees no rename.
Passing == renamed = {} /\ Passes

\* What the branch changes, as far as it is listed.
Changed == {p \in Paths : main[p] # head[p]} \ renamed

\* A change of the global file selects everything.
LEMMA GlobalSelectsAll ==
    ASSUME Passes, Config \in Changed
    PROVE  run_validation(head, Everything)
<1>1. _resolve_targets(_get_changed_files) = {Everything}
  BY DEF _resolve_targets, _get_changed_files, Changed
<1> QED
  BY <1>1 DEF Passes

\* A change of anything else selects what lies below it.
LEMMA ChangesAreValidated ==
    ASSUME Passes, Config \notin Changed, NEW p \in Changed,
           NEW s, NEW m, NEW c, target(p) = {_Target(s, m, c)}
    PROVE  \E t : /\ run_validation(head, t)
                  /\ t.site = s /\ t.mce \in {None, m} /\ t.cluster \in {None, c}
<1>1. _get_changed_files = Changed
  BY DEF _get_changed_files, Changed
<1> QED
  BY <1>1, CoarserIsKept DEF Passes

\* What a run of the validator says of a site, and what is in it.
SiteIsValid(tree, s) == IsDir(tree, <<"sites", s>>) => validate_site(tree, s)

MceIsValid(tree, s, m) ==
    IsDir(tree, <<"sites", s, "mces", m>>) => validate_mce(tree, s, m)

ClusterIsValid(tree, s, m, c) ==
    tree[ClusterFile(s, m, c)] # Missing => validate_cluster(tree, s, m, c)

\* What a run says of a site of its target.
LEMMA RunSaysOfSite ==
    ASSUME NEW tree, NEW t, run_validation(tree, t), NEW s \in Sites, t.site \in {None, s}
    PROVE  /\ SiteIsValid(tree, s)
           /\ \A m \in Mces : t.mce \in {None, m} =>
                /\ MceIsValid(tree, s, m)
                /\ \A c \in Clusters :
                      t.cluster \in {None, c} => ClusterIsValid(tree, s, m, c)
<1> DEFINE dir == <<"sites", s>>
           sub(m) == <<"sites", s, "mces", m>>
<1>1. /\ IsDir(tree, dir) => validate_site(tree, s)
      /\ \A m \in Mces : IsDir(tree, dir) /\ IsDir(tree, sub(m)) /\ t.mce \in {None, m} =>
           /\ validate_mce(tree, s, m)
           /\ \A c \in Clusters :
                tree[ClusterFile(s, m, c)] # Missing /\ t.cluster \in {None, c}
                  => validate_cluster(tree, s, m, c)
  BY DEF run_validation
<1>2. \A m \in Mces :
        /\ IsDir(tree, sub(m)) => IsDir(tree, dir)
        /\ \A c \in Clusters :
             tree[ClusterFile(s, m, c)] # Missing => IsDir(tree, sub(m))
  BY ParentDirectories
<1> QED
  BY <1>1, <1>2 DEF SiteIsValid, MceIsValid, ClusterIsValid

\* A tree is valid as a whole when every part of it is.
LEMMA ValidInParts ==
    ASSUME NEW tree
    PROVE  run_validation(tree, Everything) <=>
             /\ Parses(tree[Config])
             /\ \A s \in Sites :
                  /\ SiteIsValid(tree, s)
                  /\ \A m \in Mces :
                       /\ MceIsValid(tree, s, m)
                       /\ \A c \in Clusters : ClusterIsValid(tree, s, m, c)
<1>1. /\ Everything.site = None /\ Everything.mce = None /\ Everything.cluster = None
  BY DEF Everything, _Target
<1>2. ASSUME run_validation(tree, Everything)
      PROVE  /\ Parses(tree[Config])
             /\ \A s \in Sites :
                  /\ SiteIsValid(tree, s)
                  /\ \A m \in Mces :
                       /\ MceIsValid(tree, s, m)
                       /\ \A c \in Clusters : ClusterIsValid(tree, s, m, c)
  <2>1. Parses(tree[Config])
    BY <1>2 DEF run_validation
  <2> QED
    BY <1>1, <1>2, <2>1, RunSaysOfSite
<1>3. ASSUME /\ Parses(tree[Config])
             /\ \A s \in Sites :
                  /\ SiteIsValid(tree, s)
                  /\ \A m \in Mces :
                       /\ MceIsValid(tree, s, m)
                       /\ \A c \in Clusters : ClusterIsValid(tree, s, m, c)
      PROVE  run_validation(tree, Everything)
  BY <1>3 DEF run_validation, SiteIsValid, MceIsValid, ClusterIsValid
<1> QED
  BY <1>2, <1>3

\* The directories of a site are sequences of parts.
LEMMA SiteDirectories ==
    ASSUME NEW s \in Sites, NEW dir \in {<<"sites", s>>, <<"sites", s, "mces">>}
    PROVE  dir \in Seq(Parts) /\ Len(dir) >= 2 /\ dir[2] = s
<1>1. CASE dir = <<"sites", s>>
  BY <1>1, NamesAreParts
<1>2. CASE dir = <<"sites", s, "mces">>
  BY <1>2, NamesAreParts
<1> QED
  BY <1>1, <1>2

\* So are those of an MCE.
LEMMA MceDirectories ==
    ASSUME NEW s \in Sites, NEW m \in Mces,
           NEW dir \in {<<"sites", s, "mces", m>>,
                        <<"sites", s, "mces", m, "hostedClusters">>}
    PROVE  dir \in Seq(Parts) /\ Len(dir) >= 4 /\ dir[2] = s /\ dir[4] = m
<1>1. CASE dir = <<"sites", s, "mces", m>>
  BY <1>1, NamesAreParts
<1>2. CASE dir = <<"sites", s, "mces", m, "hostedClusters">>
  BY <1>2, NamesAreParts
<1> QED
  BY <1>1, <1>2

\* In a branch that passes, the sites are as valid as on main.
LEMMA SitesStayValid ==
    ASSUME Passing, Config \notin Changed, NEW s \in Sites,
           SiteIsValid(main, s)
    PROVE  SiteIsValid(head, s)
<1>1. CASE \E p \in Changed : p \in OfSite(s)
  <2>1. PICK p \in Changed : p \in OfSite(s)
    BY <1>1
  <2>2. \E n, c : target(p) = {_Target(s, n, c)}
    BY <2>1, TargetOfSite, TargetOfMce, TargetOfCluster DEF OfSite
  <2>3. \E t : run_validation(head, t) /\ t.site = s
    BY <2>2, ChangesAreValidated DEF Passing
  <2> QED
    BY <2>3, RunSaysOfSite
<1>2. CASE \A p \in Changed : p \notin OfSite(s)
  <2>1. \A p \in Paths : p \in OfSite(s) => head[p] = main[p]
    BY <1>2 DEF Changed, Passing
  <2>2. ASSUME NEW dir \in {<<"sites", s>>, <<"sites", s, "mces">>}
        PROVE  IsDir(head, dir) <=> IsDir(main, dir)
    <3>1. dir \in Seq(Parts) /\ Len(dir) >= 2 /\ dir[2] = s
      BY SiteDirectories
    <3>2. \A p \in Paths : Under(p, dir) => p \in OfSite(s)
      BY <3>1, UnderSite
    <3> QED
      BY <2>1, <3>2, SameDirectory
  <2>3. SiteValues(s) \in Paths /\ SiteValues(s) \in OfSite(s)
    BY DEF Paths, OfSite
  <2>4. head[SiteValues(s)] = main[SiteValues(s)]
    BY <2>1, <2>3
  <2> QED
    BY <2>2, <2>4 DEF SiteIsValid, validate_site
<1> QED
  BY <1>1, <1>2

\* So are its MCEs.
LEMMA McesStayValid ==
    ASSUME Passing, Config \notin Changed, NEW s \in Sites, NEW m \in Mces,
           MceIsValid(main, s, m)
    PROVE  MceIsValid(head, s, m)
<1>1. CASE SiteValues(s) \in Changed \/ \E p \in Changed : p \in OfMce(s, m)
  <2>1. \E p \in Changed : \E n, c : n \in {None, m} /\ target(p) = {_Target(s, n, c)}
    BY <1>1, TargetOfSite, TargetOfMce, TargetOfCluster DEF OfMce
  <2>2. \E t : run_validation(head, t) /\ t.site = s /\ t.mce \in {None, m}
    BY <2>1, ChangesAreValidated DEF Passing
  <2> QED
    BY <2>2, RunSaysOfSite
<1>2. CASE \A p \in Changed : p \notin OfMce(s, m)
  <2>1. \A p \in Paths : p \in OfMce(s, m) => head[p] = main[p]
    BY <1>2 DEF Changed, Passing
  <2>2. ASSUME NEW dir \in {<<"sites", s, "mces", m>>,
                            <<"sites", s, "mces", m, "hostedClusters">>}
        PROVE  IsDir(head, dir) <=> IsDir(main, dir)
    <3>1. dir \in Seq(Parts) /\ Len(dir) >= 4 /\ dir[2] = s /\ dir[4] = m
      BY ZenonT(30), MceDirectories
    <3>2. \A p \in Paths : Under(p, dir) => p \in OfMce(s, m)
      BY <3>1, UnderMce
    <3> QED
      BY <2>1, <3>2, SameDirectory
  <2>3. MceValues(s, m) \in Paths /\ MceValues(s, m) \in OfMce(s, m)
    BY DEF Paths, OfMce
  <2>4. head[MceValues(s, m)] = main[MceValues(s, m)]
    BY <2>1, <2>3
  <2> QED
    BY <2>2, <2>4 DEF MceIsValid, validate_mce
<1> QED
  BY <1>1, <1>2

\* A cluster that inherits from a file listed as changed is validated.
LEMMA ChangedClusterIsValidated ==
    ASSUME Passes, NEW s \in Sites, NEW m \in Mces, NEW c \in Clusters,
           \E p \in {Config, SiteValues(s), MceValues(s, m), ClusterFile(s, m, c)} :
              p \in Changed
    PROVE  ClusterIsValid(head, s, m, c)
<1>1. CASE Config \in Changed
  BY <1>1, GlobalSelectsAll, ValidInParts
<1>2. CASE Config \notin Changed
  <2>1. \E p \in Changed : p \in {SiteValues(s), MceValues(s, m), ClusterFile(s, m, c)}
    BY <1>2
  <2>2. \E p \in Changed : \E n, d : /\ n \in {None, m} /\ d \in {None, c}
                                     /\ target(p) = {_Target(s, n, d)}
    BY <2>1, TargetOfSite, TargetOfMce, TargetOfCluster
  <2>3. \E t : /\ run_validation(head, t) /\ t.site = s
               /\ t.mce \in {None, m} /\ t.cluster \in {None, c}
    BY <2>2, <1>2, ChangesAreValidated
  <2> QED
    BY <2>3, RunSaysOfSite
<1> QED
  BY <1>1, <1>2

\* And so are the clusters, as long as no file they inherit from is renamed.
LEMMA ClustersStayValid ==
    ASSUME Passes, renamed \subseteq {p \in Paths : head[p] = Missing},
           NEW s \in Sites, NEW m \in Mces, NEW c \in Clusters,
           renamed \cap {Config, SiteValues(s), MceValues(s, m)} = {},
           ClusterIsValid(main, s, m, c)
    PROVE  ClusterIsValid(head, s, m, c)
<1> DEFINE files == {Config, SiteValues(s), MceValues(s, m), ClusterFile(s, m, c)}
<1>1. CASE \E p \in files : p \in Changed
  BY <1>1, ChangedClusterIsValidated
<1>2. CASE ClusterFile(s, m, c) \in renamed
  BY <1>2 DEF ClusterIsValid
<1>3. CASE /\ \A p \in files : p \notin Changed
           /\ ClusterFile(s, m, c) \notin renamed
  <2>0. files \subseteq Paths /\ files \cap renamed = {}
    BY <1>3 DEF Paths
  <2>1. /\ head[Config] = main[Config]
        /\ head[SiteValues(s)] = main[SiteValues(s)]
        /\ head[MceValues(s, m)] = main[MceValues(s, m)]
        /\ head[ClusterFile(s, m, c)] = main[ClusterFile(s, m, c)]
    BY <1>3, <2>0 DEF Changed
  <2>2. Merged(head, s, m, c) = Merged(main, s, m, c)
    BY <2>1 DEF Merged
  <2> QED
    BY <2>1, <2>2 DEF ClusterIsValid, validate_cluster
<1> QED
  BY <1>1, <1>2, <1>3

\* A branch off a valid main that passes is valid as a whole.
LEMMA PassingBranchIsValid ==
    ASSUME Passing, run_validation(main, Everything)
    PROVE  run_validation(head, Everything)
<1>1. CASE Config \in Changed
  BY <1>1, GlobalSelectsAll DEF Passing
<1>2. CASE Config \notin Changed
  <2>1. Parses(head[Config])
    <3>1. head[Config] = main[Config]
      BY <1>2 DEF Changed, Paths, Passing
    <3> QED
      BY <3>1, ValidInParts
  <2>2. \A s \in Sites : SiteIsValid(head, s)
    BY <1>2, SitesStayValid, ValidInParts
  <2>3. \A s \in Sites, m \in Mces : MceIsValid(head, s, m)
    BY <1>2, McesStayValid, ValidInParts
  <2>4. \A s \in Sites, m \in Mces, c \in Clusters : ClusterIsValid(head, s, m, c)
    BY ClustersStayValid, ValidInParts DEF Passing
  <2> QED
    BY <2>1, <2>2, <2>3, <2>4, ValidInParts
<1> QED
  BY <1>1, <1>2

-----------------------------------------------------------------------------
(* Main stays valid                                                         *)

\* Main is valid as far as CI answers for it, and what git takes for renamed is
\* gone.
Sound ==
    /\ MainStaysValid
    /\ OnlyMovesSlip
    /\ renamed \subseteq {p \in Paths : head[p] = Missing}

\* A cluster of a valid tree is valid.
LEMMA ClusterOfValid ==
    ASSUME NEW tree, run_validation(tree, Everything), NEW h \in Hosted,
           File(tree, h) # Missing
    PROVE  validate_cluster(tree, h[1], h[2], h[3])
<1>1. h[1] \in Sites /\ h[2] \in Mces /\ h[3] \in Clusters
  BY DEF Hosted
<1> QED
  BY <1>1, ValidInParts DEF ClusterIsValid, File

\* A repository starts out valid.
LEMMA InitSound == Init => Sound
<1> SUFFICES ASSUME Init PROVE Sound
  OBVIOUS
<1>1. run_validation(main, Everything) /\ renamed = {}
  BY DEF Init
<1>2. OnlyMovesSlip
  BY <1>1, ClusterOfValid DEF OnlyMovesSlip
<1> QED
  BY <1>1, <1>2 DEF Sound, MainStaysValid

\* Only a merge changes main, and what it puts there has passed.
LEMMA NextSound == Sound /\ [Next]_vars => Sound'
<1> SUFFICES ASSUME Sound, [Next]_vars
             PROVE  Sound'
  OBVIOUS
<1>1. ASSUME NEW p \in Paths, NEW file \in Texts[p], Write(p, file)
      PROVE  Sound'
  <2>1. ~merged /\ merged' = merged /\ main' = main
    BY <1>1 DEF Write, Edit
  <2>2. MainStaysValid'
    BY <2>1 DEF Sound, MainStaysValid
  <2>3. OnlyMovesSlip'
    BY <2>1 DEF Sound, OnlyMovesSlip, Slipped, File
  <2>4. renamed' \subseteq {q \in Paths : head'[q] = Missing}
    BY <1>1 DEF Write, Deleted
  <2> QED
    BY <2>2, <2>3, <2>4 DEF Sound
<1>2. ASSUME Land
      PROVE  Sound'
  <2>1. /\ Passes /\ run_validation(main, Everything)
        /\ main' = head /\ head' = head /\ renamed' = renamed /\ merged' = TRUE
    BY <1>2 DEF Land, Sound, MainStaysValid
  <2>2. MainStaysValid'
    <3>1. renamed = {} => run_validation(head, Everything)
      BY <2>1, PassingBranchIsValid DEF Passing
    <3> QED
      BY <2>1, <3>1 DEF MainStaysValid
  <2>3. OnlyMovesSlip'
    <3>1. SUFFICES ASSUME NEW h \in Hosted, File(head, h) # Missing,
                          renamed \cap {Config, SiteValues(h[1]),
                                        MceValues(h[1], h[2])} = {}
                   PROVE  validate_cluster(head, h[1], h[2], h[3])
      BY <2>1 DEF OnlyMovesSlip, Slipped, File
    <3>2. h[1] \in Sites /\ h[2] \in Mces /\ h[3] \in Clusters
      BY DEF Hosted
    <3>3. ClusterIsValid(main, h[1], h[2], h[3])
      BY <2>1, <3>2, ValidInParts
    <3>4. ClusterIsValid(head, h[1], h[2], h[3])
      BY <2>1, <3>1, <3>2, <3>3, ClustersStayValid DEF Sound
    <3> QED
      BY <3>1, <3>4 DEF ClusterIsValid, File
  <2> QED
    BY <2>1, <2>2, <2>3 DEF Sound
<1>3. CASE UNCHANGED vars
  BY <1>3 DEF vars, Sound, MainStaysValid, OnlyMovesSlip, Slipped, File
<1> QED
  BY <1>1, <1>2, <1>3 DEF Next

\* Every reachable repository is sound.
LEMMA AlwaysSound == Spec => []Sound
BY InitSound, NextSound, PTL DEF Spec

\* MainStaysValid: whatever branches edit, for any sites, MCEs, clusters and
\* contents of the files, main as a whole stays valid though CI validates only
\* what a branch can have affected (validate_changed_clusters.py), as long as
\* git sees no rename in the branch that is merged.
THEOREM MainIsAlwaysValid == Spec => []MainStaysValid
<1>1. Sound => MainStaysValid
  BY DEF Sound
<1> QED
  BY AlwaysSound, <1>1, PTL

\* OnlyMovesSlip: whichever deletions git takes for renames, no cluster on main
\* is invalid unless a file that it inherits from is one of them
\* (validate_changed_clusters.py:46).
THEOREM OnlyMovesAreMissed == Spec => []OnlyMovesSlip
<1>1. Sound => OnlyMovesSlip
  BY DEF Sound
<1> QED
  BY AlwaysSound, <1>1, PTL

\* InheritorsValidated: in a branch that passes, and in which git sees no rename,
\* every cluster has been validated that inherits from a file the branch changes
\* (_resolve_targets).
THEOREM InheritorsAreValidated == Spec => [](renamed = {} => InheritorsValidated)
<1>1. renamed = {} => InheritorsValidated
  <2> SUFFICES ASSUME renamed = {}, Passes, NEW h \in Hosted, File(head, h) # Missing,
                      \E p \in {Config, SiteValues(h[1]), MceValues(h[1], h[2])} :
                         main[p] # head[p]
               PROVE  validate_cluster(head, h[1], h[2], h[3])
    BY DEF InheritorsValidated
  <2>1. h[1] \in Sites /\ h[2] \in Mces /\ h[3] \in Clusters
    BY DEF Hosted
  <2>2. \E p \in {Config, SiteValues(h[1]), MceValues(h[1], h[2])} : p \in Changed
    BY <2>1 DEF Changed, Paths
  <2>3. ClusterIsValid(head, h[1], h[2], h[3])
    BY <2>1, <2>2, ChangedClusterIsValidated
  <2> QED
    BY <2>3 DEF ClusterIsValid, File
<1> QED
  BY <1>1, PTL

-----------------------------------------------------------------------------
(* The merge keeps to the types                                             *)

\* What a mapping has under a key.
LEMMA LeafMergeAt ==
    ASSUME NEW base, NEW over, NEW key
    PROVE  /\ DOMAIN LeafMerge(base, over) = DOMAIN base \cup DOMAIN over
           /\ key \in DOMAIN over => LeafMerge(base, over)[key] = over[key]
           /\ key \in DOMAIN base \ DOMAIN over => LeafMerge(base, over)[key] = base[key]
BY DEF LeafMerge

\* So one level up, where mappings are merged in their turn.
LEMMA DhcpMergeAt ==
    ASSUME NEW base, NEW over, NEW key
    PROVE  /\ DOMAIN DhcpMerge(base, over) = DOMAIN base \cup DOMAIN over
           /\ key \in DOMAIN base \ DOMAIN over => DhcpMerge(base, over)[key] = base[key]
           /\ key \in DOMAIN over =>
                DhcpMerge(base, over)[key] =
                  IF key \in Mappings /\ over[key] # Null /\ Get(base, key) # Null
                  THEN LeafMerge(base[key], over[key]) ELSE over[key]
<1>1. DOMAIN DhcpMerge(base, over) = DOMAIN base \cup DOMAIN over
  BY Zenon DEF DhcpMerge, Merge
<1>2. ASSUME key \in DOMAIN base \cup DOMAIN over
      PROVE  DhcpMerge(base, over)[key] =
               CASE key \notin DOMAIN over -> base[key]
                 [] key \in DOMAIN over ->
                      IF key \in Mappings /\ over[key] # Null /\ Get(base, key) # Null
                      THEN LeafMerge(base[key], over[key]) ELSE over[key]
  BY <1>2, Zenon DEF DhcpMerge, Merge
<1> QED
  BY <1>1, <1>2, Zenon

\* And for whole files.
LEMMA DeepMergeKeys ==
    ASSUME NEW base, NEW over
    PROVE  DOMAIN _deep_merge(base, over) = DOMAIN base \cup DOMAIN over
BY Zenon DEF _deep_merge, Merge

\* Merged, failover values are failover values still.
LEMMA FailoverMergeType ==
    ASSUME NEW base, NEW over, FailoverValues(base), FailoverValues(over)
    PROVE  FailoverValues(LeafMerge(base, over))
<1> DEFINE f == LeafMerge(base, over)
<1>1. DOMAIN f = DOMAIN base \cup DOMAIN over
  BY LeafMergeAt
<1>2. DOMAIN f \subseteq FailoverFields
  BY <1>1 DEF FailoverValues
<1>3. ASSUME NEW key \in DOMAIN f
      PROVE  f[key] \in IF key \in PercentKeys THEN Int \cup {Null} ELSE Text \cup {Null}
  <2>1. \/ key \in DOMAIN over /\ f[key] = over[key]
        \/ key \in DOMAIN base /\ f[key] = base[key]
    <3>1. CASE key \in DOMAIN over
      BY <3>1, <1>1 DEF LeafMerge
    <3>2. CASE key \in DOMAIN base \ DOMAIN over
      BY <3>2, <1>1 DEF LeafMerge
    <3> QED
      BY <1>1, <3>1, <3>2
  <2> HIDE DEF f
  <2> QED
    BY <2>1 DEF FailoverValues
<1> QED
  BY <1>2, <1>3, Zenon DEF FailoverValues

\* So are the values of a file.
LEMMA DhcpMergeType ==
    ASSUME NEW base, NEW over, DhcpValues(base), DhcpValues(over)
    PROVE  DhcpValues(DhcpMerge(base, over))
<1> DEFINE dv == DhcpMerge(base, over)
<1>1. DOMAIN dv = DOMAIN base \cup DOMAIN over
  BY DhcpMergeAt
<1>2. ASSUME NEW key \in DOMAIN dv, key \notin Mappings
      PROVE  \/ key \in DOMAIN over /\ dv[key] = over[key]
             \/ key \in DOMAIN base /\ dv[key] = base[key]
  BY <1>1, <1>2, DhcpMergeAt
<1>3. "exclusions" \notin Mappings /\ "scopeName" \notin Mappings
  BY DEF Mappings
<1>4. \A key \in NumberKeys : key \notin Mappings
  BY DEF NumberKeys, Mappings
<1>5. ASSUME Get(dv, "failover") # Null
      PROVE  FailoverValues(dv["failover"])
  <2>1. "failover" \in DOMAIN dv /\ dv["failover"] # Null
    BY <1>5 DEF Get
  <2>2. CASE "failover" \notin DOMAIN over
    <3>1. "failover" \in DOMAIN base /\ dv["failover"] = base["failover"]
      BY <2>1, <2>2, <1>1, DhcpMergeAt
    <3> QED
      BY <3>1, <2>1 DEF DhcpValues, Get
  <2>3. CASE "failover" \in DOMAIN over
    <3>1. dv["failover"] =
            IF over["failover"] # Null /\ Get(base, "failover") # Null
            THEN LeafMerge(base["failover"], over["failover"]) ELSE over["failover"]
      <4> DEFINE key == "failover"
      <4>1. key \in Mappings
        BY DEF Mappings
      <4> HIDE DEF key
      <4>2. dv[key] = IF key \in Mappings /\ over[key] # Null /\ Get(base, key) # Null
                      THEN LeafMerge(base[key], over[key]) ELSE over[key]
        BY <2>3, DhcpMergeAt, ZenonT(30) DEF key
      <4> QED
        BY <4>1, <4>2 DEF key
    <3>2. over["failover"] # Null => FailoverValues(over["failover"])
      BY <2>3 DEF DhcpValues, Get
    <3>3. Get(base, "failover") # Null => FailoverValues(base["failover"])
      BY DEF DhcpValues
    <3> QED
      BY <3>1, <3>2, <3>3, <2>1, FailoverMergeType
  <2> QED
    BY <2>2, <2>3
<1> HIDE DEF dv
<1>6. \A key \in NumberKeys \cap DOMAIN dv : dv[key] \in Int \cup {Null}
  BY <1>2, <1>4 DEF DhcpValues
<1>7. "exclusions" \in DOMAIN dv => dv["exclusions"] \in Seq(Int \X Int) \cup {Null}
  BY <1>2, <1>3 DEF DhcpValues
<1>8. "scopeName" \in DOMAIN dv => dv["scopeName"] \in DOMAIN FailoverOf \cup {Null}
  BY <1>2, <1>3 DEF DhcpValues
<1> QED
  BY <1>5, <1>6, <1>7, <1>8 DEF DhcpValues, dv

\* What a merged file has for a key that nobody writes over.
LEMMA UnmergedValues ==
    ASSUME NEW base, NEW over, NEW key, key \in DOMAIN base \ DOMAIN over
    PROVE  _deep_merge(base, over)[key] = base[key]
<1>1. key \in DOMAIN base \cup DOMAIN over
  OBVIOUS
<1>2. _deep_merge(base, over)[key] =
        CASE key \notin DOMAIN over -> base[key]
          [] key \in DOMAIN over ->
               IF key \in Mappings /\ over[key] # Null /\ Get(base, key) # Null
               THEN DhcpMerge(base[key], over[key]) ELSE over[key]
  BY <1>1, Zenon DEF _deep_merge, Merge
<1> QED
  BY <1>2, Zenon

\* What a merged file has for dhcp_values.
LEMMA MergedValues ==
    ASSUME NEW base, NEW over, NEW key, key \in DOMAIN over, key \in Mappings
    PROVE  \/ /\ over[key] # Null /\ Get(base, key) # Null
              /\ _deep_merge(base, over)[key] = DhcpMerge(base[key], over[key])
           \/ _deep_merge(base, over)[key] = over[key]
<1>1. key \in DOMAIN base \cup DOMAIN over
  OBVIOUS
<1>2. _deep_merge(base, over)[key] =
        CASE key \notin DOMAIN over -> base[key]
          [] key \in DOMAIN over ->
               IF key \in Mappings /\ over[key] # Null /\ Get(base, key) # Null
               THEN DhcpMerge(base[key], over[key]) ELSE over[key]
  BY <1>1, Zenon DEF _deep_merge, Merge
<1> QED
  BY <1>2, Zenon

\* So are whole files.
LEMMA FileMergeType ==
    ASSUME NEW base, NEW over, ValuesFile(base), ValuesFile(over)
    PROVE  ValuesFile(_deep_merge(base, over))
<1> DEFINE file == _deep_merge(base, over)
           key == "dhcp_values"
<1>1. DOMAIN file = DOMAIN base \cup DOMAIN over
  BY DeepMergeKeys
<1>2. key \in DOMAIN base \ DOMAIN over => file[key] = base[key]
  BY UnmergedValues
<1>3. key \in Mappings
  BY DEF Mappings
<1>4. key \in DOMAIN over =>
        \/ /\ over[key] # Null /\ Get(base, key) # Null
           /\ file[key] = DhcpMerge(base[key], over[key])
        \/ file[key] = over[key]
  BY <1>3, MergedValues
<1>5. /\ Get(base, key) # Null => DhcpValues(base[key])
      /\ Get(over, key) # Null => DhcpValues(over[key])
  BY DEF ValuesFile
<1> HIDE DEF file, key
<1>6. ASSUME key \in DOMAIN file, file[key] # Null
      PROVE  DhcpValues(file[key])
  <2>1. CASE key \notin DOMAIN over
    BY <1>1, <1>2, <1>5, <1>6, <2>1 DEF Get
  <2>2. CASE key \in DOMAIN over
    <3>1. CASE file[key] = over[key]
      BY <2>2, <3>1, <1>5, <1>6 DEF Get
    <3>2. CASE /\ over[key] # Null /\ Get(base, key) # Null
               /\ file[key] = DhcpMerge(base[key], over[key])
      <4>1. DhcpValues(base[key]) /\ DhcpValues(over[key])
        BY <2>2, <3>2, <1>5 DEF Get
      <4> QED
        BY <4>1, <3>2, DhcpMergeType
    <3> QED
      BY <2>2, <3>1, <3>2, <1>4
  <2> QED
    BY <2>1, <2>2
<1>7. Get(file, key) # Null => DhcpValues(file[key])
  BY <1>6 DEF Get
<1> QED
  BY <1>7 DEF ValuesFile, file, key

\* A tree of files that are well-typed.
TypedTree(tree) ==
    /\ tree = [p \in Paths |-> tree[p]]
    /\ \A p \in Paths : Contents(tree[p])

\* Both trees are.
TypeOK == TypedTree(main) /\ TypedTree(head)

\* TypeOK: what is deployed and what is under review are trees of well-typed
\* files, whatever is edited.
LEMMA AlwaysTyped == Spec => []TypeOK
<1>1. Init => TypeOK
  BY RepoAssumption DEF Init, TypeOK, TypedTree
<1>2. TypeOK /\ [Next]_vars => TypeOK'
  <2> SUFFICES ASSUME TypeOK, [Next]_vars
               PROVE  TypeOK'
    OBVIOUS
  <2>1. ASSUME NEW p \in Paths, NEW file \in Texts[p], Write(p, file)
        PROVE  TypeOK'
    <3>1. head' = [head EXCEPT ![p] = file] /\ main' = main
      BY <2>1 DEF Write, Edit
    <3>2. Contents(file)
      BY RepoAssumption
    <3>3. DOMAIN head = Paths
      BY DEF TypeOK, TypedTree
    <3>4. head' = [q \in Paths |-> head'[q]]
      BY <3>1, <3>3
    <3>5. \A q \in Paths : head'[q] = IF q = p THEN file ELSE head[q]
      BY <3>1, <3>3
    <3>6. \A q \in Paths : Contents(head'[q])
      BY <3>5, <3>2 DEF TypeOK, TypedTree
    <3> QED
      BY <3>1, <3>4, <3>6 DEF TypeOK, TypedTree
  <2>2. CASE Land
    BY <2>2 DEF Land, TypeOK, TypedTree
  <2>3. CASE UNCHANGED vars
    BY <2>3 DEF vars, TypeOK, TypedTree
  <2> QED
    BY <2>1, <2>2, <2>3 DEF Next
<1> QED
  BY <1>1, <1>2, PTL DEF Spec

\* What is read of a well-typed file is well-typed.
LEMMA LoadedType ==
    ASSUME NEW file, Contents(file)
    PROVE  ValuesFile(Loaded(file))
<1>1. CASE file \in {Missing, Broken}
  <2>1. Loaded(file) = << >>
    BY <1>1 DEF Loaded
  <2>2. "dhcp_values" \notin DOMAIN << >>
    OBVIOUS
  <2> QED
    BY <2>1, <2>2 DEF ValuesFile, Get
<1>2. CASE file \notin {Missing, Broken}
  BY <1>2 DEF Loaded, Contents
<1> QED
  BY <1>1, <1>2

\* So are the merged values of a cluster.
LEMMA ValuesType ==
    ASSUME NEW tree, TypedTree(tree), NEW h \in Hosted, ValuesOf(tree, h) # Null
    PROVE  DhcpValues(ValuesOf(tree, h))
<1> DEFINE s == h[1]  m == h[2]  c == h[3]
<1>1. s \in Sites /\ m \in Mces /\ c \in Clusters
  BY DEF Hosted
<1>2. /\ Config \in Paths /\ SiteValues(s) \in Paths
      /\ MceValues(s, m) \in Paths /\ ClusterFile(s, m, c) \in Paths
  BY <1>1 DEF Paths
<1>3. /\ ValuesFile(Loaded(tree[Config])) /\ ValuesFile(Loaded(tree[SiteValues(s)]))
      /\ ValuesFile(Loaded(tree[MceValues(s, m)]))
      /\ ValuesFile(Loaded(tree[ClusterFile(s, m, c)]))
  BY <1>2, LoadedType DEF TypedTree
<1>4. ValuesFile(Merged(tree, s, m, c))
  BY <1>3, FileMergeType DEF Merged, merge_yaml_files
<1> QED
  BY <1>4 DEF ValuesOf, ValuesFile, Get

-----------------------------------------------------------------------------
(* The arguments of the CI's models and the body of the request             *)

\* Well-typed arguments, with a network.
Arguments(k) ==
    /\ k.network \in Int
    /\ k.subnetMask \in Int \cup {Null, Absent}
    /\ k.gateway \in Int \cup {Null, Absent}
    /\ k.startRange \in Int \cup {Null}
    /\ k.endRange \in Int \cup {Null}
    /\ k.exclusions \in Seq(Int \X Int)
    /\ k.failover # Null => FailoverValues(k.failover)

\* The body that is sent of them.
BodyOf(b, k) ==
    /\ b.scopeName = k.scopeName /\ b.subnetMask = k.subnetMask
    /\ b.startRange = k.startRange /\ b.endRange = k.endRange
    /\ b.leaseDurationDays = k.leaseDurationDays /\ b.gateway = k.gateway
    /\ b.dnsServers = k.dnsServers
    /\ b.nextServer = k.nextServer /\ b.bootFile = k.bootFile
    /\ b.exclusions = k.exclusions
    /\ b.failover = k.failover

\* The name of a relationship is derived from a name that has one.
LEMMA FailoverArgument ==
    ASSUME NEW c \in Clusters, NEW dv, DhcpValues(dv), ciFailover(c, dv) # Null
    PROVE  FailoverValues(ciFailover(c, dv))
<1> DEFINE f == Get(dv, "failover")
           named == [relationshipName |-> FailoverOf[ciScopeName(c, dv)]]
<1>1. ciScopeName(c, dv) \in DOMAIN FailoverOf
  BY RepoAssumption DEF ciScopeName, Get, DhcpValues
<1>2. FailoverValues(named)
  <2>1. FailoverOf[ciScopeName(c, dv)] \in Text
    BY <1>1, TextAssumption
  <2> QED
    BY <2>1 DEF FailoverValues, FailoverFields, PercentKeys
<1>3. f # Null => FailoverValues(f)
  BY DEF DhcpValues, Get
<1>4. \/ ciFailover(c, dv) = f
      \/ f # Null /\ ciFailover(c, dv) = LeafMerge(f, named)
  BY DEF ciFailover
<1> HIDE DEF f, named
<1> QED
  BY <1>2, <1>3, <1>4, FailoverMergeType

\* Well-typed values make well-typed arguments.
LEMMA ArgumentsType ==
    ASSUME NEW c \in Clusters, NEW dv, DhcpValues(dv), Get(dv, "network") # Null
    PROVE  Arguments(kwargs(c, dv)) /\ dv["network"] = kwargs(c, dv).network
<1> DEFINE k == kwargs(c, dv)
<1>1. /\ k.network = Get(dv, "network")
      /\ k.subnetMask = Written(dv, "subnetMask")
      /\ k.startRange = Get(dv, "startRange") /\ k.endRange = Get(dv, "endRange")
      /\ k.gateway = Written(dv, "gateway")
      /\ k.exclusions = GetList(dv, "exclusions")
      /\ k.failover = ciFailover(c, dv)
  BY DEF kwargs
<1> HIDE DEF k
<1>2. ASSUME NEW key \in NumberKeys
      PROVE  /\ Get(dv, key) \in Int \cup {Null}
             /\ Written(dv, key) \in Int \cup {Null, Absent}
  BY DEF DhcpValues, Get, Written
<1>3. k.network \in Int /\ dv["network"] = k.network
  <2>1. dv["network"] = Get(dv, "network")
    BY DEF Get
  <2>2. Get(dv, "network") \in Int \cup {Null}
    BY <1>2 DEF NumberKeys
  <2> QED
    BY <2>1, <2>2, <1>1
<1>4. /\ k.subnetMask \in Int \cup {Null, Absent}
      /\ k.gateway \in Int \cup {Null, Absent}
      /\ k.startRange \in Int \cup {Null}
      /\ k.endRange \in Int \cup {Null}
  BY <1>1, <1>2 DEF NumberKeys
<1>5. k.exclusions \in Seq(Int \X Int)
  <2>1. CASE Get(dv, "exclusions") = Null
    BY <2>1, <1>1 DEF GetList
  <2>2. CASE Get(dv, "exclusions") # Null
    BY <2>2, <1>1 DEF GetList, DhcpValues, Get
  <2> QED
    BY <2>1, <2>2
<1>6. k.failover # Null => FailoverValues(k.failover)
  BY <1>1, FailoverArgument
<1> QED
  BY <1>3, <1>4, <1>5, <1>6 DEF Arguments, k

\* What is rendered is the body of the arguments.
LEMMA RenderedBody ==
    ASSUME NEW c, NEW dv
    PROVE  BodyOf(Rendered(c, dv), kwargs(c, dv))
BY DEF BodyOf, Rendered, kwargs

\* Filled up, failover values are failover values still, and no null.
LEMMA FilledType ==
    ASSUME NEW f, FailoverValues(f)
    PROVE  /\ FailoverValues(ciFilled(f))
           /\ ciFilled(f) # Null
           /\ ciFilled(f) = [x \in DOMAIN ciFilled(f) |-> ciFilled(f)[x]]
           /\ \A x \in DOMAIN f : x \in DOMAIN ciFilled(f) /\ ciFilled(f)[x] = f[x]
<1> DEFINE defaults == [serverRole |-> Null, reservePercent |-> 0,
                        loadBalancePercent |-> Null]
           g == ciFilled(f)
<1>1. FailoverValues(defaults)
  BY DEF FailoverValues, FailoverFields, PercentKeys
<1>2. FailoverValues(g)
  <2> HIDE DEF defaults
  <2>1. g = LeafMerge(defaults, f)
    BY DEF ciFilled, defaults
  <2> QED
    BY <1>1, <2>1, FailoverMergeType
<1>3. g = [x \in DOMAIN g |-> g[x]]
  BY DEF ciFilled, LeafMerge
<1>4. \A x \in DOMAIN f : x \in DOMAIN g /\ g[x] = f[x]
  BY DEF ciFilled, LeafMerge
<1> HIDE DEF g
<1>5. g # Null
  <2>1. DOMAIN g \subseteq FailoverFields
    BY <1>2 DEF FailoverValues
  <2>2. \A x \in DOMAIN g : g[x] \in Text \cup Int \cup {Null}
    BY <1>2 DEF FailoverValues
  <2>3. g \in [DOMAIN g -> Text \cup Int \cup {Null}]
    BY <1>3, <2>2
  <2> QED
    BY <2>1, <2>3, TextAssumption
<1> QED
  BY <1>2, <1>3, <1>4, <1>5 DEF g

\* The two copies have the same defaults.
LEMMA DefaultsAgree ==
    ASSUME NEW f
    PROVE  filled(f) = ciFilled(f)
BY DEF filled, FailoverDefaults, ciFilled, LeafMerge

\* The two copies of the failover rules take the same values.
LEMMA FailoverRulesAgree ==
    ASSUME NEW f, FailoverValues(f)
    PROVE  /\ DhcpFailover(f) <=> _CiFailover(f)
           /\ _CiFailover(f) => enforce_mode_fields(filled(f)) = ciNormalizedFailover(f)
<1> DEFINE g == ciFilled(f)
<1>0. filled(f) = g
  BY DefaultsAgree
<1>1. CASE DOMAIN g # FailoverFields
  BY <1>0, <1>1 DEF DhcpFailover, _CiFailover
<1>2. CASE DOMAIN g = FailoverFields
  <2>1. DOMAIN g = {"serverRole", "reservePercent", "loadBalancePercent"} \cup DOMAIN f
    BY DEF ciFilled, LeafMerge
  <2>2. {"partnerServer", "relationshipName", "mode",
         "maxClientLeadTimeMinutes"} \subseteq DOMAIN f
    BY <1>2, <2>1 DEF FailoverFields
  <2>3. /\ g.partnerServer = f.partnerServer
        /\ g.relationshipName = f.relationshipName
        /\ g.mode = f.mode
        /\ g.maxClientLeadTimeMinutes = f.maxClientLeadTimeMinutes
    BY <2>2, FilledType
  <2> HIDE DEF g
  <2>4. /\ g.mode \in {"HotStandby", "LoadBalance"}
        /\ g.mode = "HotStandby" => g.serverRole # Null
        /\ g.mode = "LoadBalance" => g.loadBalancePercent # Null
        <=> \/ g.mode = "HotStandby" /\ g.serverRole # Null
            \/ g.mode = "LoadBalance" /\ g.loadBalancePercent # Null
    OBVIOUS
  <2>5. DhcpFailover(f) <=> _CiFailover(f)
    BY <1>0, <2>3, <2>4 DEF DhcpFailover, _CiFailover, g
  <2>6. enforce_mode_fields(g) = ciNormalizedFailover(f)
    BY <2>3 DEF enforce_mode_fields, ciNormalizedFailover, g
  <2> QED
    BY <1>0, <2>5, <2>6 DEF g
<1> QED
  BY <1>1, <1>2 DEF _CiFailover

\* So do the two copies of the rules about exclusions.
LEMMA ExclusionRulesAgree ==
    ASSUME NEW xs
    PROVE  _CiExclusions(xs) <=>
             /\ \A x \in Values(xs) : end_gte_start(x)
             /\ no_duplicate_exclusions(xs)
             /\ no_overlapping_exclusions(xs)
BY DEF _CiExclusions, Values, end_gte_start, no_duplicate_exclusions,
       no_overlapping_exclusions

\* The default mask is that of a block.
LEMMA MasksAgree ==
    ASSUME NEW k, NEW b, BodyOf(b, k)
    PROVE  normalize_subnet_mask(b.subnetMask) = ciMask(k)
BY DEF BodyOf, normalize_subnet_mask, ciMask

\* The gateway and the range are derived alike.
LEMMA DerivedAlike ==
    ASSUME NEW k, NEW b, BodyOf(b, k)
    PROVE  /\ resolve_default_gateway(k.network, b) = ciGateway(k)
           /\ ((k.startRange = Null) = (k.endRange = Null)) =>
                 resolve_default_range(k.network, b) = ciRange(k)
BY DEF BodyOf, resolve_default_gateway, resolve_default_range, ciGateway, ciRange, BlockBase

\* They are addresses.
LEMMA DerivedType ==
    ASSUME NEW k, Arguments(k)
    PROVE  /\ ciGateway(k) \in Int \cup {Null}
           /\ ciRange(k)[1] \in Int /\ ciRange(k)[2] \in Int
<1>1. BlockSize \in Nat \ {0}
  BY PayloadAssumption
<1>2. (k.network \div BlockSize) * BlockSize \in Int
  BY <1>1 DEF Arguments
<1> DEFINE block == (k.network \div BlockSize) * BlockSize
<1>3. ciGateway(k) = IF k.gateway # Absent THEN k.gateway ELSE block + BlockSize - 2
  BY DEF ciGateway
<1>4. /\ ciRange(k)[1] = IF k.startRange = Null THEN block + 1 ELSE k.startRange
      /\ ciRange(k)[2] = IF k.endRange = Null THEN block + BlockSize - 3 ELSE k.endRange
  BY DEF ciRange
<1> HIDE DEF block
<1> QED
  BY <1>1, <1>2, <1>3, <1>4 DEF Arguments, block

\* The subnet and the gateway are held against the same bounds.
LEMMA SubnetRulesAgree ==
    ASSUME NEW k, NEW b, Arguments(k), BodyOf(b, k), _CiExclusions(k.exclusions),
           (k.startRange = Null) = (k.endRange = Null)
    PROVE  /\ validate_subnet_consistency(DhcpScopePayload(k.network, b)) <=> _CiSubnet(k)
           /\ gateway_not_in_distribution_range(DhcpScopePayload(k.network, b))
                <=> _CiGateway(k)
<1> DEFINE p == DhcpScopePayload(k.network, b)
           xs == k.exclusions
           n == k.network
           mask == ciMask(k)
           g == ciGateway(k)
           r == ciRange(k)
<1>1. /\ p.scope = n /\ p.subnetMask = mask /\ p.gateway = g /\ p.range = r
      /\ p.exclusions = {xs[i] : i \in DOMAIN xs}
  BY MasksAgree, DerivedAlike DEF DhcpScopePayload, Values, BodyOf
<1>2. /\ n \in Int /\ g \in Int \cup {Null} /\ r[1] \in Int /\ r[2] \in Int
      /\ Sizes \subseteq Nat \ {0} /\ Null \notin Int
  BY DerivedType, PayloadAssumption DEF Arguments
<1>3. /\ \A i \in DOMAIN xs : xs[i][1] \in Int /\ xs[i][2] \in Int /\ xs[i][1] <= xs[i][2]
  BY DEF Arguments, _CiExclusions
<1> DEFINE last == n + mask - 1
           Bounds == /\ mask \in Sizes
                     /\ n % mask = 0
                     /\ r[1] \in n + 1 .. last - 1 /\ r[2] \in n + 1 .. last - 1
                     /\ g # Null => g \in n + 1 .. last - 1
                     /\ \A i \in DOMAIN xs : xs[i][1] \in n .. last /\ xs[i][2] \in n .. last
<1>4. _CiSubnet(k) <=> Bounds
  <2>1. _CiSubnet(k) => Bounds
    BY Zenon DEF _CiSubnet
  <2>2. Bounds => _CiSubnet(k)
    BY Zenon DEF _CiSubnet
  <2> HIDE DEF Bounds
  <2> QED
    BY <2>1, <2>2
<1>5. validate_subnet_consistency(p) <=>
        /\ mask \in Sizes
        /\ n % mask = 0
        /\ n < r[1] /\ r[1] < n + mask - 1 /\ n < r[2] /\ r[2] < n + mask - 1
        /\ g # Null => n < g /\ g < n + mask - 1
        /\ \A i \in DOMAIN xs : n <= xs[i][1] /\ xs[i][2] <= n + mask - 1
  <2> HIDE DEF p, xs, n, mask, g, r
  <2> QED
    BY <1>1 DEF validate_subnet_consistency, Usable
<1>6. _CiGateway(k) <=>
        (g # Null =>
           \/ g < r[1] \/ r[2] < g
           \/ \E i \in DOMAIN xs : xs[i][1] <= g /\ g <= xs[i][2])
  BY DEF _CiGateway
<1>7. gateway_not_in_distribution_range(p) <=>
        (g # Null /\ r[1] <= g /\ g <= r[2]
           => \E i \in DOMAIN xs : xs[i][1] <= g /\ g <= xs[i][2])
  <2> HIDE DEF p, xs, n, mask, g, r
  <2> QED
    BY <1>1 DEF gateway_not_in_distribution_range, Covers
<1> HIDE DEF p, xs, n, mask, g, r
<1>8. validate_subnet_consistency(p) <=> _CiSubnet(k)
  <2>1. CASE mask \notin Sizes
    BY <2>1, <1>4, <1>5
  <2>2. CASE mask \in Sizes
    <3>1. mask \in Nat
      BY <2>2, <1>2
    <3>2. \A x \in Int : x \in n + 1 .. last - 1 <=> n < x /\ x < n + mask - 1
      BY <3>1, <1>2
    <3>3. \A i \in DOMAIN xs :
             xs[i][1] \in n .. n + mask - 1 /\ xs[i][2] \in n .. n + mask - 1
               <=> n <= xs[i][1] /\ xs[i][2] <= n + mask - 1
      BY <3>1, <1>2, <1>3
    <3>4. /\ r[1] \in n + 1 .. last - 1 <=> n < r[1] /\ r[1] < n + mask - 1
          /\ r[2] \in n + 1 .. last - 1 <=> n < r[2] /\ r[2] < n + mask - 1
          /\ g # Null => (g \in n + 1 .. last - 1 <=> n < g /\ g < n + mask - 1)
      <4>1. r[1] \in Int /\ r[2] \in Int /\ (g # Null => g \in Int)
        BY <1>2
      <4> QED
        BY <3>2, <4>1, Zenon
    <3>5. Bounds <=>
            /\ n % mask = 0
            /\ n < r[1] /\ r[1] < n + mask - 1 /\ n < r[2] /\ r[2] < n + mask - 1
            /\ g # Null => n < g /\ g < n + mask - 1
            /\ \A i \in DOMAIN xs : n <= xs[i][1] /\ xs[i][2] <= n + mask - 1
      BY <2>2, <3>3, <3>4, Zenon
    <3> QED
      BY <2>2, <3>5, <1>4, <1>5, Zenon
  <2> QED
    BY <2>1, <2>2
<1>9. gateway_not_in_distribution_range(p) <=> _CiGateway(k)
  BY <1>2, <1>6, <1>7
<1> QED
  BY <1>8, <1>9 DEF p

\* The two copies of the API's rules take the same requests, and resolve them
\* to the same payload.
LEMMA RulesAgree ==
    ASSUME NEW k, NEW b, Arguments(k), BodyOf(b, k)
    PROVE  /\ Accepts(k.network, b) <=> _CiScopePayload(k)
           /\ _CiScopePayload(k) => DhcpScopePayload(k.network, b) = ciPayload(k)
<1> DEFINE halves == (k.startRange = Null) = (k.endRange = Null)
<1>1. (k.failover # Null => _CiFailover(k.failover)) <=>
         (b.failover # Null => DhcpFailover(b.failover))
  <2>1. CASE k.failover = Null
    BY <2>1 DEF BodyOf
  <2>2. CASE k.failover # Null
    <3>1. FailoverValues(k.failover)
      BY <2>2 DEF Arguments
    <3>2. b.failover = k.failover
      BY DEF BodyOf
    <3> QED
      BY <2>2, <3>1, <3>2, FailoverRulesAgree
  <2> QED
    BY <2>1, <2>2
<1>2. /\ pxe_options_set_together(b) <=> (k.nextServer = Null) = (k.bootFile = Null)
  BY DEF pxe_options_set_together, BodyOf
<1>3. /\ k.gateway = Absent => ciMask(k) = BlockSize
      /\ halves
      /\ k.startRange = Null => ciMask(k) = BlockSize
      <=> Derivable(b)
  <2>1. normalize_subnet_mask(b.subnetMask) = ciMask(k)
    BY MasksAgree
  <2> QED
    BY <2>1 DEF Derivable, BodyOf
<1>4. halves => (end_range_gte_start_range(b) <=>
                   (k.startRange # Null => k.startRange <= k.endRange))
  BY DEF end_range_gte_start_range, BodyOf
<1>5. _CiExclusions(k.exclusions) <=>
             /\ \A x \in Values(b.exclusions) : end_gte_start(x)
             /\ no_duplicate_exclusions(b.exclusions)
             /\ no_overlapping_exclusions(b.exclusions)
  BY ExclusionRulesAgree DEF BodyOf
<1>6. halves /\ _CiExclusions(k.exclusions) =>
        /\ validate_subnet_consistency(DhcpScopePayload(k.network, b)) <=> _CiSubnet(k)
        /\ gateway_not_in_distribution_range(DhcpScopePayload(k.network, b))
             <=> _CiGateway(k)
  BY SubnetRulesAgree
<1>7. /\ k.network # Null
      /\ b.scopeName = k.scopeName /\ b.leaseDurationDays = k.leaseDurationDays
      /\ b.dnsServers = k.dnsServers
      /\ b.nextServer = k.nextServer /\ b.bootFile = k.bootFile
  BY PayloadAssumption DEF Arguments, BodyOf
<1> HIDE DEF halves
<1>8. Accepts(k.network, b) <=> _CiScopePayload(k)
  <2>1. _CiScopePayload(k) => halves /\ _CiExclusions(k.exclusions)
    BY DEF _CiScopePayload, halves
  <2>2. Accepts(k.network, b) => halves /\ _CiExclusions(k.exclusions)
    BY <1>3, <1>5 DEF Accepts, DhcpScopeBody
  <2>3. ASSUME halves, _CiExclusions(k.exclusions)
        PROVE  Accepts(k.network, b) <=> _CiScopePayload(k)
    <3>1. DhcpScopeBody(b) <=>
            /\ k.scopeName \notin {Null, Blank}
            /\ k.leaseDurationDays \in 1 .. 3650
            /\ k.dnsServers # << >>
            /\ k.nextServer # Blank /\ k.bootFile # Blank
            /\ (k.nextServer = Null) = (k.bootFile = Null)
            /\ k.startRange # Null => k.startRange <= k.endRange
            /\ k.failover # Null => _CiFailover(k.failover)
      BY SMTT(30), <2>3, <1>1, <1>2, <1>4, <1>5, <1>7 DEF DhcpScopeBody
    <3> QED
      BY <2>3, <3>1, <1>3, <1>6, <1>7 DEF Accepts, _CiScopePayload, halves
  <2> QED
    BY <2>1, <2>2, <2>3
<1>9. ASSUME _CiScopePayload(k)
      PROVE  DhcpScopePayload(k.network, b) = ciPayload(k)
  <2>1. /\ normalize_subnet_mask(b.subnetMask) = ciMask(k)
        /\ resolve_default_gateway(k.network, b) = ciGateway(k)
        /\ resolve_default_range(k.network, b) = ciRange(k)
    BY <1>9, MasksAgree, DerivedAlike DEF _CiScopePayload
  <2>2. Values(b.exclusions) = {k.exclusions[i] : i \in DOMAIN k.exclusions}
    BY DEF Values, BodyOf
  <2>3. (IF b.failover = Null THEN Null ELSE enforce_mode_fields(filled(b.failover)))
          = (IF k.failover = Null THEN Null ELSE ciNormalizedFailover(k.failover))
    <3>1. CASE k.failover = Null
      BY <3>1 DEF BodyOf
    <3>2. CASE k.failover # Null
      <4>1. FailoverValues(k.failover) /\ _CiFailover(k.failover)
        BY <1>9, <3>2 DEF Arguments, _CiScopePayload
      <4>2. b.failover = k.failover
        BY DEF BodyOf
      <4>3. enforce_mode_fields(filled(k.failover)) = ciNormalizedFailover(k.failover)
        BY <4>1, FailoverRulesAgree
      <4> QED
        BY <3>2, <4>2, <4>3
    <3> QED
      BY <3>1, <3>2
  <2> QED
    BY <2>1, <2>2, <2>3, <1>7 DEF DhcpScopePayload, ciPayload
<1> QED
  BY <1>8, <1>9

-----------------------------------------------------------------------------
(* What passes CI, the API takes                                            *)

\* Main and head are typed, and main is sound.
RepoInv == Sound /\ TypeOK

\* RepoInv holds always.
LEMMA AlwaysRepoInv == Spec => []RepoInv
BY AlwaysSound, AlwaysTyped, PTL DEF RepoInv

\* A valid cluster that manages its scope has passed the content check.
LEMMA ManagedIsValidated ==
    ASSUME NEW tree, TypedTree(tree), NEW h \in Hosted, Managed(File(tree, h)),
           validate_cluster(tree, h[1], h[2], h[3])
    PROVE  LET dv == ValuesOf(tree, h)
           IN  /\ DhcpValues(dv)
               /\ Get(dv, "network") # Null
               /\ _CiScopePayload(kwargs(h[3], dv))
               /\ ascending(kwargs(h[3], dv).exclusions)
<1>1. /\ ValuesOf(tree, h) # Null
      /\ required_paths(ValuesOf(tree, h))
      /\ _CiScopePayload(kwargs(h[3], ValuesOf(tree, h)))
      /\ ascending(kwargs(h[3], ValuesOf(tree, h)).exclusions)
  BY Zenon DEF validate_cluster, _validate_dhcp_content, File, ValuesOf
<1> QED
  BY <1>1, ValuesType DEF required_paths

\* What the API makes of the values of a cluster.
LEMMA WhatTheApiMakes ==
    ASSUME NEW tree, NEW h \in Hosted, DhcpValues(ValuesOf(tree, h)),
           Get(ValuesOf(tree, h), "network") # Null
    PROVE  LET k == kwargs(h[3], ValuesOf(tree, h))
           IN  /\ Arguments(k)
               /\ AppliesTo(tree, h) <=> _CiScopePayload(k)
               /\ _CiScopePayload(k) => Payload(tree, h) = ciPayload(k)
<1> DEFINE dv == ValuesOf(tree, h)
           k == kwargs(h[3], dv)
           b == Rendered(h[3], dv)
<1>1. h[3] \in Clusters
  BY DEF Hosted
<1>2. Arguments(k) /\ dv["network"] = k.network
  BY <1>1, ArgumentsType
<1>3. BodyOf(b, k)
  BY RenderedBody
<1> HIDE DEF k, b
<1>4. /\ Accepts(k.network, b) <=> _CiScopePayload(k)
      /\ _CiScopePayload(k) => DhcpScopePayload(k.network, b) = ciPayload(k)
  BY <1>2, <1>3, RulesAgree
<1>5. /\ AppliesTo(tree, h) <=> Accepts(k.network, b)
      /\ Payload(tree, h) = DhcpScopePayload(k.network, b)
  BY <1>2 DEF AppliesTo, Payload, b
<1> QED
  BY <1>2, <1>4, <1>5 DEF k

\* AppliesAsValidated: for every values file that CI lets onto main, unless git
\* saw a file renamed that it inherits from, the API accepts the request that is
\* rendered of it, and resolves it to the payload CI has resolved it to (the
\* _Ci models against app/models).
THEOREM WhatPassesApplies == Spec => []AppliesAsValidated
<1>1. RepoInv => AppliesAsValidated
  <2> SUFFICES ASSUME RepoInv, NEW h \in Hosted, Managed(File(main, h)),
                      ~Slipped(h)
               PROVE  /\ AppliesTo(main, h)
                      /\ Payload(main, h) = ciPayload(kwargs(h[3], ValuesOf(main, h)))
    BY DEF AppliesAsValidated
  <2>1. validate_cluster(main, h[1], h[2], h[3]) /\ TypedTree(main)
    BY DEF RepoInv, Sound, OnlyMovesSlip, TypeOK, Managed
  <2>2. /\ DhcpValues(ValuesOf(main, h)) /\ Get(ValuesOf(main, h), "network") # Null
        /\ _CiScopePayload(kwargs(h[3], ValuesOf(main, h)))
    BY <2>1, ManagedIsValidated
  <2> QED
    BY <2>2, WhatTheApiMakes
<1> QED
  BY AlwaysRepoInv, <1>1, PTL

\* RefusesNothingElse: a values file that the API would take, with what the
\* script insists on and its exclusions in order, passes CI.
THEOREM CiRefusesNothingElse == Spec => []RefusesNothingElse
<1>1. RepoInv => RefusesNothingElse
  <2> SUFFICES ASSUME RepoInv, NEW h \in Hosted, Managed(File(head, h)),
                      ValuesOf(head, h) # Null,
                      required_paths(ValuesOf(head, h)), AppliesTo(head, h),
                      ascending(GetList(ValuesOf(head, h), "exclusions"))
               PROVE  _validate_dhcp_content(h[3], File(head, h),
                                             Merged(head, h[1], h[2], h[3]))
    BY Zenon DEF RefusesNothingElse
  <2>1. TypedTree(head)
    BY DEF RepoInv, TypeOK
  <2>2. DhcpValues(ValuesOf(head, h)) /\ Get(ValuesOf(head, h), "network") # Null
    BY <2>1, ValuesType DEF required_paths
  <2>3. _CiScopePayload(kwargs(h[3], ValuesOf(head, h)))
    BY <2>2, WhatTheApiMakes
  <2>4. kwargs(h[3], ValuesOf(head, h)).exclusions = GetList(ValuesOf(head, h), "exclusions")
    BY DEF kwargs
  <2> QED
    BY <2>3, <2>4, Zenon DEF _validate_dhcp_content, ValuesOf
<1> QED
  BY AlwaysRepoInv, <1>1, PTL

-----------------------------------------------------------------------------
(* What is applied reads back                                               *)

\* The leases, in days, and the lead times, in minutes, that are accepted.
Leases == 1 .. 3650

LeadTimes == 1 .. 1440

\* However a lease is written, it reads back as so many days.
LEMMA LeaseReadsBack ==
    ASSUME NEW days \in Leases, NEW minutes, minutes = days * 1440
    PROVE  /\ \A d \in Durations(minutes) : _parse_timespan_as_days(d) = days
           /\ Durations(minutes) # {}
<1>1. minutes \div 1440 = days /\ days # 0
  BY DEF Leases
<1>2. ASSUME NEW d \in Durations(minutes)
      PROVE  _parse_timespan_as_days(d) = days
  <2>1. d.days = days
    BY <1>1 DEF Durations
  <2> QED
    BY <1>1, <2>1 DEF _parse_timespan_as_days, parse_timespan_days
<1>3. [form |-> "text", days |-> minutes \div 1440, hours |-> (minutes % 1440) \div 60,
       minutes |-> minutes % 60] \in Durations(minutes)
  BY DEF Durations
<1> QED
  BY <1>2, <1>3

\* So does a lead time, in minutes.
LEMMA LeadReadsBack ==
    ASSUME NEW lead \in LeadTimes
    PROVE  /\ \A d \in Durations(lead) : _parse_timespan_as_minutes(d) = lead
           /\ Durations(lead) # {}
<1>1. ASSUME NEW d \in Durations(lead)
      PROVE  _parse_timespan_as_minutes(d) = lead
  <2> DEFINE days == lead \div 1440
             rest == lead % 1440
             hours == rest \div 60
             minutes == lead % 60
  <2>1. d.days = days /\ d.hours = hours /\ d.minutes = minutes
    BY DEF Durations
  <2>2. \/ lead < 1440 /\ days = 0 /\ rest = lead
        \/ lead = 1440 /\ days = 1 /\ rest = 0
    BY DEF LeadTimes
  <2>3. CASE lead < 1440 /\ days = 0 /\ rest = lead
    <3>1. hours = lead \div 60
      BY <2>3 DEF LeadTimes
    <3>2. hours \in Nat /\ minutes = lead - 60 * hours
      BY <3>1 DEF LeadTimes
    <3> HIDE DEF days, rest, hours, minutes
    <3> QED
      BY <2>1, <2>3, <3>2 DEF LeadTimes, _parse_timespan_as_minutes, parse_timespan_minutes
  <2>4. CASE lead = 1440 /\ days = 1 /\ rest = 0
    <3>1. hours = 0 /\ minutes = 0
      BY <2>4
    <3> HIDE DEF days, rest, hours, minutes
    <3> QED
      BY <2>1, <2>4, <3>1 DEF LeadTimes, _parse_timespan_as_minutes, parse_timespan_minutes
  <2> QED
    BY <2>2, <2>3, <2>4
<1>2. [form |-> "text", days |-> lead \div 1440, hours |-> (lead % 1440) \div 60,
       minutes |-> lead % 60] \in Durations(lead)
  BY DEF Durations
<1> QED
  BY <1>1, <1>2

\* Failover values that validation changes nothing about.
Settled(f) ==
    /\ f = [x \in FailoverFields |-> f[x]]
    /\ f # Null
    /\ DhcpFailover(f)
    /\ enforce_mode_fields(f) = f

\* Values with every field need no defaults.
LEMMA NothingToFill ==
    ASSUME NEW f, f = [x \in FailoverFields |-> f[x]]
    PROVE  filled(f) = f
<1>1. DOMAIN FailoverDefaults \subseteq FailoverFields
  BY DEF FailoverDefaults, FailoverFields
<1> QED
  BY <1>1 DEF filled

\* What the models leave behind is settled.
LEMMA NormalizedIsSettled ==
    ASSUME NEW f, FailoverValues(f), _CiFailover(f)
    PROVE  Settled(ciNormalizedFailover(f))
<1> DEFINE g == ciFilled(f)
           e == enforce_mode_fields(g)
<1>1. /\ DhcpFailover(g) /\ FailoverValues(g)
      /\ g = [x \in DOMAIN g |-> g[x]] /\ DOMAIN g = FailoverFields
      /\ filled(g) = g
      /\ ciNormalizedFailover(f) = e
  <2>1. /\ DhcpFailover(f) /\ FailoverValues(g)
        /\ g = [x \in DOMAIN g |-> g[x]] /\ filled(f) = g
        /\ ciNormalizedFailover(f) = e
        /\ \A x \in DOMAIN f : x \in DOMAIN g /\ g[x] = f[x]
    BY FailoverRulesAgree, FilledType, DefaultsAgree
  <2>2. DOMAIN g = FailoverFields
    BY <2>1 DEF DhcpFailover
  <2>3. filled(g) = g
    BY <2>1, <2>2, NothingToFill
  <2>4. DhcpFailover(g)
    <3>1. {"partnerServer", "relationshipName", "mode",
           "maxClientLeadTimeMinutes"} \subseteq DOMAIN f
      BY <2>1, <2>2 DEF filled, FailoverDefaults, FailoverFields
    <3>2. /\ g.partnerServer = f.partnerServer
          /\ g.relationshipName = f.relationshipName
          /\ g.mode = f.mode
          /\ g.maxClientLeadTimeMinutes = f.maxClientLeadTimeMinutes
      BY <2>1, <3>1
    <3> HIDE DEF g
    <3> QED
      BY <2>1, <2>2, <2>3, <3>2 DEF DhcpFailover
  <2> QED
    BY <2>1, <2>2, <2>3, <2>4
<1> HIDE DEF g
<1>2. DOMAIN g = FailoverFields
  BY <1>1
<1>3. e = [x \in FailoverFields |-> e[x]]
  BY <1>1, <1>2 DEF enforce_mode_fields
<1>4. /\ e.partnerServer = g.partnerServer /\ e.relationshipName = g.relationshipName
      /\ e.mode = g.mode /\ e.maxClientLeadTimeMinutes = g.maxClientLeadTimeMinutes
      /\ g.mode = "HotStandby" =>
            /\ e.serverRole = g.serverRole /\ e.reservePercent = g.reservePercent
            /\ e.loadBalancePercent = 0
      /\ g.mode # "HotStandby" =>
            /\ e.serverRole = "Active" /\ e.reservePercent = 0
            /\ e.loadBalancePercent = g.loadBalancePercent
  BY <1>2 DEF enforce_mode_fields, FailoverFields
<1>5. DhcpFailover(e)
  <2>1. DOMAIN e = FailoverFields /\ filled(e) = e
    BY <1>3, NothingToFill
  <2> HIDE DEF e
  <2>2. 0 \in 0 .. 100
    OBVIOUS
  <2> QED
    BY <2>1, <2>2, <1>1, <1>4, PayloadAssumption DEF DhcpFailover
<1>6. enforce_mode_fields(e) = e
  BY <1>2 DEF enforce_mode_fields, FailoverFields
<1>7. e # Null
  <2>1. \A x \in FailoverFields : g[x] \in Text \cup Int \cup {Null}
    BY <1>1, <1>2 DEF FailoverValues
  <2>2. \A x \in FailoverFields : e[x] \in {g[x], 0, "Active"}
    BY <1>2 DEF enforce_mode_fields
  <2>3. "Active" \in Text
    BY DEF Text
  <2> HIDE DEF e
  <2>4. \A x \in FailoverFields : e[x] \in Text \cup Int \cup {Null}
    BY <2>1, <2>2, <2>3
  <2>5. e \in [FailoverFields -> Text \cup Int \cup {Null}]
    BY <1>3, <2>4
  <2> QED
    BY <2>5, TextAssumption
<1> QED
  BY <1>1, <1>3, <1>5, <1>6, <1>7 DEF Settled

\* Settled values read back whatever the server says of the fields that their
\* mode does not use.
LEMMA FailoverReadsBack ==
    ASSUME NEW f, Settled(f), NEW raw \in Reported(f)
    PROVE  parse_failover(raw, f.maxClientLeadTimeMinutes) = f
<1> DEFINE q == [raw EXCEPT !.reservePercent = IF @ = Null THEN 0 ELSE @,
                            !.loadBalancePercent = IF @ = Null THEN 0 ELSE @,
                            !.maxClientLeadTimeMinutes = f.maxClientLeadTimeMinutes]
           e == enforce_mode_fields(q)
<1>1. /\ DOMAIN f = FailoverFields /\ enforce_mode_fields(f) = f
      /\ f = [x \in FailoverFields |-> f[x]]
      /\ f.mode \in {"HotStandby", "LoadBalance"}
      /\ f.reservePercent # Null
      /\ f.mode = "LoadBalance" => f.loadBalancePercent # Null
  BY NothingToFill, PayloadAssumption DEF Settled, DhcpFailover
<1>2. CASE f.mode = "HotStandby"
  <2>1. PICK y \in {Null, 0, 50} : raw = [f EXCEPT !.loadBalancePercent = y]
    BY <1>2 DEF Reported
  <2>2. /\ DOMAIN raw = FailoverFields
        /\ \A x \in FailoverFields \ {"loadBalancePercent"} : raw[x] = f[x]
    BY <1>1, <2>1
  <2> HIDE DEF Reported
  <2>3. /\ DOMAIN q = FailoverFields
        /\ \A x \in FailoverFields \ {"loadBalancePercent"} : q[x] = f[x]
    BY <1>1, <2>2 DEF FailoverFields
  <2>4. e = [q EXCEPT !.loadBalancePercent = 0]
    BY <2>3, <1>2 DEF enforce_mode_fields, FailoverFields
  <2>5. f.loadBalancePercent = 0
    BY <1>1, <1>2 DEF enforce_mode_fields, FailoverFields
  <2> HIDE DEF q, e
  <2>6. DOMAIN e = FailoverFields /\ e = [x \in FailoverFields |-> e[x]]
    BY <2>3, <2>4
  <2>7. \A x \in FailoverFields : e[x] = f[x]
    BY <2>3, <2>4, <2>5 DEF FailoverFields
  <2>8. e = f
    BY <2>6, <2>7, <1>1
  <2> QED
    BY <2>8 DEF parse_failover, e, q
<1>3. CASE f.mode = "LoadBalance"
  <2>1. PICK y \in {Null, "Active", "Standby"}, z \in {Null, 0, 5} :
            raw = [f EXCEPT !.serverRole = y, !.reservePercent = z]
    <3>1. f.mode # "HotStandby"
      BY <1>3
    <3>2. raw \in {[f EXCEPT !.serverRole = y, !.reservePercent = z] :
                    y \in {Null, "Active", "Standby"}, z \in {Null, 0, 5}}
      BY <3>1 DEF Reported
    <3> QED
      BY <3>2
  <2>2. /\ DOMAIN raw = FailoverFields
        /\ \A x \in FailoverFields \ {"serverRole", "reservePercent"} : raw[x] = f[x]
    BY <1>1, <2>1
  <2>3. /\ DOMAIN q = FailoverFields
        /\ \A x \in FailoverFields \ {"serverRole", "reservePercent"} : q[x] = f[x]
    BY <1>1, <1>3, <2>2 DEF FailoverFields
  <2>4. e = [q EXCEPT !.serverRole = "Active", !.reservePercent = 0]
    BY <2>3, <1>3 DEF enforce_mode_fields, FailoverFields
  <2>5. f.serverRole = "Active" /\ f.reservePercent = 0
    BY <1>1, <1>3 DEF enforce_mode_fields, FailoverFields
  <2> HIDE DEF q, e
  <2>6. DOMAIN e = FailoverFields /\ e = [x \in FailoverFields |-> e[x]]
    BY <2>3, <2>4
  <2>7. \A x \in FailoverFields : e[x] = f[x]
    BY <2>3, <2>4, <2>5 DEF FailoverFields
  <2>8. e = f
    BY <2>6, <2>7, <1>1
  <2> QED
    BY <2>8 DEF parse_failover, e, q
<1> QED
  BY <1>1, <1>2, <1>3

\* A payload whose failover values are settled reads back as it is.
LEMMA PayloadReadsBack ==
    ASSUME NEW k, _CiScopePayload(k),
           ciPayload(k).failover = Null \/ Settled(ciPayload(k).failover)
    PROVE  Readings(ciPayload(k)) = {ciPayload(k)}
<1> DEFINE p == ciPayload(k)
           leases == {_parse_timespan_as_days(d) : d \in Durations(p.leaseDurationDays * 1440)}
           failovers ==
             IF p.failover = Null THEN {Null}
             ELSE {parse_failover(raw, _parse_timespan_as_minutes(d)) :
                     raw \in Reported(p.failover),
                     d \in Durations(p.failover.maxClientLeadTimeMinutes)}
<1>1. leases = {p.leaseDurationDays}
  <2>1. p.leaseDurationDays \in 1 .. 3650
    BY DEF ciPayload, _CiScopePayload
  <2> DEFINE days == p.leaseDurationDays
             minutes == days * 1440
  <2> HIDE DEF p
  <2>2. days \in Leases /\ leases = {_parse_timespan_as_days(d) : d \in Durations(minutes)}
    BY <2>1 DEF Leases
  <2> HIDE DEF days
  <2>3. minutes = days * 1440
    OBVIOUS
  <2> HIDE DEF minutes, leases
  <2>4. /\ \A d \in Durations(minutes) : _parse_timespan_as_days(d) = days
        /\ Durations(minutes) # {}
    BY <2>2, <2>3, LeaseReadsBack
  <2>5. leases = {days}
    BY <2>2, <2>4
  <2> QED
    BY <2>5 DEF days
<1>2. failovers = {p.failover}
  <2>1. CASE p.failover = Null
    BY <2>1
  <2>2. CASE p.failover # Null
    <3> DEFINE f == p.failover
    <3>1. Settled(f)
      BY <2>2
    <3> HIDE DEF p
    <3> DEFINE lead == f.maxClientLeadTimeMinutes
    <3>2. failovers = {parse_failover(raw, _parse_timespan_as_minutes(d)) :
                         raw \in Reported(f), d \in Durations(lead)}
      BY <2>2
    <3> HIDE DEF f, failovers
    <3>3. lead \in LeadTimes
      <4>1. DhcpFailover(f)
        BY <3>1 DEF Settled
      <4> QED
        BY <4>1 DEF DhcpFailover, LeadTimes
    <3>4. /\ \A d \in Durations(lead) : _parse_timespan_as_minutes(d) = lead
          /\ Durations(lead) # {}
      <4> HIDE DEF lead
      <4> QED
        BY <3>3, LeadReadsBack
    <3>5. \A raw \in Reported(f) : parse_failover(raw, lead) = f
      BY <3>1, FailoverReadsBack
    <3>6. Reported(f) # {}
      <4>1. CASE f.mode = "HotStandby"
        <5>1. [f EXCEPT !.loadBalancePercent = Null] \in Reported(f)
          BY <4>1 DEF Reported
        <5> QED
          BY <5>1
      <4>2. CASE f.mode # "HotStandby"
        <5>1. [f EXCEPT !.serverRole = Null, !.reservePercent = Null] \in Reported(f)
          BY <4>2 DEF Reported
        <5> QED
          BY <5>1
      <4> QED
        BY <4>1, <4>2
    <3> HIDE DEF lead
    <3>7. failovers = {f}
      BY <3>2, <3>4, <3>5, <3>6
    <3> QED
      BY <3>7 DEF f
  <2> QED
    BY <2>1, <2>2
<1>3. Readings(p) = {[p EXCEPT !.leaseDurationDays = l, !.failover = f] :
                       l \in leases, f \in failovers}
  BY DEF Readings
<1>4. [p EXCEPT !.leaseDurationDays = p.leaseDurationDays, !.failover = p.failover] = p
  BY DEF ciPayload
<1> HIDE DEF p, leases, failovers
<1>5. Readings(p) = {p}
  BY <1>1, <1>2, <1>3, <1>4
<1> QED
  BY <1>5 DEF p

\* Exclusions that are in order and do not overlap lie one after the other.
LEMMA OneAfterTheOther ==
    ASSUME NEW xs \in Seq(Int \X Int), _CiExclusions(xs), ascending(xs)
    PROVE  \A i, j \in DOMAIN xs : i < j => xs[i][2] < xs[j][1]
<1> SUFFICES ASSUME NEW i \in DOMAIN xs, NEW j \in DOMAIN xs, i < j
             PROVE  xs[i][2] < xs[j][1]
  OBVIOUS
<1>1. /\ xs[i][1] \in Int /\ xs[i][2] \in Int /\ xs[j][1] \in Int /\ xs[j][2] \in Int
      /\ i \in Int /\ j \in Int
  OBVIOUS
<1>2. xs[i][2] < xs[j][1] \/ xs[j][2] < xs[i][1]
  <2>1. i # j
    <3> HIDE DEF _CiExclusions, ascending
    <3> QED
      BY <1>1
  <2> QED
    BY <2>1 DEF _CiExclusions
<1>3. xs[i][1] <= xs[j][1] /\ xs[j][1] <= xs[j][2]
  BY DEF _CiExclusions, ascending
<1> QED
  BY <1>1, <1>2, <1>3

\* The failover values of a payload are settled.
LEMMA PayloadIsSettled ==
    ASSUME NEW k, Arguments(k), _CiScopePayload(k)
    PROVE  ciPayload(k).failover = Null \/ Settled(ciPayload(k).failover)
<1>1. ciPayload(k).failover =
        IF k.failover = Null THEN Null ELSE ciNormalizedFailover(k.failover)
  BY DEF ciPayload
<1>2. k.failover # Null => FailoverValues(k.failover) /\ _CiFailover(k.failover)
  BY DEF Arguments, _CiScopePayload
<1> QED
  BY <1>1, <1>2, NormalizedIsSettled

\* A payload that passed, sent back as it reads, passes and is the same.
LEMMA SentBack ==
    ASSUME NEW k, Arguments(k), _CiScopePayload(k), NEW b, BodyOf(b, k)
    PROVE  LET p == ciPayload(k)
           IN  /\ Accepts(p.scope, body(p, k.exclusions))
               /\ DhcpScopePayload(p.scope, body(p, k.exclusions)) = p
<1> DEFINE p == ciPayload(k)
           back == body(p, k.exclusions)
<1>1. /\ validate_subnet_consistency(p) /\ gateway_not_in_distribution_range(p)
      /\ DhcpScopeBody(b)
  <2>1. Accepts(k.network, b) /\ DhcpScopePayload(k.network, b) = p
    BY RulesAgree
  <2> QED
    BY <2>1 DEF Accepts
<1>2. /\ p.scope = k.network /\ p.scopeName = k.scopeName /\ p.subnetMask = ciMask(k)
      /\ p.range = <<ciRange(k)[1], ciRange(k)[2]>>
      /\ p.leaseDurationDays = k.leaseDurationDays
      /\ p.gateway = ciGateway(k) /\ p.dnsServers = k.dnsServers
      /\ p.nextServer = k.nextServer /\ p.bootFile = k.bootFile
      /\ p.exclusions = Values(k.exclusions)
  BY DEF ciPayload, ciRange, Values
<1>3. p.failover = Null \/ Settled(p.failover)
  BY PayloadIsSettled
<1>4. /\ back.scopeName = p.scopeName /\ back.subnetMask = p.subnetMask
      /\ back.startRange = p.range[1] /\ back.endRange = p.range[2]
      /\ back.leaseDurationDays = p.leaseDurationDays /\ back.gateway = p.gateway
      /\ back.dnsServers = p.dnsServers /\ back.nextServer = p.nextServer
      /\ back.bootFile = p.bootFile /\ back.exclusions = k.exclusions
      /\ back.failover = p.failover
  BY DEF body
<1>5. p = [scope |-> p.scope, scopeName |-> p.scopeName, subnetMask |-> p.subnetMask,
           range |-> p.range, leaseDurationDays |-> p.leaseDurationDays,
           gateway |-> p.gateway, dnsServers |-> p.dnsServers,
           nextServer |-> p.nextServer, bootFile |-> p.bootFile,
           exclusions |-> p.exclusions, failover |-> p.failover]
  BY DEF ciPayload
<1>6. /\ p.range[1] \in Int /\ p.range[2] \in Int /\ p.gateway # Absent
      /\ p.range[1] <= p.range[2]
  <2>1. /\ ciGateway(k) \in Int \cup {Null}
        /\ ciRange(k)[1] \in Int /\ ciRange(k)[2] \in Int
    BY DerivedType
  <2>2. ciRange(k)[1] <= ciRange(k)[2]
    <3>1. CASE k.startRange = Null
      <4> DEFINE block == (k.network \div BlockSize) * BlockSize
      <4>1. block \in Int
        BY PayloadAssumption DEF Arguments
      <4>2. ciRange(k)[1] = block + 1 /\ ciRange(k)[2] = block + BlockSize - 3
        BY <3>1 DEF ciRange, _CiScopePayload
      <4> HIDE DEF block
      <4> QED
        BY <4>1, <4>2, PayloadAssumption
    <3>2. CASE k.startRange # Null
      BY <3>2 DEF ciRange, _CiScopePayload
    <3> QED
      BY <3>1, <3>2
  <2> HIDE DEF p
  <2> QED
    BY <1>2, <2>1, <2>2, PayloadAssumption
<1>7. p.subnetMask \in Sizes
  BY <1>1 DEF validate_subnet_consistency
<1> HIDE DEF p, back
<1>8. normalize_subnet_mask(back.subnetMask) = p.subnetMask
  <2>1. back.subnetMask = p.subnetMask
    BY <1>4
  <2>2. p.subnetMask # Null /\ p.subnetMask # Absent
    <3>1. \A mask \in Sizes : mask \in Int
      BY PayloadAssumption
    <3>2. \A mask \in Sizes : mask # Null /\ mask # Absent
      BY <3>1, PayloadAssumption
    <3> QED
      BY <1>7, <3>2
  <2> QED
    BY <2>1, <2>2 DEF normalize_subnet_mask
<1>9. /\ resolve_default_gateway(p.scope, back) = p.gateway
      /\ resolve_default_range(p.scope, back) = p.range
  <2>1. back.gateway # Absent /\ back.startRange # Null
    BY <1>4, <1>6, PayloadAssumption
  <2>2. p.range = <<back.startRange, back.endRange>>
    BY <1>2, <1>4
  <2> QED
    BY <2>1, <2>2, <1>4 DEF resolve_default_gateway, resolve_default_range
<1>10. (IF back.failover = Null THEN Null ELSE enforce_mode_fields(filled(back.failover)))
          = p.failover
  BY <1>3, <1>4, NothingToFill DEF Settled
<1>11. DhcpScopePayload(p.scope, back) = p
  <2>1. Values(back.exclusions) = p.exclusions
    BY <1>2, <1>4
  <2> QED
    BY <2>1, <1>4, <1>5, <1>8, <1>9, <1>10 DEF DhcpScopePayload
<1>12. Derivable(back)
  BY <1>4, <1>6, PayloadAssumption DEF Derivable
<1>13. DhcpScopeBody(back)
  <2>1. /\ back.scopeName = b.scopeName /\ back.leaseDurationDays = b.leaseDurationDays
        /\ back.dnsServers = b.dnsServers /\ back.nextServer = b.nextServer
        /\ back.bootFile = b.bootFile /\ back.exclusions = b.exclusions
    BY <1>2, <1>4 DEF BodyOf
  <2>2. pxe_options_set_together(back) <=> pxe_options_set_together(b)
    BY <2>1 DEF pxe_options_set_together
  <2>3. end_range_gte_start_range(back)
    BY <1>4, <1>6 DEF end_range_gte_start_range
  <2>4. back.failover # Null => DhcpFailover(back.failover)
    BY <1>3, <1>4 DEF Settled
  <2> QED
    <3>1. DhcpScopeBody(b)
      BY <1>1
    <3>2. /\ back.scopeName \notin {Null, Blank}
          /\ back.leaseDurationDays \in 1 .. 3650
          /\ back.dnsServers # << >>
          /\ back.nextServer # Blank /\ back.bootFile # Blank
      <4>1. /\ b.scopeName \notin {Null, Blank}
            /\ b.dnsServers # << >>
            /\ b.nextServer # Blank /\ b.bootFile # Blank
        BY <3>1 DEF DhcpScopeBody
      <4>2. b.leaseDurationDays \in 1 .. 3650
        BY <3>1 DEF DhcpScopeBody
      <4> QED
        BY <2>1, <4>1, <4>2
    <3>3. /\ \A x \in Values(back.exclusions) : end_gte_start(x)
          /\ no_duplicate_exclusions(back.exclusions)
          /\ no_overlapping_exclusions(back.exclusions)
      BY <2>1, <3>1 DEF DhcpScopeBody
    <3>4. pxe_options_set_together(back)
      BY <2>2, <3>1 DEF DhcpScopeBody
    <3> QED
      BY <3>2, <3>3, <3>4, <2>3, <2>4 DEF DhcpScopeBody
<1>14. Accepts(p.scope, back)
  BY <1>1, <1>11, <1>12, <1>13 DEF Accepts
<1> QED
  BY <1>11, <1>14 DEF p, back

\* ReadsBackUnchanged: whatever CI has let onto main, but for what inherits from
\* a file that git saw renamed, reads back once applied as it was written, in the
\* order of the values file, and sent back changes nothing (ps_parsers.py,
\* ip_utils.py and the models).
THEOREM AppliedReadsBack == Spec => []ReadsBackUnchanged
<1>1. RepoInv => ReadsBackUnchanged
  <2> SUFFICES ASSUME RepoInv, NEW h \in Hosted, Managed(File(main, h)),
                      ~Slipped(h)
               PROVE  LET p == Payload(main, h)
                          listed == GetList(ValuesOf(main, h), "exclusions")
                      IN  /\ Readings(p) = {p}
                          /\ \A i, j \in DOMAIN listed : i < j => listed[i][2] < listed[j][1]
                          /\ Accepts(p.scope, body(p, listed))
                          /\ DhcpScopePayload(p.scope, body(p, listed)) = p
    BY DEF ReadsBackUnchanged
  <2> DEFINE dv == ValuesOf(main, h)
             k == kwargs(h[3], dv)
  <2>1. validate_cluster(main, h[1], h[2], h[3]) /\ TypedTree(main)
    BY DEF RepoInv, Sound, OnlyMovesSlip, TypeOK, Managed
  <2>2. /\ DhcpValues(dv) /\ Get(dv, "network") # Null
        /\ _CiScopePayload(k) /\ ascending(k.exclusions)
    BY <2>1, ManagedIsValidated
  <2>3. Arguments(k) /\ Payload(main, h) = ciPayload(k)
    BY <2>2, WhatTheApiMakes
  <2>4. k.exclusions = GetList(dv, "exclusions")
    BY DEF kwargs
  <2>5. BodyOf(Rendered(h[3], dv), k)
    BY RenderedBody
  <2> HIDE DEF k, dv
  <2>6. Readings(ciPayload(k)) = {ciPayload(k)}
    BY <2>2, <2>3, PayloadIsSettled, PayloadReadsBack
  <2>7. \A i, j \in DOMAIN k.exclusions :
           i < j => k.exclusions[i][2] < k.exclusions[j][1]
    BY <2>2, <2>3, OneAfterTheOther DEF Arguments, _CiScopePayload
  <2>8. /\ Accepts(ciPayload(k).scope, body(ciPayload(k), k.exclusions))
        /\ DhcpScopePayload(ciPayload(k).scope, body(ciPayload(k), k.exclusions))
             = ciPayload(k)
    BY <2>2, <2>3, <2>5, SentBack
  <2> QED
    BY <2>3, <2>4, <2>6, <2>7, <2>8 DEF dv
<1> QED
  BY AlwaysRepoInv, <1>1, PTL
=============================================================================
