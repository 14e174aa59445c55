-------------------------------- MODULE Fetch --------------------------------
(* How a package under analysis gets into memory (loadInput of main.go): the  *)
(* version a range selects (registry/semver.go, Client.Resolve), the download *)
(* with its cache on disk (Client.Download), and the extraction into an       *)
(* in-memory file system (npm/package.go, vfs/fs.go).                         *)
(*                                                                            *)
(* Several processes, or goroutines of one, share the cache directory and may *)
(* be killed at any step.  All else is local to a worker, so that resolving   *)
(* and extracting are one step each.                                          *)
EXTENDS Integers, Sequences, SequencesExt, FiniteSets

CONSTANTS
    Workers,        \* processes or goroutines
    Published,      \* package name -> the versions the registry lists
    Spelled,        \* version -> the text of it, a sequence of characters
    Characters,     \* what names and versions are spelled with
    WordChars,      \* of these the letters, the digits, "_" and "-"
    Tagged,         \* package name -> dist-tag -> version
    Worlds,         \* what one behaviour asks for and finds, see world
    Entries,        \* the entries local tarballs are made of
    PackageDir,     \* the path component "package"
    PackageJson,    \* the path component "package.json"
    MaxEntries,     \* maxEntries of extractTarGzToFS
    MaxBytes,       \* maxBytes of extractTarGzToFS
    MaxTarball,     \* bound: entries of a local tarball
    MaxAsks         \* bound: requests of a worker

ASSUME LimitAssumption ==
    {MaxEntries, MaxTarball, MaxAsks} \subseteq Nat /\ MaxBytes \in Nat \ {0}
ASSUME ComponentAssumption == {PackageDir, PackageJson} \subseteq Nat
ASSUME NameAssumption == DOMAIN Tagged = DOMAIN Published

Version == [num : [1..3 -> Nat], pre : STRING]
Comparator == [op : {">=", "<=", ">", "<", "^", "~", "="}, num : [1..3 -> Nat],
               parts : 0..3, parsed : BOOLEAN]
Entry == [kind : {"dir", "file", "link"}, path : Seq(Nat), up : BOOLEAN, size : Nat,
          json : STRING]

\* "none" is the word of a range that is not a single word.
ASSUME RegistryAssumption ==
    \A n \in DOMAIN Published :
        /\ IsFiniteSet(Published[n]) /\ Published[n] \subseteq Version
        /\ "none" \notin DOMAIN Tagged[n]
\* A name is a sequence of characters, too; a registry lists no text twice.
ASSUME SpellingAssumption ==
    /\ {"_", "-"} \subseteq WordChars /\ WordChars \subseteq Characters /\ "." \notin WordChars
    /\ \A n \in DOMAIN Published :
         /\ n \in Seq(Characters) \ {<<>>}
         /\ \A v \in Published[n] : Spelled[v] \in Seq(Characters) \ {<<>>}
         /\ \A u, v \in Published[n] : Spelled[u] = Spelled[v] => u = v
\* The components a comparator does not write read as zero (parseVer).
ASSUME WorldAssumption ==
    /\ Entries \subseteq Entry
    /\ \A v \in Worlds :
         /\ v.caching \in BOOLEAN /\ v.oversized \in BOOLEAN /\ v.entries \in Seq(Entry)
         /\ \A r \in v.asks :
              \/ r.from \in {"dir", "tarball"}
              \/ /\ r.from = "registry" /\ r.name \in DOMAIN Published
                 /\ \A alt \in r.range.any : \A c \in alt :
                      c \in Comparator /\ \A k \in (c.parts + 1)..3 : c.num[k] = 0

VARIABLES
    world,  \* [asks, entries, caching, oversized], fixed
    cache,  \* the files of CacheDir
    job     \* the request each worker is at

vars == <<world, cache, job>>

-----------------------------------------------------------------------------
(* Versions are [num, pre]: three numbers, and what parseVer strips.  A       *)
(* comparator is [op, num, parts, parsed]: parts components were written, the *)
(* others read as zero.  A range is [word, any]: the text when it is a single *)
(* word, and the alternatives, each a set of comparators that must all hold.  *)

Below(a, b) == \E k \in 1..3 : a[k] < b[k] /\ \A j \in 1..(k - 1) : a[j] = b[j]

CaretByMajor(v, c) == ~Below(v, c.num) /\ v[1] = c.num[1]
Caret(v, c) == /\ ~Below(v, c.num) /\ v[1] = c.num[1]
               /\ c.num[1] = 0 => v[2] = c.num[2]
Tilde(v, c) == ~Below(v, c.num) /\ v[1] = c.num[1] /\ v[2] = c.num[2]
Bare(v, c)  == /\ v[1] = c.num[1]
               /\ c.parts >= 2 => v[2] = c.num[2]
               /\ c.parts = 3 => v[3] = c.num[3]

SatisfiesOne(v, c) ==
    CASE c.op = ">=" -> ~Below(v, c.num)
      [] c.op = "<=" -> ~Below(c.num, v)
      [] c.op = ">"  -> Below(c.num, v)
      [] c.op = "<"  -> Below(v, c.num)
      [] c.op = "^"  -> c.parsed => Caret(v, c)
      [] c.op = "~"  -> c.parsed => Tilde(v, c)
      [] c.op = "="  -> c.parsed => Bare(v, c)

Satisfies(v, rng) ==
    \/ rng.word \in {"", "*", "x", "latest"}
    \/ \E alt \in rng.any : \A c \in alt : SatisfiesOne(v.num, c)

Tag(name, word) ==
    {v \in Published[name] : word \in DOMAIN Tagged[name] /\ v = Tagged[name][word]}
Candidates(name, rng) == {v \in Published[name] : Satisfies(v, rng)}

\* The versions are visited in the random order of a Go map, and only a greater
\* one replaces the best so far: of equals any may win.
Best(name, rng) ==
    {v \in Candidates(name, rng) : \A u \in Candidates(name, rng) : ~Below(v.num, u.num)}
Latest(name) == Tag(name, "latest")

FirstOf(sets) ==
    IF \A i \in DOMAIN sets : sets[i] = {} THEN {}
    ELSE sets[CHOOSE i \in DOMAIN sets : sets[i] # {} /\ \A j \in 1..(i - 1) : sets[j] = {}]
Resolve(name, rng) ==
    FirstOf(<<Tag(name, rng.word),
              IF rng.word \in {"", "*", "latest"} THEN Latest(name) ELSE {},
              Best(name, rng),
              Latest(name)>>)

-----------------------------------------------------------------------------
(* A tree is [files, dirs] over paths that are sequences of components, which *)
(* are numbers in the order of their bytes.  An entry of a tarball, or of a   *)
(* directory, is [kind, path, up, size, json].                                *)

EmptyTree == [files |-> <<>>, dirs |-> {<<>>}]

Upwards(p) == {SubSeq(p, 1, k) : k \in 0..Len(p)}
Mkdir(t, p) == [t EXCEPT !.dirs = @ \cup Upwards(p)]
Write(t, p, content) ==
    [Mkdir(t, Front(p)) EXCEPT !.files =
        [q \in DOMAIN @ \cup {p} |-> IF q = p THEN content ELSE @[q]]]
Exists(t, p) == p \in DOMAIN t.files \cup t.dirs

Smaller(a, b) == IF a < b THEN a ELSE b

\* The copy of an entry is bounded by what the cap leaves.
CapOverrun(total) == total > MaxBytes
CapReached(total) == total >= MaxBytes
Store(s, e) ==
    LET n == Smaller(e.size, MaxBytes - s.total)
    IN [s EXCEPT !.total = @ + n,
                 !.tree = Write(@, e.path, [size |-> n, entry |-> e]),
                 !.refused = CapReached(s.total + n)]

Full(n) == n > MaxEntries
ExtractEntry(s, e) ==
    LET counted == [s EXCEPT !.entries = @ + 1]
    IN IF s.refused THEN s
       ELSE IF Full(counted.entries) THEN [counted EXCEPT !.refused = TRUE]
       ELSE IF e.up THEN counted
       ELSE CASE e.kind = "dir"  -> [counted EXCEPT !.tree = Mkdir(@, e.path)]
              [] e.kind = "file" -> Store(counted, e)
              [] e.kind = "link" -> counted

Opened == [tree |-> EmptyTree, total |-> 0, entries |-> 0, refused |-> FALSE]
Extract(entries) ==
    LET after[i \in 0..Len(entries)] ==
            IF i = 0 THEN Opened ELSE ExtractEntry(after[i - 1], entries[i])
    IN after[Len(entries)]

\* findPackageRoot: the shallowest manifest, of equally deep ones the first.
Manifests(t) == {p \in DOMAIN t.files : p # <<>> /\ Last(p) = PackageJson}
Before(p, q) == \E k \in DOMAIN p : p[k] < q[k] /\ \A j \in 1..(k - 1) : p[j] = q[j]
Conventional(t) == Exists(t, <<PackageDir, PackageJson>>)
PackageRoot(t) ==
    IF Conventional(t) THEN <<PackageDir>>
    ELSE Front(CHOOSE p \in Manifests(t) : \A q \in Manifests(t) \ {p} :
                  Len(p) < Len(q) \/ (Len(p) = Len(q) /\ Before(p, q)))

\* The files below the root of the package, re-rooted.
Rerooted(t, root) ==
    LET inside(paths) == {q \in paths : Len(q) > Len(root) /\ IsPrefix(root, q)}
        rest(q) == SubSeq(q, Len(root) + 1, Len(q))
    IN [files |-> [p \in {rest(q) : q \in inside(DOMAIN t.files)} |-> t.files[root \o p]],
        dirs  |-> {rest(q) : q \in inside(t.dirs)} \cup {<<>>}]

\* ReadManifest and Manifest.UnmarshalJSON: a field of another type than its
\* own is dropped, but scripts and the dependencies must be objects or absent.
ManifestReads(t) ==
    /\ <<PackageJson>> \in DOMAIN t.files
    /\ t.files[<<PackageJson>>].entry.json \in {"plain", "odd values"}

Nothing == [ok |-> FALSE, tree |-> EmptyTree]
Loaded(t) == IF ManifestReads(t) THEN [ok |-> TRUE, tree |-> t] ELSE Nothing

LoadTarball(entries) ==
    LET s == Extract(entries)
    IN IF s.refused \/ ~(Conventional(s.tree) \/ Manifests(s.tree) # {}) THEN Nothing
       ELSE Loaded(Rerooted(s.tree, PackageRoot(s.tree)))

\* ingestDir: no caps, nothing but directories and regular files.
IngestEntry(t, e) ==
    CASE e.kind = "dir"  -> Mkdir(t, e.path)
      [] e.kind = "file" -> Write(t, e.path, [size |-> e.size, entry |-> e])
      [] e.kind = "link" -> t
Ingest(entries) ==
    LET after[i \in 0..Len(entries)] ==
            IF i = 0 THEN EmptyTree ELSE IngestEntry(after[i - 1], entries[i])
    IN after[Len(entries)]
LoadDir(entries) ==
    IF \A i \in DOMAIN entries : entries[i].path # <<PackageJson>> THEN Nothing
    ELSE Loaded(Ingest(entries))

-----------------------------------------------------------------------------
(* The steps of a worker.                                                     *)

CacheSlug(s) ==
    IF s = <<>> THEN <<"_">>
    ELSE [i \in DOMAIN s |-> IF s[i] \in WordChars \/ (s[i] = "." /\ i # 1) THEN s[i] ELSE "-"]
CacheName(name, v) == CacheSlug(name) \o <<"-">> \o CacheSlug(Spelled[v])

Dest(w)   == CacheName(job[w].ask.name, job[w].vm)
Cached(f) == f \in DOMAIN cache /\ cache[f].len # "empty"

None == [num |-> <<0, 0, 0>>, pre |-> "none"]
Idle(n) == [pc |-> "idle", asks |-> n, ask |-> [from |-> "none"], vm |-> None,
            data |-> <<>>, pkg |-> Nothing]

Init ==
    /\ \/ world \in Worlds
       \/ \E n \in 0..MaxTarball : \E t \in [1..n -> Entries] :
            world = [asks |-> {[from |-> "tarball"]}, entries |-> t,
                     caching |-> FALSE, oversized |-> FALSE]
    /\ cache = <<>>
    /\ job = [w \in Workers |-> Idle(0)]

Become(w, j) == job' = [job EXCEPT ![w] = j]
Goes(w, pc)  == [job[w] EXCEPT !.pc = pc]

\* loadInput, with the request for the metadata: it may fail, and no version of
\* the package may do.
Ask(w) ==
    /\ job[w].pc \in {"idle", "done", "failed"} /\ job[w].asks < MaxAsks
    /\ \E r \in world.asks :
         LET with(vm, pc) == [Idle(job[w].asks + 1) EXCEPT !.ask = r, !.vm = vm, !.pc = pc]
         IN \/ r.from # "registry" /\ Become(w, with(None, "load"))
            \/ r.from = "registry" /\ Become(w, with(None, "failed"))
            \/ /\ r.from = "registry"
               /\ \E vm \in Resolve(r.name, r.range) :
                    Become(w, with(vm, IF world.caching THEN "look" ELSE "get"))
    /\ UNCHANGED <<world, cache>>

\* Download, up to the request: an empty file in the cache is no hit.
Look(w) ==
    /\ job[w].pc = "look"
    /\ IF Cached(Dest(w))
       THEN Become(w, [Goes(w, "load") EXCEPT !.data = cache[Dest(w)]])
       ELSE Become(w, Goes(w, "get"))
    /\ UNCHANGED <<world, cache>>

\* The body is read to its end or to 256 MB, whichever comes first.
Body(w) == [of |-> <<job[w].ask.name, job[w].vm>>,
            len |-> IF world.oversized THEN "part" ELSE "whole"]
Get(w) ==
    /\ job[w].pc = "get"
    /\ \/ Become(w, Goes(w, "failed"))
       \/ Become(w, [Goes(w, IF world.caching THEN "save" ELSE "load")
                        EXCEPT !.data = Body(w)])
    /\ UNCHANGED <<world, cache>>

Filed(w, len) == [f \in DOMAIN cache \cup {Dest(w)} |->
                    IF f = Dest(w) THEN [of |-> job[w].data.of, len |-> len] ELSE cache[f]]

\* os.WriteFile truncates, writes piece by piece, and may fail at any point;
\* the error is dropped and what was written stays.
Save(w) ==
    /\ \/ /\ job[w].pc = "save"
          /\ cache' = Filed(w, "empty") /\ Become(w, Goes(w, "saving"))
       \/ /\ job[w].pc = "saving"
          /\ cache' = Filed(w, "part") /\ Become(w, Goes(w, "saved"))
       \/ /\ job[w].pc = "saved"
          /\ cache' = Filed(w, job[w].data.len) /\ Become(w, Goes(w, "load"))
       \/ /\ job[w].pc \in {"save", "saving", "saved"}
          /\ cache' = cache /\ Become(w, Goes(w, "load"))
    /\ UNCHANGED world

\* A tarball that ends early is an error of the gzip or of the tar reader.
LoadCut(data, entries) == LoadTarball(entries)
LoadData(data, entries) == IF data.len = "part" THEN Nothing ELSE LoadTarball(entries)
Load(w) ==
    /\ job[w].pc = "load"
    /\ LET pkg == IF job[w].ask.from = "dir" THEN LoadDir(world.entries)
                  ELSE IF job[w].ask.from = "tarball" THEN LoadTarball(world.entries)
                  ELSE LoadData(job[w].data, world.entries)
       IN Become(w, [Goes(w, IF pkg.ok THEN "done" ELSE "failed") EXCEPT !.pkg = pkg])
    /\ UNCHANGED <<world, cache>>

\* The process is killed; the files of the cache stay as they are.
Crash(w) ==
    /\ job[w].pc \notin {"idle", "done", "failed"}
    /\ Become(w, Idle(job[w].asks))
    /\ UNCHANGED <<world, cache>>

Next == \E w \in Workers :
            Ask(w) \/ Look(w) \/ Get(w) \/ Save(w) \/ Load(w) \/ Crash(w)

Spec == Init /\ [][Next]_vars

-----------------------------------------------------------------------------
(* Properties.                                                                *)

\* The job of a worker, what it got and the files of the cache are well-formed.
TypeOK ==
    /\ \A f \in DOMAIN cache : cache[f].len \in {"empty", "part", "whole"}
    /\ \A w \in Workers :
         /\ job[w].pc \in {"idle", "look", "get", "save", "saving", "saved", "load",
                           "done", "failed"}
         /\ job[w].asks \in 0..MaxAsks
         /\ job[w].pc \in {"look", "save", "saving", "saved"} => world.caching
         /\ job[w].vm = None \/ job[w].vm \in Published[job[w].ask.name]
         /\ job[w].pkg.ok <=> job[w].pc = "done"

\* A name or version that its slug says in full, with nothing to take for the
\* dash between the two.
Plain(s) == CacheSlug(s) = s /\ "-" \notin ToSet(s)

\* Client.Download and its cache (registry.go:162-164): whatever writers, readers
\* and crashes have done to the file, a package that loads comes from a complete
\* tarball, and this is the tarball of the version asked for.  The exception is
\* another name or version whose file has the same name: the slugs of name and
\* version are joined by a dash that either may contain (registry.go:179).  No
\* such file is ever served for a plain name and version, say lodash 4.17.21.
LoadedIsAsked ==
    \A w \in Workers :
        job[w].pc = "done" /\ job[w].ask.from = "registry" =>
            LET name == job[w].ask.name
                of == job[w].data.of
            IN /\ job[w].data.len = "whole"
               /\ \/ of = <<name, job[w].vm>>
                  \/ /\ world.caching
                     /\ CacheName(of[1], of[2]) = CacheName(name, job[w].vm)
                     /\ ~(Plain(name) /\ Plain(Spelled[job[w].vm]))

\* What npm's ranges mean, as intervals: a comparator admits the versions from
\* Floor up to, but not including, Ceiling.
Next1(num, parts) ==
    [k \in 1..3 |-> IF k < parts THEN num[k] ELSE IF k = parts THEN num[k] + 1 ELSE 0]
Fixed(c) == CHOOSE k \in 1..3 : /\ c.num[k] # 0 \/ k = c.parts
                                /\ \A j \in 1..(k - 1) : c.num[j] = 0 /\ j # c.parts
Floor(c) == CASE c.op \in {"<", "<="} -> <<0, 0, 0>>
              [] c.op = ">" -> Next1(c.num, c.parts)
              [] c.op \in {"^", "~", "=", ">="} -> c.num
Meets(v, c) ==
    /\ ~Below(v, Floor(c))
    /\ CASE c.op = "<" -> Below(v, c.num)
         [] c.op \in {"<=", "="} -> Below(v, Next1(c.num, c.parts))
         [] c.op = "~" -> Below(v, Next1(c.num, Smaller(2, c.parts)))
         [] c.op = "^" -> Below(v, Next1(c.num, Fixed(c)))
         [] c.op \in {">", ">="} -> TRUE

\* The comparators the code reads as npm does.
Agreed(c) ==
    /\ c.parsed
    /\ c.op = "^" => c.num[1] > 0 \/ c.num[2] > 0
    /\ c.op = "~" => c.parts >= 2
    /\ c.op = "=" => c.parts >= 1
    /\ c.op \in {">", "<="} => c.parts = 3

\* Client.Resolve (registry.go:66-67): where no pre-release is published and
\* some version meets the range, the answer is the highest that does, in every
\* order in which the versions are visited.
ResolvesToHighest ==
    \A w \in Workers :
        LET rng == job[w].ask.range
            all == Published[job[w].ask.name]
            meeting == {v \in all : \E alt \in rng.any : \A c \in alt : Meets(v.num, c)}
        IN /\ job[w].vm # None /\ rng.word = "none"
           /\ \A v \in all : v.pre = "none"
           /\ \A alt \in rng.any : \A c \in alt : Agreed(c)
           /\ meeting # {}
           => job[w].vm \in meeting /\ \A v \in meeting : ~Below(job[w].vm.num, v.num)

Admitted(e) == e.kind = "file" /\ ~e.up
LastOf(entries, i) == \A j \in (i + 1)..Len(entries) :
                        ~(Admitted(entries[j]) /\ entries[j].path = entries[i].path)

\* The extraction cap (package.go:238, :263-276): a tree that is accepted lacks
\* nothing and has no file cut short - each file is the last entry of its path,
\* with all its bytes, and every such entry below the root of the package is there.
NothingIsCut ==
    \A w \in Workers :
        LET t == job[w].pkg.tree
            es == world.entries
            sizes == {i \in DOMAIN es : Admitted(es[i]) /\ LastOf(es, i)}
        IN job[w].pc = "done" =>
             /\ \A p \in DOMAIN t.files : t.files[p].size = t.files[p].entry.size
             /\ \A i \in sizes :
                  IsPrefix(<<PackageDir>>, es[i].path) /\ Len(es[i].path) > 1
                  /\ (\E j \in sizes : es[j].path = <<PackageDir, PackageJson>>)
                  /\ job[w].ask.from # "dir"
                  => /\ Tail(es[i].path) \in DOMAIN t.files
                     /\ t.files[Tail(es[i].path)].entry = es[i]

\* The file system of the package (vfs/fs.go:60-79): every directory above a file
\* or directory of the loaded tree is known, so that a listing reaches all files.
TreeIsClosed ==
    \A w \in Workers :
        LET t == job[w].pkg.tree
        IN /\ \A p \in DOMAIN t.files : Upwards(Front(p)) \subseteq t.dirs
           /\ \A p \in t.dirs : Upwards(p) \subseteq t.dirs

TotalSize(es) ==
    LET upto[i \in 0..Len(es)] == IF i = 0 THEN 0 ELSE upto[i - 1] + es[i].size
    IN upto[Len(es)]

\* extractTarGzToFS (package.go:236-243): an ordinary tarball - below both caps,
\* with a readable manifest in its package directory - is never refused, even with
\* entries that are skipped among its own.
OrdinaryLoads ==
    \A w \in Workers :
        LET es == world.entries
        IN /\ job[w].pc = "failed" /\ job[w].ask.from = "tarball"
           => \/ Len(es) > MaxEntries
              \/ TotalSize(es) >= MaxBytes
              \/ ~\E i \in DOMAIN es :
                    /\ Admitted(es[i]) /\ LastOf(es, i)
                    /\ es[i].path = <<PackageDir, PackageJson>>
                    /\ es[i].json \in {"plain", "odd values"}

\* Extraction is exact (package.go:236-300): the state is well-formed, what is
\* accepted lacks nothing and lists every file, and what is ordinary is accepted.
ExtractionIsExact == TypeOK /\ NothingIsCut /\ TreeIsClosed /\ OrdinaryLoads
=============================================================================
