------------------------------ MODULE OverlayFS ------------------------------
(* The file system the code under analysis sees: what it wrote itself (the    *)
(* overlay Runtime.vfs, by the name it used), over the package (vfs/fs.go, by *)
(* the cleaned name), over invented contents (evasion.go).  The calls are     *)
(* those of fs, fs.promises (builtins.go) and of the shell (shell.go).        *)
(*                                                                            *)
(* disk is the history of a real machine given the same calls.  The           *)
(* properties say where what the code sees may part from it.                  *)
EXTENDS Naturals, SequencesExt

CONSTANTS
    Names,      \* the spellings of paths the code uses
    Denotes,    \* the file a real machine opens for each
    Package,    \* the names whose cleaned form is a file of the package
    Sensitive,  \* names whose reads the tracer follows
    Bait,       \* the invented secret each curated name serves
    EnvBait,    \* the secrets among them that environment variables hold, too
    Brief,      \* contents too short to be followed
    Staging,    \* names below a directory for temporary files
    Artifact,   \* names that would give a sandbox away
    Baited,     \* names a taint rule gives its own content
    MaxFds,     \* bound: descriptors ever opened
    MaxLen,     \* bound: pieces of content in one file
    Uses        \* bound: the sets of names used in one behaviour

Disk == {Denotes[n] : n \in Names}

Curated == DOMAIN Bait
Baits == {Bait[n] : n \in Curated} \cup EnvBait

ASSUME NameAssumption ==
    /\ DOMAIN Denotes = Names
    /\ Package \cup Sensitive \cup Curated \cup Staging \cup Artifact \cup Baited \subseteq Names
    /\ Package \cap (Staging \cup Artifact) = {} /\ Staging \cap Artifact = {}
ASSUME BaitAssumption ==
    /\ Baits \cap {"source", "rule", "filler", "written", "absent"} = {}
    /\ \A c \in Brief : ToSet(c) \cap Baits = {}
ASSUME BoundAssumption == {MaxFds, MaxLen} \subseteq Nat /\ Uses \subseteq SUBSET Names

VARIABLES
    vfs,        \* Runtime.vfs
    fds,        \* Runtime.fdPaths, with the mode of the open
    nextFd,     \* Runtime.nextFd
    redirect,   \* the file a shell redirection is collecting into, and, as
                \* history, whether it read back right before
    watched,    \* the values the tracer follows (Tracer.watched)
    disk,       \* history: the files of a real machine
    untracked,  \* history: files that share their content with another
    used        \* the names used in this behaviour

vars == <<vfs, fds, nextFd, redirect, watched, disk, untracked, used>>

Absent == <<"absent">>
Pieces == {"source", "rule", "filler", "written"} \cup Baits
Idle == [name |-> "none"]

Put(files, n, c) == [m \in DOMAIN files \cup {n} |-> IF m = n THEN c ELSE files[m]]

-----------------------------------------------------------------------------
(* Looking.                                                                   *)

InOverlay(n) == n \in DOMAIN vfs
VfsRead(n) == IF InOverlay(n) THEN vfs[n] ELSE <<"source">>
VfsHas(n)  == InOverlay(n) \/ n \in Package

(* fakeFileContent and genericFileContent: nothing is ever missing or empty.  *)
Invented(n) == IF n \in Curated THEN <<Bait[n]>> ELSE <<"filler">>

ReadFakeContent(n) ==
    IF VfsHas(n) THEN VfsRead(n) ELSE IF n \in Artifact THEN Absent ELSE Invented(n)
ReadFake(n) == IF n \in Baited THEN <<"rule">> ELSE ReadFakeContent(n)

PathExistsUnwritten(n) == n \notin Artifact /\ (n \in Package \/ n \notin Staging)
PathExists(n) == n \notin Artifact /\ (VfsHas(n) \/ n \notin Staging)

(* What a read does besides returning the content: a rule's bait is written   *)
(* to the overlay, and what a sensitive name returns is followed as a whole    *)
(* from then on unless it is short (WatchSecret).  The names that are followed *)
(* and those that serve a bait are two lists of the code.                     *)
Serve(n) == IF n \in Baited THEN Put(vfs, n, <<"rule">>) ELSE vfs
Unfollowed(n) == watched
Followed(n) ==
    IF n \in Sensitive /\ ReadFake(n) \notin Brief \cup {Absent}
    THEN watched \cup {ReadFake(n)} ELSE watched

-----------------------------------------------------------------------------
(* Changing.                                                                  *)

(* vfsWrite.                                                                  *)
OverWritten(kept, n, c, append) == Put(kept, n, c)
Written(kept, n, c, append) ==
    Put(kept, n, IF append /\ n \in DOMAIN kept THEN kept[n] \o c ELSE c)

VfsDelete(n) == [m \in DOMAIN vfs \ {n} |-> vfs[m]]

Fits(c) == Len(c) <= MaxLen
OnDisk(n, c) == disk' = [disk EXCEPT ![Denotes[n]] = c]
Bytes(c) == IF c = Absent THEN <<>> ELSE c
Handles == UNCHANGED <<fds, nextFd, redirect>>
Spread(n, m) == untracked' = IF Denotes[n] \in untracked
                             THEN untracked \cup {Denotes[m]} ELSE untracked

Init ==
    /\ vfs = << >> /\ fds = << >> /\ nextFd = 0 /\ redirect = Idle
    /\ watched = {<<b>> : b \in EnvBait} /\ untracked = {}
    /\ used \in Uses
    /\ disk = [d \in Disk |->
                  IF \E n \in Package : Denotes[n] = d THEN <<"source">>
                  ELSE IF \E n \in Staging \cup Artifact : Denotes[n] = d THEN Absent
                  ELSE Invented(CHOOSE n \in Names : /\ Denotes[n] = d
                                                     /\ \A m \in Curated :
                                                          Denotes[m] = d => n \in Curated)]

(* readFileSync, readFile, createReadStream, promises.readFile and a shell    *)
(* opening a file for reading.                                                *)
Read(n) ==
    /\ vfs' = Serve(n) /\ watched' = Followed(n)
    /\ Handles /\ UNCHANGED <<disk, untracked>>

(* writeFileSync, writeFile and tee.                                          *)
Write(n) ==
    /\ vfs' = Written(vfs, n, <<"written">>, FALSE)
    /\ OnDisk(n, <<"written">>)
    /\ Handles /\ UNCHANGED <<watched, untracked>>

(* appendFileSync.                                                            *)
AppendSync(n) ==
    LET c == Bytes(disk[Denotes[n]]) \o <<"written">>
    IN  /\ vfs' = Written(vfs, n, <<"written">>, TRUE)
        /\ Fits(vfs'[n]) /\ Fits(c) /\ OnDisk(n, c)
        /\ Handles /\ UNCHANGED <<watched, untracked>>

(* appendFile is the same function as writeFile.                              *)
AppendFile(n) ==
    LET c == Bytes(disk[Denotes[n]]) \o <<"written">>
    IN  /\ vfs' = Written(vfs, n, <<"written">>, FALSE)
        /\ Fits(c) /\ OnDisk(n, c)
        /\ Handles /\ UNCHANGED <<watched, untracked>>

(* rm, rmdir, unlink, in all three styles.                                    *)
Delete(n) ==
    /\ vfs' = VfsDelete(n) /\ OnDisk(n, Absent)
    /\ Handles /\ UNCHANGED <<watched, untracked>>

(* copyFileSync, copyFile, cpSync: a read followed by a write.                *)
CopyTo(m, n) ==
    /\ vfs' = IF ReadFake(n) = Absent THEN Serve(n)
              ELSE Written(Serve(n), m, ReadFake(n), FALSE)
    /\ watched' = Followed(n)
Copy(n, m) ==
    /\ CopyTo(m, n)
    /\ IF disk[Denotes[n]] = Absent THEN UNCHANGED disk ELSE OnDisk(m, disk[Denotes[n]])
    /\ Spread(n, m) /\ Handles

(* symlink and link, in both styles: a copy, too.                             *)
Link(n, m) ==
    /\ CopyTo(m, n)
    /\ untracked' = untracked \cup {Denotes[n], Denotes[m]}
    /\ Handles /\ UNCHANGED disk

(* renameSync and promises.rename, createWriteStream, promises.writeFile and  *)
(* promises.copyFile are recorded and not carried out.                        *)
Rename(n, m) ==
    /\ disk[Denotes[n]] # Absent /\ Denotes[n] # Denotes[m]
    /\ disk' = [disk EXCEPT ![Denotes[m]] = disk[Denotes[n]], ![Denotes[n]] = Absent]
    /\ Spread(n, m) /\ Handles /\ UNCHANGED <<vfs, watched>>
Unperformed(n) ==
    /\ OnDisk(n, <<"written">>)
    /\ Handles /\ UNCHANGED <<vfs, watched, untracked>>

-----------------------------------------------------------------------------
(* Descriptors.  Bound: none is open while a shell collects output.           *)

Open(n, mode) ==
    /\ nextFd < MaxFds /\ redirect = Idle
    /\ fds' = Put(fds, nextFd, [name |-> n, mode |-> mode]) /\ nextFd' = nextFd + 1
    /\ CASE mode = "w" -> OnDisk(n, <<>>)
         [] mode = "a" -> OnDisk(n, Bytes(disk[Denotes[n]]))
         [] mode = "r" -> UNCHANGED disk
    /\ UNCHANGED <<vfs, redirect, watched, untracked>>

(* writeSync, write: a closed descriptor names no file.                       *)
WriteFd(fd) ==
    /\ fds[fd].mode # "r"
    /\ LET n == fds[fd].name
           c == Bytes(disk[Denotes[n]]) \o <<"written">>
       IN  /\ vfs' = Written(vfs, n, <<"written">>, TRUE)
           /\ Fits(vfs'[n]) /\ Fits(c) /\ OnDisk(n, c)
    /\ Handles /\ UNCHANGED <<watched, untracked>>

ReadFd(fd) == Read(fds[fd].name)

Close(fd) ==
    /\ fds' = [g \in DOMAIN fds \ {fd} |-> fds[g]]
    /\ UNCHANGED <<vfs, nextFd, redirect, watched, disk, untracked>>

-----------------------------------------------------------------------------
(* A shell's redirection collects what is written and keeps it until the file *)
(* is closed (vfsWriteFile).                                                  *)

RedirectOpen(n, append) ==
    /\ redirect = Idle /\ fds = << >>
    /\ redirect' = [name |-> n, append |-> append, buf |-> <<>>,
                     right |-> ReadFake(n) = disk[Denotes[n]]]
    /\ OnDisk(n, IF append THEN Bytes(disk[Denotes[n]]) ELSE <<>>)
    /\ UNCHANGED <<vfs, fds, nextFd, watched, untracked>>

RedirectWrite ==
    /\ redirect # Idle /\ redirect.buf = <<>>
    /\ LET n == redirect.name
           c == Bytes(disk[Denotes[n]]) \o <<"written">>
       IN  Fits(c) /\ OnDisk(n, c)
    /\ redirect' = [redirect EXCEPT !.buf = <<"written">>]
    /\ UNCHANGED <<vfs, fds, nextFd, watched, untracked>>

RedirectClose ==
    /\ redirect # Idle
    /\ vfs' = Written(vfs, redirect.name, redirect.buf, redirect.append)
    /\ Fits(vfs'[redirect.name])
    /\ redirect' = Idle
    /\ UNCHANGED <<fds, nextFd, watched, disk, untracked>>

(* Bound: a file that is open for writing is written by nothing else, so that *)
(* no positions have to be kept apart on the real machine.                    *)
OpenForWriting ==
    {fds[fd].name : fd \in {g \in DOMAIN fds : fds[g].mode # "r"}}
        \cup (IF redirect = Idle THEN {} ELSE {redirect.name})
Free == {n \in used : \A m \in OpenForWriting : Denotes[m] # Denotes[n]}

Call ==
    \/ \E n \in used : Read(n) \/ Open(n, "r")
    \/ \E n \in used : \E m \in Free \ {n} : Copy(n, m) \/ Link(n, m)
    \/ \E n \in Free :
          \/ Write(n) \/ AppendSync(n) \/ AppendFile(n) \/ Delete(n) \/ Unperformed(n)
          \/ Open(n, "w") \/ Open(n, "a")
          \/ \E m \in Free : Rename(n, m)
          \/ \E append \in BOOLEAN : RedirectOpen(n, append)
    \/ \E fd \in DOMAIN fds : WriteFd(fd) \/ ReadFd(fd) \/ Close(fd)
    \/ RedirectWrite \/ RedirectClose

Next == Call /\ UNCHANGED used

Spec == Init /\ [][Next]_vars

-----------------------------------------------------------------------------
(* Properties.                                                                *)

Contents == Seq(Pieces)

Redirection ==
    [name : used, append : BOOLEAN, buf : {<<>>, <<"written">>}, right : BOOLEAN]

(* The overlay, the descriptors and the open redirection have the shapes the  *)
(* calls give them, and no descriptor number is given out twice.              *)
TypeOK ==
    /\ used \in Uses
    /\ DOMAIN vfs \subseteq Names /\ vfs \in [DOMAIN vfs -> Contents]
    /\ nextFd \in 0 .. MaxFds /\ DOMAIN fds \subseteq 0 .. nextFd - 1
    /\ fds \in [DOMAIN fds -> [name : used, mode : {"r", "w", "a"}]]
    /\ redirect = Idle \/ redirect \in Redirection
    /\ watched \subseteq Contents /\ untracked \subseteq Disk
    /\ disk \in [Disk -> Contents \cup {Absent}]

(* What a name reads back and what a probe of it says, against the disk.      *)
Misread   == {n \in used : /\ Denotes[n] \notin untracked
                            /\ ReadFake(n) # disk[Denotes[n]]}
Misprobed == {n \in used : /\ Denotes[n] \notin untracked
                            /\ PathExists(n) # (disk[Denotes[n]] # Absent)}

(* Calls by what they do to the file n names; WriteFd and RedirectClose       *)
(* append to it or write it through a name that was opened before.            *)
Recorded(n) ==
    \/ Unperformed(n) \/ \E m \in used : Rename(n, m) \/ Rename(m, n)
    \/ Open(n, "w") \/ Open(n, "a") \/ \E b \in BOOLEAN : RedirectOpen(n, b)
    \/ redirect.name = n /\ RedirectWrite
Appends(n) ==
    \/ AppendSync(n) \/ \E fd \in DOMAIN fds : fds[fd].name = n /\ WriteFd(fd)
    \/ redirect.name = n /\ RedirectClose
Changes(n) ==
    \/ Write(n) \/ AppendFile(n) \/ Appends(n) \/ Delete(n) \/ Recorded(n)
    \/ \E m \in used : Copy(m, n)

(* The call was about n's file, but under another name.                       *)
OtherSpelling(n) == \E m \in used \ {n} : Denotes[m] = Denotes[n] /\ Changes(m)

(* A name that reads back what a real machine would hold keeps doing so,      *)
(* except that the overlay is kept by spelling; that calls are recorded and   *)
(* not carried out, or not before the file is closed or first written; that   *)
(* a deletion uncovers what is below the overlay, an appendFile overwrites,   *)
(* and an append to a file that is not in the overlay forgets what is below;  *)
(* that a rule's bait reads the same whatever is written; and that a copy of  *)
(* what is misread is as wrong (readFakeContent, evasion.go:115: "Anything    *)
(* the sample wrote this run reads back exactly").                            *)
ReadsBack ==
    [][\A n \in Misread' \ Misread :
          \/ OtherSpelling(n) \/ n \in Baited
          \/ Recorded(n) \/ Delete(n) \/ AppendFile(n)
          \/ Appends(n) /\ ~InOverlay(n)
          \/ redirect.name = n /\ RedirectClose /\ ~redirect.right
          \/ \E m \in Misread \cup Baited : Copy(m, n)]_vars

(* A probe that tells the truth keeps doing so, except for calls that are not *)
(* carried out; that a deleted file still exists unless it is a staging file; *)
(* that a staging file a rule gives content exists once it has been read; and *)
(* that an artifact never exists, also when the code has written it           *)
(* (pathExists, runtime.go:279).                                              *)
ProbesTruthfully ==
    [][\A n \in Misprobed' \ Misprobed :
          \/ OtherSpelling(n) \/ n \in Artifact \/ n \in Baited \cap Staging
          \/ Recorded(n)
          \/ Delete(n) /\ n \notin Staging
          \/ \E m \in Misread : Copy(m, n)]_vars

(* What exists can be read and what cannot be read does not exist, except     *)
(* that a staging file that was never written can be read and that a written  *)
(* artifact can (pathExists and readFakeContent ask in different orders).     *)
ProbesAgree ==
    \A n \in used \ Baited :
        PathExists(n) # (ReadFakeContent(n) # Absent) =>
            \/ n \in Staging /\ ~InOverlay(n)
            \/ n \in Artifact /\ InOverlay(n)

(* The state is well-formed and the two ways of asking for a file agree.      *)
LooksAgree == TypeOK /\ ProbesAgree

(* The bait of a credential file is followed by the time any file of the      *)
(* overlay holds it, by whatever reads, copies and links it got there         *)
(* (readFake, evasion.go:93).  The exception is a bait that a name in use      *)
(* serves without being sensitive, as /.gnupg/secring.gpg does (evasion.go:262 *)
(* against sensitivePath, signatures.go:84).  /proc/self/environ is no such    *)
(* exception: what it serves is followed from the start (process.go:117).     *)
Slips(b) == \E n \in Curated \cap used : Bait[n] = b /\ n \notin Sensitive
SecretsFollowCopies ==
    \A n \in DOMAIN vfs : \A b \in ToSet(vfs[n]) \cap Baits :
        <<b>> \in watched \/ (Slips(b) /\ b \notin EnvBait)

(* Every bait is followed, as fakeFileContent promises ("values we then       *)
(* capture", evasion.go:137).  It is not: see SecretsFollowCopies.            *)
EverySecretFollowed ==
    \A n \in DOMAIN vfs : \A b \in ToSet(vfs[n]) \cap Baits : <<b>> \in watched

=============================================================================
