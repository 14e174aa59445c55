--------------------------- MODULE OverlayFSProofs ---------------------------
(* Proofs about OverlayFS, for any names, spellings, kinds of files, numbers  *)
(* of descriptors and lengths of contents.                                    *)
EXTENDS OverlayFS, TLAPS, SequenceTheorems

-----------------------------------------------------------------------------
(* Contents and the overlay as a function                                     *)

LEMMA NothingIsContent == Absent \notin Contents
<1>1. Absent[1] \notin Pieces /\ 1 \in 1 .. Len(Absent)
  BY BaitAssumption DEF Absent, Pieces
<1> QED
  BY <1>1 DEF Contents

LEMMA Joined ==
  ASSUME NEW c \in Contents, NEW d \in Contents
  PROVE  /\ c \o d \in Contents
         /\ ToSet(c \o d) = ToSet(c) \cup ToSet(d)
<1>1. /\ c \in Seq(Pieces) /\ d \in Seq(Pieces) /\ c \o d \in Seq(Pieces)
      /\ Len(c \o d) = Len(c) + Len(d) /\ Len(c) \in Nat /\ Len(d) \in Nat
      /\ \A i \in 1 .. Len(c) : (c \o d)[i] = c[i]
      /\ \A i \in 1 .. Len(d) : (c \o d)[Len(c) + i] = d[i]
  BY DEF Contents
<1>2. \A i \in 1 .. Len(c) + Len(d) : i \in 1 .. Len(c) \/ i - Len(c) \in 1 .. Len(d)
  BY <1>1
<1>3. ASSUME NEW x \in ToSet(c \o d) PROVE x \in ToSet(c) \cup ToSet(d)
  <2>1. PICK i \in 1 .. Len(c) + Len(d) : x = (c \o d)[i]
    BY <1>1, <1>3 DEF ToSet
  <2> QED
    BY <1>1, <1>2, <2>1 DEF ToSet
<1>4. ASSUME NEW x \in ToSet(c) \cup ToSet(d) PROVE x \in ToSet(c \o d)
  <2>1. CASE x \in ToSet(c)
    BY <1>1, <2>1 DEF ToSet
  <2>2. CASE x \in ToSet(d)
    <3>1. PICK i \in 1 .. Len(d) : x = d[i]
      BY <1>1, <2>2 DEF ToSet
    <3>2. Len(c) + i \in 1 .. Len(c \o d) /\ x = (c \o d)[Len(c) + i]
      BY <1>1, <3>1
    <3> QED
      BY <1>1, <3>2 DEF ToSet
  <2> QED
    BY <1>4, <2>1, <2>2
<1> QED
  BY <1>1, <1>3, <1>4 DEF Contents

\* The pieces the calls put together.
LEMMA Pieced ==
  /\ \A p \in Pieces : <<p>> \in Contents /\ ToSet(<<p>>) = {p}
  /\ <<>> \in Contents /\ ToSet(<<>>) = {}
<1>1. ASSUME NEW p \in Pieces PROVE <<p>> \in Contents /\ ToSet(<<p>>) = {p}
  BY DEF Contents, ToSet
<1> QED
  BY <1>1 DEF Contents, ToSet

\* A file that was never written holds a piece, which is a bait for the curated.
LEMMA Inventing ==
  ASSUME NEW n
  PROVE  /\ Invented(n) \in Contents
         /\ \/ n \in Curated /\ Invented(n) = <<Bait[n]>> /\ ToSet(Invented(n)) = {Bait[n]}
            \/ n \notin Curated /\ ToSet(Invented(n)) = {"filler"}
<1>1. CASE n \in Curated
  <2>1. Bait[n] \in Pieces
    BY <1>1 DEF Pieces, Baits
  <2>2. Invented(n) = <<Bait[n]>>
    BY <1>1 DEF Invented
  <2> QED
    BY <1>1, <2>1, <2>2, Pieced
<1>2. CASE n \notin Curated
  <2>1. "filler" \in Pieces /\ Invented(n) = <<"filler">>
    BY <1>2 DEF Invented, Pieces
  <2> QED
    BY <1>2, <2>1, Pieced
<1> QED
  BY <1>1, <1>2

\* What reading returns and keeps is content.
LEMMA Reading ==
  ASSUME TypeOK, NEW n \in Names
  PROVE  /\ ReadFake(n) \in Contents \cup {Absent}
         /\ Serve(n) = [m \in DOMAIN Serve(n) |-> Serve(n)[m]]
         /\ DOMAIN Serve(n) = IF n \in Baited THEN DOMAIN vfs \cup {n} ELSE DOMAIN vfs
         /\ \A m \in DOMAIN Serve(n) : Serve(n)[m] = IF m = n /\ n \in Baited THEN <<"rule">> ELSE vfs[m]
<1>1. /\ <<"rule">> \in Contents /\ <<"source">> \in Contents /\ Invented(n) \in Contents
  BY Pieced, Inventing DEF Pieces
<1>2. n \in DOMAIN vfs => vfs[n] \in Contents
  BY DEF TypeOK
<1>3. ReadFake(n) \in Contents \cup {Absent}
  BY <1>1, <1>2 DEF ReadFake, ReadFakeContent, VfsHas, VfsRead, InOverlay
<1> QED
  BY <1>3 DEF Serve, Put, TypeOK

\* An overlay of contents stays one, and only the name written changes.
Layer(v) == DOMAIN v \subseteq Names /\ v \in [DOMAIN v -> Contents]

LEMMA Layering ==
  ASSUME NEW v, Layer(v), NEW n \in Names, NEW c \in Contents, NEW append \in BOOLEAN
  PROVE  /\ Layer(Written(v, n, c, append))
         /\ DOMAIN Written(v, n, c, append) = DOMAIN v \cup {n}
         /\ Written(v, n, c, append)[n] = IF append /\ n \in DOMAIN v THEN v[n] \o c ELSE c
         /\ \A m \in DOMAIN v \ {n} : Written(v, n, c, append)[m] = v[m]
<1>1. n \in DOMAIN v => v[n] \o c \in Contents
  BY Joined DEF Layer
<1> QED
  BY <1>1 DEF Written, Put, Layer

LEMMA Serving ==
  ASSUME TypeOK, NEW n \in Names
  PROVE  Layer(Serve(n))
<1>1. <<"rule">> \in Contents
  BY Pieced DEF Pieces
<1> QED
  BY <1>1, Reading DEF Layer, TypeOK

\* The names a call is about are among those used.
LEMMA NamesInUse ==
  ASSUME TypeOK
  PROVE  /\ used \subseteq Names /\ Free \subseteq used /\ Layer(vfs)
         /\ \A n \in used : Denotes[n] \in Disk /\ disk[Denotes[n]] \in Contents \cup {Absent}
         /\ \A fd \in DOMAIN fds : fds[fd].name \in used /\ fds[fd].mode \in {"r", "w", "a"}
<1>1. used \subseteq Names
  BY BoundAssumption DEF TypeOK
<1> QED
  BY <1>1 DEF TypeOK, Free, Disk, Layer

\* What the real machine appends to is content.
LEMMA Appending ==
  ASSUME TypeOK, NEW n \in used
  PROVE  /\ Bytes(disk[Denotes[n]]) \in Contents
         /\ <<"written">> \in Contents /\ <<>> \in Contents
         /\ Bytes(disk[Denotes[n]]) \o <<"written">> \in Contents
<1>1. <<"written">> \in Contents /\ <<>> \in Contents
  BY Pieced DEF Pieces
<1>2. Bytes(disk[Denotes[n]]) \in Contents
  BY <1>1, NamesInUse DEF Bytes
<1> QED
  BY <1>1, <1>2, Joined

-----------------------------------------------------------------------------
(* Types                                                                      *)

\* The parts of the state that a call leaves alone or changes as a type allows.
LEMMA Typed ==
  ASSUME TypeOK, UNCHANGED used, Layer(vfs'), watched' \subseteq Contents,
         untracked' \subseteq Disk, disk' \in [Disk -> Contents \cup {Absent}],
         nextFd' \in 0 .. MaxFds, DOMAIN fds' \subseteq 0 .. nextFd' - 1,
         fds' \in [DOMAIN fds' -> [name : used, mode : {"r", "w", "a"}]],
         redirect' = Idle \/ redirect' \in Redirection
  PROVE  TypeOK'
BY DEF TypeOK, Layer, Redirection

LEMMA FollowedTyped ==
  ASSUME TypeOK, NEW n \in used
  PROVE  Followed(n) \subseteq Contents
<1>1. ReadFake(n) # Absent => ReadFake(n) \in Contents
  BY Reading, NamesInUse
<1> QED
  BY <1>1 DEF Followed, TypeOK

LEMMA CopyTyped ==
  ASSUME TypeOK, NEW n \in used, NEW m \in used, CopyTo(m, n)
  PROVE  Layer(vfs') /\ watched' \subseteq Contents
<1>1. n \in Names /\ m \in Names /\ Layer(Serve(n))
  BY NamesInUse, Serving
<1>2. ReadFake(n) # Absent => ReadFake(n) \in Contents
  BY <1>1, Reading
<1>3. ReadFake(n) # Absent => Layer(Written(Serve(n), m, ReadFake(n), FALSE))
  BY <1>1, <1>2, Layering
<1> QED
  BY <1>1, <1>3, FollowedTyped DEF CopyTo

LEMMA CallTyped ==
  ASSUME TypeOK, Call, UNCHANGED used
  PROVE  TypeOK'
<1> USE NamesInUse
<1>0. /\ Layer(vfs) /\ watched \subseteq Contents /\ untracked \subseteq Disk
      /\ disk \in [Disk -> Contents \cup {Absent}]
      /\ nextFd \in 0 .. MaxFds /\ DOMAIN fds \subseteq 0 .. nextFd - 1
      /\ fds \in [DOMAIN fds -> [name : used, mode : {"r", "w", "a"}]]
      /\ redirect = Idle \/ redirect \in Redirection
      /\ \A n \in used : n \in Names
      /\ Free \subseteq used
  BY DEF TypeOK
<1>1. ASSUME NEW n \in used, Read(n) PROVE TypeOK'
  BY <1>0, <1>1, FollowedTyped, Serving, Typed DEF Read, Handles
<1>2. ASSUME NEW n \in used, NEW mode \in {"r", "w", "a"}, Open(n, mode) PROVE TypeOK'
  <2>0. <<>> \in Contents /\ Bytes(disk[Denotes[n]]) \in Contents
    BY Appending
  <2>1. disk' \in [Disk -> Contents \cup {Absent}]
    BY <1>0, <1>2, <2>0 DEF Open, OnDisk
  <2>2. /\ nextFd' \in 0 .. MaxFds /\ DOMAIN fds' \subseteq 0 .. nextFd' - 1
        /\ fds' \in [DOMAIN fds' -> [name : used, mode : {"r", "w", "a"}]]
    BY <1>0, <1>2, BoundAssumption DEF Open, Put
  <2> QED
    BY <1>0, <1>2, <2>1, <2>2, Typed DEF Open
<1>3. ASSUME NEW n \in used, NEW m \in used, Copy(n, m) \/ Link(n, m) PROVE TypeOK'
  <2>1. CopyTo(m, n) /\ Handles
    BY <1>3 DEF Copy, Link
  <2>2. disk' \in [Disk -> Contents \cup {Absent}] /\ untracked' \subseteq Disk
    BY <1>0, <1>3 DEF Copy, Link, OnDisk, Spread
  <2> QED
    BY <1>0, <2>1, <2>2, CopyTyped, Typed DEF Handles
<1>4. ASSUME NEW n \in used, Write(n) \/ AppendSync(n) \/ AppendFile(n) PROVE TypeOK'
  <2>0. PICK c \in Contents, d \in Contents :
          c = <<"written">> /\ d = Bytes(disk[Denotes[n]]) \o <<"written">>
    BY Appending
  <2>1. disk' = [disk EXCEPT ![Denotes[n]] = c] \/ disk' = [disk EXCEPT ![Denotes[n]] = d]
    BY <1>4, <2>0 DEF Write, AppendSync, AppendFile, OnDisk
  <2>2. disk' \in [Disk -> Contents \cup {Absent}]
    BY <1>0, <2>1
  <2>3. PICK append \in BOOLEAN : vfs' = Written(vfs, n, c, append)
    BY <1>4, <2>0 DEF Write, AppendSync, AppendFile
  <2>4. Layer(Written(vfs, n, c, append))
    BY <1>0, Layering
  <2>5. Layer(vfs')
    BY <2>3, <2>4
  <2> QED
    BY <1>0, <1>4, <2>2, <2>5, Typed DEF Write, AppendSync, AppendFile, Handles
<1>5. ASSUME NEW n \in used, Delete(n) PROVE TypeOK'
  <2>1. disk' \in [Disk -> Contents \cup {Absent}]
    BY <1>0, <1>5 DEF Delete, OnDisk
  <2>2. Layer(vfs')
    BY <1>0, <1>5 DEF Delete, VfsDelete, Layer
  <2> QED
    BY <1>0, <1>5, <2>1, <2>2, Typed DEF Delete, Handles
<1>6. ASSUME NEW n \in used, Unperformed(n) PROVE TypeOK'
  <2>1. disk' \in [Disk -> Contents \cup {Absent}]
    BY <1>0, <1>6, Appending DEF Unperformed, OnDisk
  <2> QED
    BY <1>0, <1>6, <2>1, Typed DEF Unperformed, Handles
<1>7. ASSUME NEW n \in used, NEW m \in used, Rename(n, m) PROVE TypeOK'
  <2>1. disk' \in [Disk -> Contents \cup {Absent}] /\ untracked' \subseteq Disk
    BY <1>0, <1>7 DEF Rename, Spread
  <2> QED
    BY <1>0, <1>7, <2>1, Typed DEF Rename, Handles
<1>8. ASSUME NEW n \in used, NEW append \in BOOLEAN, RedirectOpen(n, append) PROVE TypeOK'
  <2>1. disk' \in [Disk -> Contents \cup {Absent}]
    BY <1>0, <1>8, Appending DEF RedirectOpen, OnDisk
  <2>2. redirect' \in Redirection
    BY <1>8 DEF RedirectOpen, Redirection
  <2> QED
    BY <1>0, <1>8, <2>1, <2>2, Typed DEF RedirectOpen
<1>9. ASSUME NEW fd \in DOMAIN fds, WriteFd(fd) PROVE TypeOK'
  <2>1. fds[fd].name \in used
    OBVIOUS
  <2>2. disk' \in [Disk -> Contents \cup {Absent}]
    BY <1>0, <1>9, <2>1, Appending DEF WriteFd, OnDisk
  <2>3. Layer(vfs')
    BY <1>0, <1>9, <2>1, Appending, Layering DEF WriteFd
  <2> QED
    BY <1>0, <1>9, <2>2, <2>3, Typed DEF WriteFd, Handles
<1>10. ASSUME NEW fd \in DOMAIN fds, ReadFd(fd) PROVE TypeOK'
  BY <1>1, <1>10 DEF ReadFd
<1>11. ASSUME NEW fd \in DOMAIN fds, Close(fd) PROVE TypeOK'
  <2>1. DOMAIN fds' \subseteq 0 .. nextFd' - 1 /\ fds' \in [DOMAIN fds' -> [name : used, mode : {"r", "w", "a"}]]
    BY <1>0, <1>11 DEF Close
  <2> QED
    BY <1>0, <1>11, <2>1, Typed DEF Close
<1>12. ASSUME RedirectWrite PROVE TypeOK'
  <2>1. redirect \in Redirection
    BY <1>0, <1>12 DEF RedirectWrite
  <2>2. redirect.name \in used /\ redirect' \in Redirection
    BY <1>12, <2>1 DEF RedirectWrite, Redirection
  <2>3. disk' \in [Disk -> Contents \cup {Absent}]
    BY <1>0, <1>12, <2>2, Appending DEF RedirectWrite, OnDisk
  <2> QED
    BY <1>0, <1>12, <2>2, <2>3, Typed DEF RedirectWrite
<1>13. ASSUME RedirectClose PROVE TypeOK'
  <2>1. redirect \in Redirection
    BY <1>0, <1>13 DEF RedirectClose
  <2>2. redirect.name \in Names /\ redirect.append \in BOOLEAN /\ redirect.buf \in Contents
    BY <1>0, <2>1, Pieced DEF Redirection, Pieces
  <2>3. Layer(vfs')
    BY <1>0, <1>13, <2>2, Layering DEF RedirectClose
  <2> QED
    BY <1>0, <1>13, <2>3, Typed DEF RedirectClose
<1> QED
  BY <1>0, <1>1, <1>2, <1>3, <1>4, <1>5, <1>6, <1>7, <1>8, <1>9, <1>10, <1>11, <1>12, <1>13 DEF Call

LEMMA InitTyped == Init => TypeOK
<1> SUFFICES ASSUME Init PROVE TypeOK
  OBVIOUS
<1>1. <<"source">> \in Contents /\ \A n : Invented(n) \in Contents
  BY Pieced, Inventing DEF Pieces
<1>2. disk \in [Disk -> Contents \cup {Absent}]
  BY <1>1 DEF Init
<1>4. watched \subseteq Contents
  BY Pieced DEF Init, Pieces, Baits
<1>3. DOMAIN vfs = {} /\ DOMAIN fds = {} /\ vfs \in [{} -> Contents] /\ fds \in [{} -> [name : used, mode : {"r", "w", "a"}]]
  BY DEF Init
<1> QED
  BY <1>2, <1>3, <1>4, BoundAssumption DEF Init, TypeOK

LEMMA TypesRemain == TypeOK /\ [Next]_vars => TypeOK'
<1>1. TypeOK /\ UNCHANGED vars => TypeOK'
  BY DEF TypeOK, vars, Redirection
<1> QED
  BY <1>1, CallTyped DEF Next

\* TypeOK: the shapes of the overlay, the descriptors and the redirection.
THEOREM TypeCorrect == Spec => []TypeOK
  BY InitTyped, TypesRemain, PTL DEF Spec

-----------------------------------------------------------------------------
(* What exists and what can be read                                           *)

LEMMA ProbesAgreeWhenTyped == TypeOK => ProbesAgree
<1> SUFFICES ASSUME TypeOK, NEW n \in used \ Baited,
                    PathExists(n) # (ReadFakeContent(n) # Absent)
             PROVE  (n \in Staging /\ ~InOverlay(n)) \/ (n \in Artifact /\ InOverlay(n))
  BY DEF ProbesAgree
<1>1. InOverlay(n) => vfs[n] # Absent
  BY NothingIsContent DEF TypeOK, InOverlay
<1>2. <<"source">> # Absent /\ Invented(n) # Absent
  BY NothingIsContent, Pieced, Inventing DEF Pieces
<1>3. VfsHas(n) => ReadFakeContent(n) # Absent
  BY <1>1, <1>2 DEF ReadFakeContent, VfsRead
<1>4. ~VfsHas(n) => (ReadFakeContent(n) # Absent <=> n \notin Artifact)
  BY <1>2, NameAssumption DEF ReadFakeContent, VfsHas
<1>5. PathExists(n) <=> n \notin Artifact /\ (VfsHas(n) \/ n \notin Staging)
  BY DEF PathExists
<1>6. ~(PathExists(n) <=> ReadFakeContent(n) # Absent)
  BY DEF PathExists
<1>7. CASE VfsHas(n)
  BY <1>3, <1>5, <1>6, <1>7, NameAssumption DEF VfsHas
<1>8. CASE ~VfsHas(n)
  BY <1>4, <1>5, <1>6, <1>8 DEF VfsHas
<1> QED
  BY <1>7, <1>8

\* LooksAgree: what exists can be read and what cannot be read does not exist,
\* staging files and artifacts apart (runtime.go:279, evasion.go:115).
THEOREM LookingAgrees == Spec => []LooksAgree
  BY TypeCorrect, ProbesAgreeWhenTyped, PTL DEF LooksAgree

-----------------------------------------------------------------------------
(* Secrets                                                                    *)

\* A content whose baits are followed, the exceptions of the property apart.
Safe(c, followed) ==
    \A b \in ToSet(c) \cap Baits : <<b>> \in followed \/ (Slips(b) /\ b \notin EnvBait)
AllSafe(v, followed) == \A n \in DOMAIN v : Safe(v[n], followed)

LEMMA SafetyIs == SecretsFollowCopies <=> AllSafe(vfs, watched)
BY DEF SecretsFollowCopies, AllSafe, Safe

LEMMA SafetyKept ==
  ASSUME UNCHANGED used, AllSafe(vfs', watched')
  PROVE  SecretsFollowCopies'
BY DEF SecretsFollowCopies, AllSafe, Safe, Slips

\* Following more keeps a content safe.
LEMMA SaferWithMore ==
  ASSUME NEW c, NEW followed, NEW more, followed \subseteq more, Safe(c, followed)
  PROVE  Safe(c, more)
BY DEF Safe

\* The pieces that are no bait.
LEMMA NoBait ==
  ASSUME NEW followed
  PROVE  /\ Safe(<<>>, followed)
         /\ \A p \in {"source", "rule", "filler", "written"} : Safe(<<p>>, followed)
<1>1. ToSet(<<>>) = {} /\ \A p \in {"source", "rule", "filler", "written"} : ToSet(<<p>>) = {p}
  BY Pieced DEF Pieces
<1>2. \A p \in {"source", "rule", "filler", "written"} : p \notin Baits
  BY BaitAssumption
<1> QED
  BY <1>1, <1>2 DEF Safe

\* Writing what is safe.
LEMMA SecretsWritten ==
  ASSUME NEW v, Layer(v), NEW n \in Names, NEW c \in Contents, NEW append \in BOOLEAN,
         NEW followed, Safe(c, followed), AllSafe(v, followed)
  PROVE  AllSafe(Written(v, n, c, append), followed)
<1>1. n \in DOMAIN v => ToSet(v[n] \o c) = ToSet(v[n]) \cup ToSet(c)
  BY Joined DEF Layer
<1>2. n \in DOMAIN v => Safe(v[n] \o c, followed)
  BY <1>1 DEF Safe, AllSafe
<1> QED
  BY <1>2 DEF Written, Put, AllSafe

\* What a curated name serves when nothing was written: it is followed by then, or
\* the name is one that slips.
LEMMA ServedIsSafe ==
  ASSUME TypeOK, {<<b>> : b \in EnvBait} \subseteq watched, NEW n \in used,
         ReadFake(n) = Invented(n), ReadFake(n) # Absent
  PROVE  Safe(ReadFake(n), Followed(n))
<1>1. watched \subseteq Followed(n)
  BY DEF Followed
<1>2. CASE n \notin Curated
  <2>1. ReadFake(n) = <<"filler">>
    BY <1>2 DEF Invented
  <2> QED
    BY <2>1, NoBait
<1>3. CASE n \in Curated
  <2>1. ReadFake(n) = <<Bait[n]>> /\ ToSet(ReadFake(n)) = {Bait[n]} /\ Bait[n] \in Baits
    BY <1>3, Inventing DEF Baits
  <2>2. CASE n \notin Sensitive /\ Bait[n] \notin EnvBait
    BY <1>3, <2>1, <2>2 DEF Safe, Slips
  <2>3. CASE Bait[n] \in EnvBait
    BY <1>1, <2>1, <2>3 DEF Safe
  <2>4. CASE n \in Sensitive
    <3>1. ReadFake(n) \notin Brief
      BY <2>1, BaitAssumption
    <3>2. <<Bait[n]>> \in Followed(n)
      BY <2>1, <2>4, <3>1 DEF Followed
    <3> QED
      BY <2>1, <3>2 DEF Safe
  <2> QED
    BY <2>2, <2>3, <2>4
<1> QED
  BY <1>2, <1>3

\* The values of environment variables are followed from the start.
EnvFollowed == {<<b>> : b \in EnvBait} \subseteq watched

LEMMA SecretsServed ==
  ASSUME TypeOK, SecretsFollowCopies, EnvFollowed, NEW n \in used
  PROVE  /\ AllSafe(Serve(n), Followed(n))
         /\ watched \subseteq Followed(n)
         /\ ReadFake(n) # Absent => Safe(ReadFake(n), Followed(n))
<1>1. n \in Names /\ AllSafe(vfs, watched)
  BY NamesInUse, SafetyIs
<1>2. watched \subseteq Followed(n)
  BY DEF Followed
<1>3. AllSafe(Serve(n), Followed(n))
  <2> SUFFICES ASSUME NEW m \in DOMAIN Serve(n) PROVE Safe(Serve(n)[m], Followed(n))
    BY DEF AllSafe
  <2>1. Serve(n)[m] = <<"rule">> \/ (m \in DOMAIN vfs /\ Serve(n)[m] = vfs[m])
    BY <1>1, Reading
  <2> QED
    BY <1>1, <1>2, <2>1, NoBait, SaferWithMore DEF AllSafe
<1>4. ASSUME ReadFake(n) # Absent PROVE Safe(ReadFake(n), Followed(n))
  <2>1. \/ ReadFake(n) = <<"rule">> \/ ReadFake(n) = <<"source">> \/ ReadFake(n) = Invented(n)
        \/ n \in DOMAIN vfs /\ ReadFake(n) = vfs[n]
    BY <1>4 DEF ReadFake, ReadFakeContent, VfsHas, VfsRead, InOverlay
  <2>2. CASE ReadFake(n) = <<"rule">> \/ ReadFake(n) = <<"source">>
    BY <2>2, NoBait
  <2>3. CASE ReadFake(n) = Invented(n)
    BY <1>4, <2>3, ServedIsSafe DEF EnvFollowed
  <2>4. CASE n \in DOMAIN vfs /\ ReadFake(n) = vfs[n]
    BY <1>1, <1>2, <2>4, SaferWithMore DEF AllSafe
  <2> QED
    BY <2>1, <2>2, <2>3, <2>4
<1> QED
  BY <1>2, <1>3, <1>4

LEMMA SecretsCopied ==
  ASSUME TypeOK, SecretsFollowCopies, EnvFollowed, UNCHANGED used,
         NEW n \in used, NEW m \in used, CopyTo(m, n)
  PROVE  SecretsFollowCopies'
<1>1. n \in Names /\ m \in Names /\ Layer(Serve(n))
  BY NamesInUse, Serving
<1>2. /\ AllSafe(Serve(n), watched')
      /\ ReadFake(n) # Absent => Safe(ReadFake(n), watched')
  BY SecretsServed DEF CopyTo
<1>3. CASE ReadFake(n) = Absent
  BY <1>2, <1>3, SafetyKept DEF CopyTo
<1>4. CASE ReadFake(n) # Absent
  <2>1. PICK c \in Contents : c = ReadFake(n)
    BY <1>1, <1>4, Reading
  <2>2. vfs' = Written(Serve(n), m, c, FALSE) /\ Safe(c, watched')
    BY <1>2, <1>4, <2>1 DEF CopyTo
  <2>3. AllSafe(Written(Serve(n), m, c, FALSE), watched')
    BY <1>1, <1>2, <2>2, SecretsWritten
  <2> QED
    BY <2>2, <2>3, SafetyKept
<1> QED
  BY <1>3, <1>4

\* The calls that write what the code itself has made.
LEMMA SecretsMade ==
  ASSUME TypeOK, SecretsFollowCopies, UNCHANGED <<watched, used>>, NEW n \in Names,
         NEW c \in {<<>>, <<"written">>}, NEW append \in BOOLEAN, vfs' = Written(vfs, n, c, append)
  PROVE  SecretsFollowCopies'
<1>1. c \in Contents /\ Safe(c, watched)
  BY Pieced, NoBait DEF Pieces
<1>2. AllSafe(Written(vfs, n, c, append), watched)
  BY <1>1, NamesInUse, SafetyIs, SecretsWritten
<1>3. AllSafe(vfs', watched')
  BY <1>2
<1> QED
  BY <1>3, SafetyKept

LEMMA SecretsRemain ==
  ASSUME TypeOK, SecretsFollowCopies, EnvFollowed, [Next]_vars
  PROVE  SecretsFollowCopies' /\ EnvFollowed'
<1> USE NamesInUse
<1>0. UNCHANGED used /\ watched \subseteq watched'
  <2>1. CASE UNCHANGED vars
    BY <2>1 DEF vars
  <2>2. CASE Next
    BY <2>2 DEF Next, Call, Read, Open, Copy, Link, Write, AppendSync, AppendFile, Delete,
                Unperformed, Rename, RedirectOpen, WriteFd, ReadFd, Close, RedirectWrite,
                RedirectClose, CopyTo, Followed
  <2> QED
    BY <2>1, <2>2
<1>1. ASSUME UNCHANGED <<vfs, watched>> PROVE SecretsFollowCopies'
  BY <1>0, <1>1, SafetyIs, SafetyKept
<1>2. ASSUME NEW n \in used, Read(n) PROVE SecretsFollowCopies'
  <2>1. AllSafe(vfs', watched')
    BY <1>2, SecretsServed DEF Read
  <2> QED
    BY <1>0, <2>1, SafetyKept
<1>3. ASSUME NEW n \in used, NEW m \in used, Copy(n, m) \/ Link(n, m) PROVE SecretsFollowCopies'
  BY <1>0, <1>3, SecretsCopied DEF Copy, Link
<1>4. ASSUME NEW n \in used, Write(n) \/ AppendSync(n) \/ AppendFile(n) PROVE SecretsFollowCopies'
  <2>1. PICK append \in BOOLEAN : vfs' = Written(vfs, n, <<"written">>, append)
    BY <1>4 DEF Write, AppendSync, AppendFile
  <2>2. UNCHANGED watched
    BY <1>4 DEF Write, AppendSync, AppendFile
  <2> QED
    BY <1>0, <2>1, <2>2, SecretsMade
<1>5. ASSUME NEW n \in used, Delete(n) PROVE SecretsFollowCopies'
  <2>1. AllSafe(vfs', watched')
    BY <1>5, SafetyIs DEF Delete, VfsDelete, AllSafe
  <2> QED
    BY <1>0, <2>1, SafetyKept
<1>6. ASSUME NEW fd \in DOMAIN fds, WriteFd(fd) PROVE SecretsFollowCopies'
  <2>1. vfs' = Written(vfs, fds[fd].name, <<"written">>, TRUE) /\ UNCHANGED watched
    BY <1>6 DEF WriteFd
  <2>2. fds[fd].name \in Names
    OBVIOUS
  <2> QED
    BY <1>0, <2>1, <2>2, SecretsMade
<1>7. ASSUME RedirectClose PROVE SecretsFollowCopies'
  <2>1. redirect \in Redirection
    BY <1>7 DEF RedirectClose, TypeOK
  <2>2. /\ redirect.name \in Names /\ redirect.buf \in {<<>>, <<"written">>}
        /\ redirect.append \in BOOLEAN
    BY <2>1 DEF Redirection
  <2> QED
    BY <1>0, <1>7, <2>2, SecretsMade DEF RedirectClose
<1>8. ASSUME NEW n \in used, NEW m \in used, Rename(n, m) \/ Unperformed(n) PROVE SecretsFollowCopies'
  BY <1>1, <1>8 DEF Rename, Unperformed
<1>9. ASSUME NEW n \in used, NEW mode, NEW append, Open(n, mode) \/ RedirectOpen(n, append)
      PROVE  SecretsFollowCopies'
  BY <1>1, <1>9 DEF Open, RedirectOpen
<1>10. ASSUME NEW fd \in DOMAIN fds, ReadFd(fd) \/ Close(fd) PROVE SecretsFollowCopies'
  BY <1>1, <1>2, <1>10 DEF ReadFd, Close
<1>11. ASSUME UNCHANGED vars PROVE SecretsFollowCopies'
  <2>1. UNCHANGED <<vfs, watched>>
    BY <1>11 DEF vars
  <2> QED
    BY <1>1, <2>1
<1>12. ASSUME RedirectWrite PROVE SecretsFollowCopies'
  <2>1. UNCHANGED <<vfs, watched>>
    BY <1>12 DEF RedirectWrite
  <2> QED
    BY <1>1, <2>1
<1>13. SecretsFollowCopies'
  BY <1>2, <1>3, <1>4, <1>5, <1>6, <1>7, <1>8, <1>9, <1>10, <1>11, <1>12 DEF Next, Call
<1> QED
  BY <1>0, <1>13 DEF EnvFollowed

\* SecretsFollowCopies: by whatever reads, copies, links, appends and redirections
\* the bait of a credential file gets into another file, the tracer follows it by
\* then (evasion.go:93), unless a name that is not sensitive serves the same bait
\* (evasion.go:262).
THEOREM SecretsAreFollowed == Spec => []SecretsFollowCopies
<1>1. Init => SecretsFollowCopies /\ EnvFollowed
  BY DEF Init, SecretsFollowCopies, EnvFollowed
<1>2. /\ TypeOK /\ SecretsFollowCopies /\ EnvFollowed /\ [Next]_vars
      => SecretsFollowCopies' /\ EnvFollowed'
  BY SecretsRemain
<1> QED
  BY <1>1, <1>2, TypeCorrect, PTL DEF Spec

-----------------------------------------------------------------------------
(* What a call leaves alone                                                   *)

\* What the overlay has under n stays.
Same(n) == /\ InOverlay(n)' <=> InOverlay(n)
           /\ InOverlay(n) => vfs'[n] = vfs[n]
Kept(n) == Same(n) /\ disk'[Denotes[n]] = disk[Denotes[n]]

LEMMA SameIsSeen ==
  ASSUME NEW n, Same(n)
  PROVE  ReadFake(n)' = ReadFake(n) /\ PathExists(n)' = PathExists(n)
BY DEF Same, ReadFake, ReadFakeContent, VfsHas, VfsRead, InOverlay, Invented, PathExists

\* Writing one name leaves the others alone.
LEMMA OthersStay ==
  ASSUME NEW v, Layer(v), NEW k \in Names, NEW c \in Contents, NEW append \in BOOLEAN,
         vfs' = Written(v, k, c, append), NEW n, n # k,
         n \in DOMAIN v <=> n \in DOMAIN vfs, n \in DOMAIN vfs => v[n] = vfs[n]
  PROVE  Same(n)
<1>1. /\ DOMAIN Written(v, k, c, append) = DOMAIN v \cup {k}
      /\ \A m \in DOMAIN v \ {k} : Written(v, k, c, append)[m] = v[m]
  BY DEF Written, Put
<1>2. /\ DOMAIN vfs' = DOMAIN v \cup {k}
      /\ \A m \in DOMAIN v \ {k} : vfs'[m] = v[m]
  BY <1>1
<1> QED
  BY <1>2 DEF Same, InOverlay

LEMMA ServingKeeps ==
  ASSUME TypeOK, NEW k \in used, NEW n, n # k \/ n \notin Baited
  PROVE  /\ n \in DOMAIN Serve(k) <=> n \in DOMAIN vfs
         /\ n \in DOMAIN vfs => Serve(k)[n] = vfs[n]
BY Reading, NamesInUse

LEMMA CopyKeeps ==
  ASSUME TypeOK, NEW k \in used, NEW m \in used, CopyTo(m, k),
         NEW n, n # m, n # k \/ n \notin Baited
  PROVE  Same(n)
<1>1. /\ n \in DOMAIN Serve(k) <=> n \in DOMAIN vfs
      /\ n \in DOMAIN vfs => Serve(k)[n] = vfs[n]
  BY ServingKeeps
<1>2. CASE ReadFake(k) = Absent
  BY <1>1, <1>2 DEF CopyTo, Same, InOverlay
<1>3. CASE ReadFake(k) # Absent
  <2>1. PICK c \in Contents : c = ReadFake(k)
    BY <1>3, Reading, NamesInUse
  <2>2. vfs' = Written(Serve(k), m, c, FALSE)
    BY <1>3, <2>1 DEF CopyTo
  <2>3. m \in Names /\ Layer(Serve(k)) /\ FALSE \in BOOLEAN
    BY NamesInUse, Serving
  <2> QED
    BY <1>1, <2>2, <2>3, OthersStay
<1> QED
  BY <1>2, <1>3

\* Calls whose history writes one file.
LEMMA DiskKept ==
  ASSUME TypeOK, NEW k \in used, NEW c, OnDisk(k, c), NEW n \in used, Denotes[n] # Denotes[k]
  PROVE  disk'[Denotes[n]] = disk[Denotes[n]]
BY NamesInUse DEF OnDisk, TypeOK

\* A call that writes the overlay under k and the file that k denotes.
LEMMA OneWritten ==
  ASSUME TypeOK, NEW k \in used, NEW append \in BOOLEAN, NEW c \in Contents,
         vfs' = Written(vfs, k, c, append),
         UNCHANGED disk \/ \E d : OnDisk(k, d),
         NEW n \in used, n # k, Denotes[n] # Denotes[k]
  PROVE  Kept(n)
<1>1. k \in Names /\ Layer(vfs)
  BY NamesInUse
<1>2. Same(n)
  BY <1>1, OthersStay
<1> QED
  BY <1>2, DiskKept DEF Kept

\* Any call leaves a name alone, or is about its file, or reads a rule's bait.
Touched(n) == \/ OtherSpelling(n) \/ Changes(n) \/ Denotes[n] \in untracked'
              \/ n \in Baited /\ disk'[Denotes[n]] = disk[Denotes[n]]

LEMMA WriteTouches ==
  ASSUME TypeOK, NEW k \in used, NEW append \in BOOLEAN, NEW c \in Contents,
         vfs' = Written(vfs, k, c, append), UNCHANGED disk \/ \E d : OnDisk(k, d),
         Changes(k), NEW n \in used
  PROVE  Kept(n) \/ Touched(n)
<1>1. CASE n = k
  BY <1>1 DEF Touched
<1>2. CASE n # k /\ Denotes[n] = Denotes[k]
  BY <1>2 DEF Touched, OtherSpelling
<1>3. CASE n # k /\ Denotes[n] # Denotes[k]
  BY <1>3, OneWritten
<1> QED
  BY <1>1, <1>2, <1>3

LEMMA RecordTouches ==
  ASSUME TypeOK, NEW k \in used, UNCHANGED vfs, UNCHANGED disk \/ \E d : OnDisk(k, d),
         Changes(k), NEW n \in used
  PROVE  Kept(n) \/ Touched(n)
<1>0. Same(n)
  BY DEF Same, InOverlay
<1>1. CASE n = k
  BY <1>1 DEF Touched
<1>2. CASE n # k /\ Denotes[n] = Denotes[k]
  BY <1>2 DEF Touched, OtherSpelling
<1>3. CASE n # k /\ Denotes[n] # Denotes[k]
  BY <1>0, <1>3, DiskKept DEF Kept
<1> QED
  BY <1>1, <1>2, <1>3

LEMMA CallTouches ==
  ASSUME TypeOK, Call, UNCHANGED used, NEW n \in used
  PROVE  Kept(n) \/ Touched(n)
<1> USE NamesInUse
<1>0. <<"written">> \in Contents /\ <<>> \in Contents
  BY Pieced DEF Pieces
<1>1. ASSUME NEW k \in used, Read(k) PROVE Kept(n) \/ Touched(n)
  <2>1. UNCHANGED disk /\ vfs' = Serve(k)
    BY <1>1 DEF Read
  <2>2. n # k \/ n \notin Baited => Same(n)
    BY <2>1, ServingKeeps DEF Same, InOverlay
  <2> QED
    BY <2>1, <2>2 DEF Kept, Touched
<1>2. ASSUME NEW k \in used, NEW mode \in {"r", "w", "a"}, Open(k, mode) PROVE Kept(n) \/ Touched(n)
  <2>1. UNCHANGED vfs
    BY <1>2 DEF Open
  <2>2. CASE mode = "r"
    BY <1>2, <2>1, <2>2 DEF Open, Kept, Same, InOverlay
  <2>3. CASE mode \in {"w", "a"}
    <3>1. (\E d : OnDisk(k, d)) /\ Changes(k)
      BY <1>2, <2>3 DEF Open, Changes, Recorded
    <3> QED
      BY <2>1, <3>1, RecordTouches
  <2> QED
    BY <2>2, <2>3
<1>3. ASSUME NEW k \in used, NEW m \in used, Copy(k, m) PROVE Kept(n) \/ Touched(n)
  <2>1. Changes(m) /\ CopyTo(m, k) /\ (UNCHANGED disk \/ \E d : OnDisk(m, d))
    BY <1>3 DEF Copy, Changes
  <2>2. CASE n = m
    BY <2>1, <2>2 DEF Touched
  <2>3. CASE n # m /\ Denotes[n] = Denotes[m]
    BY <2>1, <2>3 DEF Touched, OtherSpelling
  <2>4. CASE n # m /\ Denotes[n] # Denotes[m]
    <3>1. disk'[Denotes[n]] = disk[Denotes[n]]
      BY <2>1, <2>4, DiskKept
    <3>2. n # k \/ n \notin Baited => Same(n)
      BY <2>1, <2>4, CopyKeeps
    <3> QED
      BY <3>1, <3>2 DEF Kept, Touched
  <2> QED
    BY <2>2, <2>3, <2>4
<1>4. ASSUME NEW k \in used, NEW m \in used, Link(k, m) PROVE Kept(n) \/ Touched(n)
  <2>1. CopyTo(m, k) /\ UNCHANGED disk /\ {Denotes[k], Denotes[m]} \subseteq untracked'
    BY <1>4 DEF Link
  <2>2. CASE Denotes[n] \in {Denotes[k], Denotes[m]}
    BY <2>1, <2>2 DEF Touched
  <2>3. CASE Denotes[n] \notin {Denotes[k], Denotes[m]}
    BY <2>1, <2>3, CopyKeeps DEF Kept
  <2> QED
    BY <2>2, <2>3
<1>5. ASSUME NEW k \in used, Write(k) \/ AppendSync(k) \/ AppendFile(k) PROVE Kept(n) \/ Touched(n)
  <2>1. /\ \E append \in BOOLEAN : vfs' = Written(vfs, k, <<"written">>, append)
        /\ \E d : OnDisk(k, d)
        /\ Changes(k)
    BY <1>5 DEF Write, AppendSync, AppendFile, Changes, Appends
  <2> QED
    BY <1>0, <2>1, WriteTouches
<1>6. ASSUME NEW k \in used, Delete(k) PROVE Kept(n) \/ Touched(n)
  <2>1. OnDisk(k, Absent) /\ Changes(k) /\ (n # k => Same(n))
    BY <1>6 DEF Delete, VfsDelete, Changes, Same, InOverlay
  <2>2. CASE n = k
    BY <2>1, <2>2 DEF Touched
  <2>3. CASE n # k /\ Denotes[n] = Denotes[k]
    BY <2>1, <2>3 DEF Touched, OtherSpelling
  <2>4. CASE n # k /\ Denotes[n] # Denotes[k]
    BY <2>1, <2>4, DiskKept DEF Kept
  <2> QED
    BY <2>2, <2>3, <2>4
<1>7. ASSUME NEW k \in used, Unperformed(k) PROVE Kept(n) \/ Touched(n)
  <2>1. UNCHANGED vfs /\ (\E d : OnDisk(k, d)) /\ Changes(k)
    BY <1>7 DEF Unperformed, Changes, Recorded
  <2> QED
    BY <2>1, RecordTouches
<1>8. ASSUME NEW k \in used, NEW m \in used, Rename(k, m) PROVE Kept(n) \/ Touched(n)
  <2>1. Changes(k) /\ Changes(m) /\ UNCHANGED vfs
    BY <1>8 DEF Changes, Recorded, Rename
  <2>2. CASE n \in {k, m}
    BY <2>1, <2>2 DEF Touched
  <2>3. CASE n \notin {k, m} /\ Denotes[n] \in {Denotes[k], Denotes[m]}
    BY <2>1, <2>3 DEF Touched, OtherSpelling
  <2>4. CASE Denotes[n] \notin {Denotes[k], Denotes[m]}
    BY <1>8, <2>1, <2>4 DEF Rename, Kept, Same, InOverlay, TypeOK
  <2> QED
    BY <2>2, <2>3, <2>4
<1>9. ASSUME NEW k \in used, NEW append \in BOOLEAN, RedirectOpen(k, append) PROVE Kept(n) \/ Touched(n)
  <2>1. UNCHANGED vfs /\ (\E d : OnDisk(k, d)) /\ Changes(k)
    BY <1>9 DEF RedirectOpen, Changes, Recorded
  <2> QED
    BY <2>1, RecordTouches
<1>10. ASSUME NEW fd \in DOMAIN fds, WriteFd(fd) PROVE Kept(n) \/ Touched(n)
  <2>1. PICK k \in used : k = fds[fd].name
    OBVIOUS
  <2>2. /\ vfs' = Written(vfs, k, <<"written">>, TRUE)
        /\ \E d : OnDisk(k, d)
        /\ Changes(k)
    BY <1>10, <2>1 DEF WriteFd, Changes, Appends
  <2> QED
    BY <1>0, <2>2, WriteTouches
<1>11. ASSUME NEW fd \in DOMAIN fds, ReadFd(fd) PROVE Kept(n) \/ Touched(n)
  BY <1>1, <1>11 DEF ReadFd
<1>12. ASSUME NEW fd \in DOMAIN fds, Close(fd) PROVE Kept(n) \/ Touched(n)
  BY <1>12 DEF Close, Kept, Same, InOverlay
<1>13. ASSUME RedirectWrite PROVE Kept(n) \/ Touched(n)
  <2>1. redirect \in Redirection
    BY <1>13 DEF RedirectWrite, TypeOK
  <2>2. PICK k \in used : k = redirect.name
    BY <2>1 DEF Redirection
  <2>3. UNCHANGED vfs /\ (\E d : OnDisk(k, d)) /\ Changes(k)
    BY <1>13, <2>2 DEF RedirectWrite, Changes, Recorded
  <2> QED
    BY <2>3, RecordTouches
<1>14. ASSUME RedirectClose PROVE Kept(n) \/ Touched(n)
  <2>1. redirect \in Redirection
    BY <1>14 DEF RedirectClose, TypeOK
  <2>2. PICK k \in used, c \in Contents, append \in BOOLEAN :
          k = redirect.name /\ c = redirect.buf /\ append = redirect.append
    BY <1>0, <2>1 DEF Redirection
  <2>3. vfs' = Written(vfs, k, c, append) /\ UNCHANGED disk /\ Changes(k)
    BY <1>14, <2>2 DEF RedirectClose, Changes, Appends
  <2> QED
    BY <2>3, WriteTouches
<1> QED
  BY <1>1, <1>2, <1>3, <1>4, <1>5, <1>6, <1>7, <1>8, <1>9, <1>10, <1>11, <1>12, <1>13, <1>14 DEF Call

-----------------------------------------------------------------------------
(* A redirection                                                              *)

\* While a shell collects output no descriptor is open, and the real file is
\* there; if it could be read back right it holds what the overlay will once the
\* output is kept.
Collected ==
    redirect # Idle =>
        LET file == disk[Denotes[redirect.name]]
        IN  /\ DOMAIN fds = {} /\ file # Absent
            /\ redirect.right /\ redirect.name \notin Baited =>
                 /\ ~redirect.append => file = redirect.buf
                 /\ redirect.append /\ InOverlay(redirect.name) =>
                       file = vfs[redirect.name] \o redirect.buf

\* Nothing else writes the file meanwhile.
LEMMA RedirectionIsAlone ==
  ASSUME TypeOK, Call, UNCHANGED used, redirect # Idle, redirect' = redirect, DOMAIN fds = {}
  PROVE  /\ disk'[Denotes[redirect.name]] = disk[Denotes[redirect.name]]
         /\ redirect.name \notin Baited => Same(redirect.name)
         /\ DOMAIN fds' = {}
<1>0. <<"written">> \in Contents
  BY Pieced DEF Pieces
<1>r. PICK r \in used : r = redirect.name
  BY DEF TypeOK, Redirection
<1>f. /\ \A k \in Free : k \in used /\ k # r /\ Denotes[r] # Denotes[k]
      /\ \A k \in used : k \in Names
  BY <1>r, NamesInUse DEF Free, OpenForWriting
<1> DEFINE Alone == /\ disk'[Denotes[r]] = disk[Denotes[r]]
                    /\ r \notin Baited => Same(r)
                    /\ DOMAIN fds' = {}
<1>1. ASSUME NEW k \in used, Read(k) PROVE Alone
  <2>1. r \notin Baited => Same(r)
    BY <1>1, ServingKeeps DEF Read, Same, InOverlay
  <2> QED
    BY <1>1, <2>1 DEF Read, Handles
<1>2. ASSUME NEW k \in used, NEW m \in Free, Copy(k, m) \/ Link(k, m) PROVE Alone
  <2>1. CopyTo(m, k) /\ Handles /\ (UNCHANGED disk \/ \E d : OnDisk(m, d))
    BY <1>2 DEF Copy, Link
  <2>2. disk'[Denotes[r]] = disk[Denotes[r]]
    BY <1>f, <2>1, DiskKept
  <2>3. r \notin Baited => Same(r)
    BY <1>f, <2>1, CopyKeeps
  <2> QED
    BY <2>1, <2>2, <2>3 DEF Handles
<1>3. ASSUME NEW k \in Free, Write(k) \/ AppendSync(k) \/ AppendFile(k) PROVE Alone
  <2>1. /\ \E append \in BOOLEAN : vfs' = Written(vfs, k, <<"written">>, append)
        /\ (\E d : OnDisk(k, d)) /\ Handles
    BY <1>3 DEF Write, AppendSync, AppendFile
  <2>2. Kept(r)
    BY <1>0, <1>f, <2>1, OneWritten
  <2> QED
    BY <2>1, <2>2 DEF Kept, Handles
<1>4. ASSUME NEW k \in Free, Delete(k) PROVE Alone
  <2>1. disk'[Denotes[r]] = disk[Denotes[r]]
    BY <1>4, <1>f, DiskKept DEF Delete
  <2> QED
    BY <1>4, <1>f, <2>1 DEF Delete, VfsDelete, Same, InOverlay, Handles
<1>5. ASSUME NEW k \in Free, Unperformed(k) PROVE Alone
  <2>1. disk'[Denotes[r]] = disk[Denotes[r]]
    BY <1>5, <1>f, DiskKept DEF Unperformed
  <2> QED
    BY <1>5, <2>1 DEF Unperformed, Same, InOverlay, Handles
<1>6. ASSUME NEW k \in Free, NEW m \in Free, Rename(k, m) PROVE Alone
  <2>1. Denotes[r] \in Disk
    BY NamesInUse
  <2> QED
    BY <1>6, <1>f, <2>1 DEF Rename, Same, InOverlay, Handles, TypeOK
<1>7. ~(\E n, mode : Open(n, mode)) /\ ~(\E n, append : RedirectOpen(n, append))
  BY DEF Open, RedirectOpen
<1>8. ~RedirectWrite /\ ~RedirectClose
  <2>1. redirect \in Redirection
    BY DEF TypeOK
  <2>2. ~RedirectWrite
    BY <2>1 DEF RedirectWrite, Redirection
  <2> QED
    BY <2>2 DEF RedirectClose
<1>9. Alone
  BY <1>1, <1>2, <1>3, <1>4, <1>5, <1>6, <1>7, <1>8 DEF Call
<1> QED
  BY <1>r, <1>9

LEMMA CollectedOnOpen ==
  ASSUME TypeOK, NEW n \in used, NEW append \in BOOLEAN, RedirectOpen(n, append)
  PROVE  Collected'
<1>1. /\ redirect' = [name |-> n, append |-> append, buf |-> <<>>,
                       right |-> ReadFake(n) = disk[Denotes[n]]]
      /\ UNCHANGED <<vfs, fds>> /\ DOMAIN fds = {}
      /\ disk'[Denotes[n]] = IF append THEN Bytes(disk[Denotes[n]]) ELSE <<>>
  BY NamesInUse DEF RedirectOpen, OnDisk, TypeOK
<1>2. disk'[Denotes[n]] # Absent
  BY <1>1, Appending, NothingIsContent
<1>3. ASSUME append, InOverlay(n), n \notin Baited, ReadFake(n) = disk[Denotes[n]]
      PROVE  disk'[Denotes[n]] = vfs[n] \o <<>>
  <2>1. PICK c \in Contents : c = vfs[n]
    BY <1>3 DEF InOverlay, TypeOK
  <2>2. disk[Denotes[n]] = c /\ c # Absent
    BY <1>3, <2>1, NothingIsContent DEF ReadFake, ReadFakeContent, VfsHas, VfsRead
  <2>3. c \o <<>> = c
    BY DEF Contents
  <2> QED
    BY <1>1, <1>3, <2>1, <2>2, <2>3 DEF Bytes
<1> QED
  BY <1>1, <1>2, <1>3 DEF Collected, InOverlay

LEMMA CollectedOnWrite ==
  ASSUME TypeOK, Collected, RedirectWrite
  PROVE  Collected'
<1>1. redirect \in Redirection
  BY DEF TypeOK, RedirectWrite
<1>2. PICK r \in used : r = redirect.name
  BY <1>1 DEF Redirection
<1>3. /\ redirect'.name = r /\ redirect'.append = redirect.append
      /\ redirect'.right = redirect.right /\ redirect'.buf = <<"written">>
      /\ redirect.buf = <<>> /\ redirect # Idle
      /\ UNCHANGED <<vfs, fds>>
      /\ disk'[Denotes[r]] = Bytes(disk[Denotes[r]]) \o <<"written">>
  BY <1>1, <1>2, NamesInUse DEF RedirectWrite, Redirection, OnDisk, TypeOK
<1>4. disk'[Denotes[r]] # Absent
  BY <1>3, Appending, NothingIsContent
<1>5. PICK file \in Contents : file = disk[Denotes[r]] /\ Bytes(disk[Denotes[r]]) = file
  BY <1>2, <1>3, NamesInUse DEF Collected, Bytes
<1>6. <<>> \o <<"written">> = <<"written">>
  OBVIOUS
<1>7. ASSUME InOverlay(r), file = vfs[r] \o <<>>
      PROVE  file \o <<"written">> = vfs[r] \o <<"written">>
  <2>1. PICK c \in Contents : c = vfs[r]
    BY <1>7 DEF InOverlay, TypeOK
  <2>2. c \o <<>> = c
    BY DEF Contents
  <2> QED
    BY <1>7, <2>1, <2>2
<1> QED
  BY <1>2, <1>3, <1>4, <1>5, <1>6, <1>7 DEF Collected, InOverlay

LEMMA CollectedRemains ==
  /\ Init => Collected
  /\ TypeOK /\ Collected /\ [Next]_vars => Collected'
<1>1. Init => Collected
  BY DEF Init, Collected
<1>2. ASSUME TypeOK, Collected, [Next]_vars PROVE Collected'
  <2>1. CASE UNCHANGED vars
    BY <1>2, <2>1 DEF vars, Collected, InOverlay
  <2>2. CASE Next /\ redirect' = redirect
    <3>1. CASE redirect = Idle
      BY <2>2, <3>1 DEF Collected
    <3>2. CASE redirect # Idle
      <4>1. /\ disk'[Denotes[redirect.name]] = disk[Denotes[redirect.name]]
            /\ redirect.name \notin Baited => Same(redirect.name)
            /\ DOMAIN fds' = {}
        BY <1>2, <2>2, <3>2, RedirectionIsAlone DEF Next, Collected
      <4> QED
        BY <1>2, <2>2, <3>2, <4>1 DEF Collected, Same
    <3> QED
      BY <3>1, <3>2
  <2>3. CASE Next /\ redirect' # redirect
    <3>1. \/ \E n \in used : \E append \in BOOLEAN : RedirectOpen(n, append)
          \/ RedirectWrite \/ RedirectClose
      BY <1>2, <2>3, NamesInUse
      DEF Next, Call, Read, Open, Copy, Link, Write, AppendSync, AppendFile, Delete, Unperformed,
          Rename, WriteFd, ReadFd, Close, Handles
    <3> QED
      BY <1>2, <3>1, CollectedOnOpen, CollectedOnWrite DEF RedirectClose, Collected
  <2> QED
    BY <1>2, <2>1, <2>2, <2>3
<1> QED
  BY <1>1, <1>2

-----------------------------------------------------------------------------
(* Reading back and probing                                                   *)

\* What an append through a name or a descriptor does.
LEMMA Appended ==
  ASSUME TypeOK, NEW n \in used, Appends(n)
  PROVE  \/ /\ vfs' = Written(vfs, n, <<"written">>, TRUE)
            /\ disk'[Denotes[n]] = Bytes(disk[Denotes[n]]) \o <<"written">>
         \/ redirect.name = n /\ RedirectClose
<1>1. ASSUME AppendSync(n) \/ \E fd \in DOMAIN fds : fds[fd].name = n /\ WriteFd(fd)
      PROVE  /\ vfs' = Written(vfs, n, <<"written">>, TRUE)
             /\ disk'[Denotes[n]] = Bytes(disk[Denotes[n]]) \o <<"written">>
  BY <1>1, NamesInUse DEF AppendSync, WriteFd, OnDisk, TypeOK
<1> QED
  BY <1>1 DEF Appends

\* What the overlay has under a name that was written.
LEMMA WrittenIsRead ==
  ASSUME TypeOK, NEW n \in used, NEW c \in Contents, NEW append \in BOOLEAN,
         vfs' = Written(vfs, n, c, append)
  PROVE  /\ InOverlay(n)'
         /\ n \notin Baited => ReadFake(n)' = IF append /\ InOverlay(n) THEN vfs[n] \o c ELSE c
<1>1. /\ DOMAIN Written(vfs, n, c, append) = DOMAIN vfs \cup {n}
      /\ Written(vfs, n, c, append)[n] = IF append /\ n \in DOMAIN vfs THEN vfs[n] \o c ELSE c
  BY DEF Written, Put
<1>2. InOverlay(n)' /\ vfs'[n] = IF append /\ InOverlay(n) THEN vfs[n] \o c ELSE c
  BY <1>1 DEF InOverlay
<1> QED
  BY <1>2 DEF ReadFake, ReadFakeContent, VfsHas, VfsRead

\* A name in the overlay that reads back is a file of the real machine.
LEMMA OverlayIsReal ==
  ASSUME TypeOK, NEW n \in used, n \notin Baited, InOverlay(n), ReadFake(n) = disk[Denotes[n]]
  PROVE  vfs[n] \in Contents /\ disk[Denotes[n]] = vfs[n] /\ Bytes(disk[Denotes[n]]) = vfs[n]
<1>1. vfs[n] \in Contents /\ vfs[n] # Absent
  BY NothingIsContent DEF InOverlay, TypeOK
<1> QED
  BY <1>1 DEF ReadFake, ReadFakeContent, VfsHas, VfsRead, Bytes

\* The source of a copy either reads back, and so does the copy, or it is
\* misread, or the copy is no longer compared.
LEMMA CopyReadsBack ==
  ASSUME TypeOK, NEW m \in used, NEW n \in used, Copy(m, n), Denotes[n] \notin untracked',
         m \notin Misread
  PROVE  /\ ReadFake(m) = disk[Denotes[m]]
         /\ \/ UNCHANGED disk /\ vfs' = Serve(m) /\ ReadFake(m) = Absent
            \/ /\ vfs' = Written(Serve(m), n, ReadFake(m), FALSE)
               /\ disk'[Denotes[n]] = ReadFake(m) /\ ReadFake(m) \in Contents
<1>1. Denotes[m] \notin untracked
  BY DEF Copy, Spread
<1>2. ReadFake(m) = disk[Denotes[m]]
  BY <1>1 DEF Misread
<1>3. ReadFake(m) # Absent => ReadFake(m) \in Contents
  BY Reading, NamesInUse
<1> QED
  BY <1>2, <1>3, NamesInUse DEF Copy, CopyTo, OnDisk, TypeOK

LEMMA UntrackedGrows == Call => untracked \subseteq untracked'
BY DEF Call, Read, Open, Copy, Link, Write, AppendSync, AppendFile, Delete, Unperformed,
       Rename, RedirectOpen, WriteFd, ReadFd, Close, RedirectWrite, RedirectClose, Handles, Spread

\* The exceptions of ReadsBack.
Excused(n) ==
    \/ OtherSpelling(n) \/ n \in Baited
    \/ Recorded(n) \/ Delete(n) \/ AppendFile(n)
    \/ Appends(n) /\ ~InOverlay(n)
    \/ redirect.name = n /\ RedirectClose /\ ~redirect.right
    \/ \E m \in Misread \cup Baited : Copy(m, n)

LEMMA AppendReadsBack ==
  ASSUME TypeOK, Collected, NEW n \in used, Appends(n), n \notin Baited, InOverlay(n),
         ~(redirect.name = n /\ RedirectClose /\ ~redirect.right),
         ReadFake(n) = disk[Denotes[n]]
  PROVE  ReadFake(n)' = disk'[Denotes[n]]
<1>0. /\ vfs[n] \in Contents /\ disk[Denotes[n]] = vfs[n] /\ Bytes(disk[Denotes[n]]) = vfs[n]
      /\ <<"written">> \in Contents
  BY OverlayIsReal, Appending
<1>1. CASE /\ vfs' = Written(vfs, n, <<"written">>, TRUE)
           /\ disk'[Denotes[n]] = Bytes(disk[Denotes[n]]) \o <<"written">>
  <2>1. PICK append \in BOOLEAN : append /\ vfs' = Written(vfs, n, <<"written">>, append)
    BY <1>1
  <2>2. ReadFake(n)' = vfs[n] \o <<"written">>
    BY <1>0, <2>1, WrittenIsRead
  <2> QED
    BY <1>0, <1>1, <2>2
<1>2. CASE redirect.name = n /\ RedirectClose
  <2>1. redirect \in Redirection /\ redirect.right /\ UNCHANGED disk
    BY <1>2 DEF RedirectClose, TypeOK, Redirection
  <2>2. PICK c \in Contents, append \in BOOLEAN : c = redirect.buf /\ append = redirect.append
    BY <2>1, Pieced DEF Redirection, Pieces
  <2>3. vfs' = Written(vfs, n, c, append)
    BY <1>2, <2>2 DEF RedirectClose
  <2>4. ReadFake(n)' = IF append THEN vfs[n] \o c ELSE c
    BY <2>3, WrittenIsRead
  <2>5. disk[Denotes[n]] = IF append THEN vfs[n] \o c ELSE c
    BY <1>2, <2>1, <2>2 DEF Collected, RedirectClose
  <2> QED
    BY <2>1, <2>4, <2>5
<1> QED
  BY <1>1, <1>2, Appended

LEMMA ReadsBackOnCall ==
  ASSUME TypeOK, Collected, Call, UNCHANGED used, NEW n \in Misread' \ Misread
  PROVE  Excused(n)
<1>1. /\ n \in used /\ Denotes[n] \notin untracked' /\ Denotes[n] \notin untracked
      /\ ReadFake(n)' # disk'[Denotes[n]] /\ ReadFake(n) = disk[Denotes[n]]
  BY UntrackedGrows DEF Misread
<1>2. SUFFICES ASSUME ~Excused(n) PROVE FALSE
  OBVIOUS
<1>3. n \notin Baited /\ ~OtherSpelling(n) /\ Changes(n)
  <2>1. ~Kept(n)
    BY <1>1, SameIsSeen DEF Kept
  <2> QED
    BY <1>1, <1>2, <2>1, CallTouches DEF Touched, Excused
<1>4. CASE Write(n)
  <2>1. disk'[Denotes[n]] = <<"written">> /\ <<"written">> \in Contents
    BY <1>1, <1>4, NamesInUse, Appending DEF Write, OnDisk, TypeOK
  <2>2. PICK append \in BOOLEAN : ~append /\ vfs' = Written(vfs, n, <<"written">>, append)
    BY <1>4 DEF Write
  <2>3. ReadFake(n)' = <<"written">>
    BY <1>1, <1>3, <2>1, <2>2, WrittenIsRead
  <2> QED
    BY <1>1, <2>1, <2>3
<1>5. CASE Appends(n)
  BY <1>1, <1>2, <1>3, <1>5, AppendReadsBack DEF Excused
<1>6. ASSUME NEW m \in used, Copy(m, n) PROVE FALSE
  <2>1. m \notin Misread /\ m \notin Baited
    BY <1>2, <1>6 DEF Excused
  <2>2. Serve(m) = vfs
    BY <2>1 DEF Serve
  <2>3. CASE UNCHANGED disk /\ vfs' = Serve(m)
    <3>1. Same(n)
      BY <2>2, <2>3 DEF Same, InOverlay
    <3> QED
      BY <1>1, <2>3, <3>1, SameIsSeen
  <2>4. CASE /\ vfs' = Written(Serve(m), n, ReadFake(m), FALSE)
             /\ disk'[Denotes[n]] = ReadFake(m) /\ ReadFake(m) \in Contents
    <3>1. PICK append \in BOOLEAN, c \in Contents : ~append /\ c = ReadFake(m)
      BY <2>4
    <3>2. vfs' = Written(vfs, n, c, append)
      BY <2>2, <2>4, <3>1
    <3>3. ReadFake(n)' = c
      BY <1>1, <1>3, <3>1, <3>2, WrittenIsRead
    <3> QED
      BY <1>1, <2>4, <3>1, <3>3
  <2> QED
    BY <1>1, <1>6, <2>1, <2>3, <2>4, CopyReadsBack
<1>7. ~AppendFile(n) /\ ~Delete(n) /\ ~Recorded(n)
  BY <1>2 DEF Excused
<1> QED
  BY <1>3, <1>4, <1>5, <1>6, <1>7 DEF Changes

\* ReadsBack: a name that reads back what a real machine would hold keeps doing
\* so, the exceptions it lists apart (evasion.go:115).
THEOREM WrittenReadsBack == Spec => ReadsBack
<1>1. TypeOK /\ Collected /\ [Next]_vars => [\A n \in Misread' \ Misread : Excused(n)]_vars
  BY ReadsBackOnCall DEF Next
<1> QED
  BY <1>1, CollectedRemains, TypeCorrect, PTL DEF Spec, ReadsBack, Excused

\* The exceptions of ProbesTruthfully.
ProbeExcused(n) ==
    \/ OtherSpelling(n) \/ n \in Artifact \/ n \in Baited \cap Staging
    \/ Recorded(n)
    \/ Delete(n) /\ n \notin Staging
    \/ \E m \in Misread : Copy(m, n)

\* What was written is there, for the code as on the real machine.
LEMMA WrittenExists ==
  ASSUME TypeOK, NEW n \in used, n \notin Artifact, NEW c \in Contents, NEW append \in BOOLEAN,
         vfs' = Written(vfs, n, c, append)
  PROVE  PathExists(n)'
BY WrittenIsRead DEF PathExists, VfsHas

LEMMA ProbesOnCall ==
  ASSUME TypeOK, Collected, Call, UNCHANGED used, NEW n \in Misprobed' \ Misprobed
  PROVE  ProbeExcused(n)
<1>1. /\ n \in used /\ Denotes[n] \notin untracked' /\ Denotes[n] \notin untracked
      /\ ~(PathExists(n)' <=> disk'[Denotes[n]] # Absent)
      /\ PathExists(n) <=> disk[Denotes[n]] # Absent
      /\ PathExists(n) \in BOOLEAN /\ PathExists(n)' \in BOOLEAN
  BY UntrackedGrows DEF Misprobed, PathExists
<1>2. SUFFICES ASSUME ~ProbeExcused(n) PROVE FALSE
  OBVIOUS
<1>3. n \notin Artifact /\ ~OtherSpelling(n) /\ Changes(n)
  <2>1. ~Kept(n)
    BY <1>1, SameIsSeen DEF Kept
  <2>2. n \notin Artifact /\ n \notin Baited \cap Staging /\ ~OtherSpelling(n)
    BY <1>2 DEF ProbeExcused
  <2>3. ~(n \in Baited /\ disk'[Denotes[n]] = disk[Denotes[n]])
    <3>1. SUFFICES ASSUME n \in Baited PROVE disk'[Denotes[n]] # disk[Denotes[n]]
      OBVIOUS
    <3>2. PathExists(n) /\ PathExists(n)'
      BY <2>2, <3>1 DEF PathExists
    <3> QED
      BY <1>1, <3>2
  <2> QED
    BY <1>1, <2>1, <2>2, <2>3, CallTouches DEF Touched
<1>4. CASE Write(n) \/ AppendFile(n)
  <2>0. <<"written">> \in Contents
    BY Pieced DEF Pieces
  <2>1. disk'[Denotes[n]] # Absent
    <3>1. \/ disk'[Denotes[n]] = <<"written">>
          \/ disk'[Denotes[n]] = Bytes(disk[Denotes[n]]) \o <<"written">>
      BY <1>1, <1>4, NamesInUse DEF Write, AppendFile, OnDisk, TypeOK
    <3> QED
      BY <1>1, <3>1, Appending, NothingIsContent
  <2>2. PICK append \in BOOLEAN : vfs' = Written(vfs, n, <<"written">>, append)
    BY <1>4 DEF Write, AppendFile
  <2>3. PathExists(n)'
    BY <1>1, <1>3, <2>0, <2>2, WrittenExists
  <2> QED
    BY <1>1, <2>1, <2>3
<1>5. CASE Appends(n)
  <2>1. CASE /\ vfs' = Written(vfs, n, <<"written">>, TRUE)
             /\ disk'[Denotes[n]] = Bytes(disk[Denotes[n]]) \o <<"written">>
    <3>1. disk'[Denotes[n]] # Absent /\ <<"written">> \in Contents
      BY <1>1, <2>1, Appending, NothingIsContent
    <3>2. PICK append \in BOOLEAN : vfs' = Written(vfs, n, <<"written">>, append)
      BY <2>1
    <3>3. PathExists(n)'
      BY <1>1, <1>3, <3>1, <3>2, WrittenExists
    <3> QED
      BY <1>1, <3>1, <3>3
  <2>2. CASE redirect.name = n /\ RedirectClose
    <3>1. redirect \in Redirection /\ disk'[Denotes[n]] # Absent
      BY <2>2 DEF RedirectClose, TypeOK, Collected
    <3>2. PICK c \in Contents, append \in BOOLEAN : c = redirect.buf /\ append = redirect.append
      BY <3>1, Pieced DEF Redirection, Pieces
    <3>3. vfs' = Written(vfs, n, c, append)
      BY <2>2, <3>2 DEF RedirectClose
    <3>4. PathExists(n)'
      BY <1>1, <1>3, <3>3, WrittenExists
    <3> QED
      BY <1>1, <3>1, <3>4
  <2> QED
    BY <1>1, <1>5, <2>1, <2>2, Appended
<1>6. CASE Delete(n)
  <2>1. n \in Staging
    BY <1>2, <1>6 DEF ProbeExcused
  <2>2. disk'[Denotes[n]] = Absent
    BY <1>1, <1>6, NamesInUse DEF Delete, OnDisk, TypeOK
  <2>3. ~PathExists(n)'
    BY <1>6, <2>1, NameAssumption DEF Delete, VfsDelete, PathExists, VfsHas, InOverlay
  <2> QED
    BY <1>1, <2>2, <2>3
<1>7. ASSUME NEW m \in used, Copy(m, n) PROVE FALSE
  <2>1. m \notin Misread
    BY <1>2, <1>7 DEF ProbeExcused
  <2>2. CASE UNCHANGED disk /\ vfs' = Serve(m) /\ ReadFake(m) = Absent
    <3>1. m \notin Baited
      BY <2>2, NothingIsContent, Pieced DEF ReadFake, Pieces
    <3>2. Same(n)
      BY <2>2, <3>1 DEF Same, InOverlay, Serve
    <3> QED
      BY <1>1, <2>2, <3>2, SameIsSeen
  <2>3. CASE /\ vfs' = Written(Serve(m), n, ReadFake(m), FALSE)
             /\ disk'[Denotes[n]] = ReadFake(m) /\ ReadFake(m) \in Contents
    <3>1. disk'[Denotes[n]] # Absent
      BY <2>3, NothingIsContent
    <3>2. InOverlay(n)'
      BY <2>3 DEF Written, Put, InOverlay
    <3>3. PathExists(n)'
      BY <1>3, <3>2 DEF PathExists, VfsHas
    <3> QED
      BY <1>1, <3>1, <3>3
  <2> QED
    BY <1>1, <1>7, <2>1, <2>2, <2>3, CopyReadsBack
<1>8. ~Recorded(n)
  BY <1>2 DEF ProbeExcused
<1> QED
  BY <1>3, <1>4, <1>5, <1>6, <1>7, <1>8 DEF Changes

\* ProbesTruthfully: a probe that tells the truth keeps doing so, the exceptions
\* it lists apart (pathExists, runtime.go:279).
THEOREM ProbesStayTruthful == Spec => ProbesTruthfully
<1>1. TypeOK /\ Collected /\ [Next]_vars => [\A n \in Misprobed' \ Misprobed : ProbeExcused(n)]_vars
  BY ProbesOnCall DEF Next
<1> QED
  BY <1>1, CollectedRemains, TypeCorrect, PTL DEF Spec, ProbesTruthfully, ProbeExcused

=============================================================================
