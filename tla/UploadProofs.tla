---------------------------- MODULE UploadProofs -----------------------------
(* Proofs about Upload, for any number of clients, paths, uploads and       *)
(* blocks: its types, that a cancelled upload leaves no path that names its *)
(* file, that a finished one is whole, and that it stays.                   *)
EXTENDS Upload, FiniteSetTheorems, SequenceTheorems, TLAPS

(* What the handler of a client that has a file, or is about to, may rely   *)
(* on.  Until it is opened an upload has no file: nothing names it, nobody  *)
(* writes to it.                                                            *)
Opening(c) == at[c] \in {"dir", "mkdir", "remove", "open"}
Unopened(u) ==
    up[u].path = "none" \/ \E c \in Client : current[c] = u /\ Opening(c)
Blocks(u, n) == [k \in 1..n |-> <<u, k>>]

(* Uploads are numbered in the order they begin. *)
Numbered == \E n \in 0..MaxUploads : \A u \in Up : up[u].path # "none" <=> u <= n

(* A client's upload is its own. *)
Owners == \A c \in Client : current[c] # 0 =>
             /\ up[current[c]].path # "none"
             /\ \A d \in Client \ {c} : current[d] # current[c]

(* A client has no open file but between requests; its upload has not ended *)
(* while it opens or has one.                                               *)
Places == \A c \in Client :
             /\ at[c] # "idle" => fp[c] = 0 /\ current[c] # 0
             /\ fp[c] # 0 => current[c] # 0
             /\ fp[c] = 0 => buffer[c] = <<>>
             /\ Opening(c) \/ Ready(c) => up[current[c]].end = "none"
             /\ at[c] = "unlink" => up[current[c]].end \in {"cancelled", "failed"}

NoFileYet == \A u \in Up : Unopened(u) =>
                /\ files[u] = <<>> /\ up[u].blocks = 0 /\ up[u].end = "none"
                /\ \A p \in Path : names[p] # u
                /\ \A c \in Client : fp[c] # u

(* A file is only ever named by the path of the upload that created it, and *)
(* written to by an upload to that path.                                    *)
NamesOwn == \A p \in Path : names[p] # 0 => up[names[p]].path = p
WritesOwn == \A c \in Client : fp[c] # 0 => up[fp[c]].path = Mine(c)

(* Between RemoveOld and Open the path is free, unless the old file was not *)
(* removed or another client used the path in between; then the file is the *)
(* upload's own, nobody else writes to it, and its contents and buffer are  *)
(* the blocks so far.                                                       *)
Clean(u) == ~up[u].touched /\ ~up[u].kept
PathFree == \A c \in Client :
               at[c] = "open" /\ Clean(current[c]) => names[Mine(c)] = 0
Content == \A c \in Client : Ready(c) /\ Clean(current[c]) =>
              /\ fp[c] = current[c] /\ names[Mine(c)] = fp[c]
              /\ \A d \in Client \ {c} : fp[d] # fp[c]
              /\ files[fp[c]] \o buffer[c] = Blocks(current[c], up[current[c]].blocks)

(* Whoever is busy with the path of a finished upload that was alone when   *)
(* it finished has yet to remove the file, or could not.                    *)
Stays == \A u \in Up :
            up[u].end = "finished" /\ up[u].alone /\ names[up[u].path] = u =>
               \A d \in Client : Busy(d) /\ Mine(d) = up[u].path =>
                                    \/ at[d] \in {"dir", "mkdir", "remove"}
                                    \/ up[current[d]].kept

IndInv == /\ TypeOK /\ Numbered /\ Owners /\ Places /\ NoFileYet /\ NamesOwn
          /\ WritesOwn /\ PathFree /\ Content /\ Stays
          /\ CancelledIsRemoved /\ FinishedIsWhole

-----------------------------------------------------------------------------
(* Begun is the number of the last upload. *)
LEMMA BegunIsLast ==
    ASSUME NEW n \in 0..MaxUploads, \A u \in Up : up[u].path # "none" <=> u <= n
    PROVE  Begun = n
  <1>1. {u \in Up : up[u].path # "none"} = 1..n
    BY UploadAssumption DEF Up
  <1>2. n \in Int /\ 1 \in Int BY UploadAssumption
  <1>3. Cardinality(1..n) = IF 1 <= n THEN n - 1 + 1 ELSE 0
    BY ONLY <1>2, FS_Interval
  <1>4. Cardinality(1..n) = n BY <1>3, UploadAssumption
  <1>5. QED BY <1>1, <1>4 DEF Begun

(* What comes to a file when its buffer is written. *)
LEMMA FlushFacts ==
    ASSUME TypeOK, NEW c \in Client, NEW b \in Seq(Block), NEW n \in 0..Len(b),
           Flush(c, b, n)
    PROVE  /\ files' \in [Up -> Seq(Block)]
           /\ \A u \in Up : u # fp[c] => files'[u] = files[u]
           /\ fp[c] # 0 => files'[fp[c]] = files[fp[c]] \o SubSeq(b, 1, n)
  <1>1. CASE fp[c] = 0 BY <1>1 DEF Flush, TypeOK, Up
  <1>2. CASE fp[c] # 0
    <2>1. fp[c] \in Up BY <1>2 DEF TypeOK, Up
    <2>2. SubSeq(b, 1, n) \in Seq(Block) OBVIOUS
    <2>3. files[fp[c]] \o SubSeq(b, 1, n) \in Seq(Block)
      BY <2>1, <2>2 DEF TypeOK
    <2>4. QED BY <1>2, <2>1, <2>3 DEF Flush, TypeOK
  <1>3. QED BY <1>1, <1>2

LEMMA AppendBlock ==
    ASSUME NEW u, NEW n \in Nat
    PROVE  Append(Blocks(u, n), <<u, n + 1>>) = Blocks(u, n + 1)
  BY DEF Blocks

LEMMA ConcatAppend ==
    ASSUME NEW s \in Seq(Block), NEW t \in Seq(Block), NEW e \in Block
    PROVE  s \o Append(t, e) = Append(s \o t, e)
  OBVIOUS

LEMMA WholeSubSeq ==
    ASSUME NEW S, NEW s \in Seq(S)
    PROVE  /\ SubSeq(s, 1, Len(s)) = s
           /\ s \o <<>> = s
           /\ <<>> \o <<>> = <<>>
  OBVIOUS

LEMMA ReachesFact ==
    ASSUME NEW b \in Seq(Block), NEW n \in Reaches(b)
    PROVE  n \in 0..Len(b)
  BY DEF Reaches

-----------------------------------------------------------------------------
LEMMA InitIndInv == Init => IndInv
  <1> SUFFICES ASSUME Init PROVE IndInv OBVIOUS
  <1> USE UploadAssumption DEF Init, Up, Unused
  <1>1. TypeOK BY DEF TypeOK, UploadRecord
  <1>2. Numbered
    <2>1. \A u \in Up : up[u].path # "none" <=> u <= 0 OBVIOUS
    <2>2. 0 \in 0..MaxUploads OBVIOUS
    <2>3. QED BY ONLY <2>1, <2>2 DEF Numbered
  <1>3. Owners /\ Places BY DEF Owners, Places, Opening, Ready
  <1>4. NoFileYet /\ NamesOwn /\ WritesOwn BY DEF NoFileYet, NamesOwn, WritesOwn
  <1>5. PathFree /\ Content BY DEF PathFree, Content, Ready
  <1>6. Stays /\ CancelledIsRemoved /\ FinishedIsWhole
    BY DEF Stays, CancelledIsRemoved, FinishedIsWhole
  <1>7. QED BY <1>1, <1>2, <1>3, <1>4, <1>5, <1>6 DEF IndInv

(* The upload a busy client is about. *)
LEMMA Here ==
    ASSUME IndInv, NEW c \in Client, at[c] # "idle" \/ fp[c] # 0
    PROVE  /\ current[c] \in Up
           /\ up[current[c]].path \in Path
           /\ Mine(c) = up[current[c]].path
           /\ \A d \in Client \ {c} : current[d] # current[c]
  <1>1. current[c] # 0 BY DEF IndInv, Places
  <1>2. current[c] \in Up BY <1>1 DEF IndInv, TypeOK, Up
  <1>3. up[current[c]].path # "none" BY <1>1 DEF IndInv, Owners
  <1>4. up[current[c]].path \in Path BY <1>2, <1>3 DEF IndInv, TypeOK, UploadRecord
  <1>5. QED BY <1>1, <1>2, <1>4 DEF IndInv, Owners, Mine

(* A client changes what its path names: the uploads it disturbs are        *)
(* marked, nothing else of them changes.                                    *)
LEMMA NamesFacts ==
    ASSUME TypeOK, NEW c \in Client, Mine(c) \in Path,
           NEW f \in 0..MaxUploads, Names(c, f)
    PROVE  /\ names' \in [Path -> 0..MaxUploads]
           /\ names'[Mine(c)] = f
           /\ \A p \in Path \ {Mine(c)} : names'[p] = names[p]
           /\ up' \in [Up -> UploadRecord]
           /\ \A u \in Up :
                /\ up'[u].path = up[u].path /\ up'[u].blocks = up[u].blocks
                /\ up'[u].end = up[u].end /\ up'[u].whole = up[u].whole
                /\ up'[u].alone = up[u].alone /\ up'[u].lost = up[u].lost
                /\ up'[u].kept = up[u].kept
                /\ up'[u].touched = (up[u].touched \/ u \in Disturbed(c))
  <1>1. names' = [names EXCEPT ![Mine(c)] = f] BY DEF Names
  <1>2. names' \in [Path -> 0..MaxUploads] /\ names'[Mine(c)] = f
        /\ \A p \in Path \ {Mine(c)} : names'[p] = names[p]
    BY <1>1 DEF TypeOK
  <1>3. \A u \in Up : (u \in Disturbed(c)) \in BOOLEAN OBVIOUS
  <1>4. \A u \in Up : up'[u] = [up[u] EXCEPT !.touched = @ \/ u \in Disturbed(c)]
    BY DEF Names
  <1>5. \A u \in Up : up[u] \in UploadRecord
    BY DEF TypeOK
  <1>6. \A u \in Up : up'[u] \in UploadRecord
    <2>1. ASSUME NEW r \in UploadRecord, NEW b \in BOOLEAN
          PROVE  [r EXCEPT !.touched = r.touched \/ b] \in UploadRecord
      BY DEF UploadRecord
    <2>2. QED BY <1>3, <1>4, <1>5, <2>1
  <1>7. up' \in [Up -> UploadRecord]
    BY <1>6 DEF Names
  <1>8. QED BY <1>2, <1>4, <1>5, <1>7 DEF UploadRecord

-----------------------------------------------------------------------------
LEMMA SendFileNameKeeps ==
    ASSUME IndInv, NEW c \in Client, NEW p \in Path, SendFileName(c, p)
    PROVE  IndInv'
  <1> USE UploadAssumption DEF IndInv
  <1>1. PICK n \in 0..MaxUploads : \A u \in Up : up[u].path # "none" <=> u <= n
    BY DEF Numbered
  <1>2. Begun = n BY <1>1, BegunIsLast
  <1> DEFINE u == n + 1
  <1>3. u \in Up /\ u # 0 /\ up[u].path = "none" /\ Unopened(u)
    BY <1>1, <1>2 DEF SendFileName, Up, Unopened
  <1>4. /\ at' = [at EXCEPT ![c] = "dir"] /\ fp' = [fp EXCEPT ![c] = 0]
        /\ buffer' = [buffer EXCEPT ![c] = <<>>]
        /\ cancel' = [cancel EXCEPT ![c] = FALSE]
        /\ current' = [current EXCEPT ![c] = u]
        /\ up' = [up EXCEPT ![u].path = p]
        /\ at[c] = "idle" /\ UNCHANGED <<made, names>>
    BY <1>2 DEF SendFileName, Goes
  <1>5. PICK m \in Reaches(buffer[c]) : Flush(c, buffer[c], m) BY DEF SendFileName
  <1>6. /\ files' \in [Up -> Seq(Block)]
        /\ \A v \in Up : v # fp[c] => files'[v] = files[v]
    <2>1. buffer[c] \in Seq(Block) BY DEF TypeOK
    <2>2. QED BY <1>5, <2>1, ReachesFact, FlushFacts
  <1>7. /\ \A v \in Up \ {u} : up'[v] = up[v]
        /\ up'[u].path = p /\ up'[u].blocks = up[u].blocks /\ up'[u].end = up[u].end
        /\ up'[u].whole = up[u].whole /\ up'[u].alone = up[u].alone
        /\ up'[u].touched = up[u].touched /\ up'[u].lost = up[u].lost
        /\ up'[u].kept = up[u].kept
    BY <1>3, <1>4 DEF TypeOK, UploadRecord
  <1>8. \A d \in Client : current[d] # u
    BY <1>3 DEF Owners, TypeOK, Up
  <1>9. p # "none" OBVIOUS
  <1> HIDE DEF u
  <1>10. TypeOK'
    <2>1. up' \in [Up -> UploadRecord]
      <3>1. \A v \in Up : up[v] \in UploadRecord BY DEF TypeOK
      <3>2. up'[u] = [up[u] EXCEPT !.path = p] BY <1>3, <1>4 DEF TypeOK
      <3>3. up'[u] \in UploadRecord BY <1>3, <3>1, <3>2 DEF UploadRecord
      <3>4. \A v \in Up : up'[v] \in UploadRecord BY <1>7, <3>1, <3>3
      <3>5. QED BY <1>4, <3>4 DEF TypeOK
    <2>2. at' \in [Client -> {"idle", "dir", "mkdir", "remove", "open", "unlink"}]
      BY <1>4 DEF TypeOK
    <2>3. /\ fp' \in [Client -> 0..MaxUploads] /\ current' \in [Client -> 0..MaxUploads]
          /\ cancel' \in [Client -> BOOLEAN] /\ made' \in BOOLEAN
          /\ buffer' \in [Client -> Seq(Block)] /\ names' \in [Path -> 0..MaxUploads]
      BY <1>3, <1>4 DEF TypeOK, Up
    <2>4. QED BY <1>6, <2>1, <2>2, <2>3 DEF TypeOK
  <1>11. Numbered'
    <2>1. u \in 0..MaxUploads BY <1>3 DEF Up
    <2>2. \A v \in Up : up'[v].path # "none" <=> v <= u
      BY <1>1, <1>3, <1>7, <1>9 DEF u, Up
    <2>3. QED BY <2>1, <2>2 DEF Numbered
  <1>12. Owners'
    BY <1>3, <1>4, <1>7, <1>8, <1>9 DEF Owners, TypeOK, Up
  <1>13. Unopened(u)' /\ \A v \in Up \ {u} : Unopened(v)' => Unopened(v)
    BY <1>3, <1>4, <1>7 DEF Unopened, Opening, TypeOK, Up
  <1>14. files[u] = <<>> /\ up[u].blocks = 0 /\ up[u].end = "none"
         /\ (\A q \in Path : names[q] # u) /\ \A d \in Client : fp[d] # u
    BY <1>3 DEF NoFileYet
  <1>15. Places'
    <2>1. \A d \in Client \ {c} : /\ at'[d] = at[d] /\ fp'[d] = fp[d]
                                  /\ current'[d] = current[d] /\ buffer'[d] = buffer[d]
                                  /\ current[d] # 0 => up'[current[d]] = up[current[d]]
      BY <1>4, <1>7, <1>8 DEF TypeOK, Up
    <2>2. at'[c] = "dir" /\ fp'[c] = 0 /\ current'[c] = u /\ buffer'[c] = <<>>
          /\ up'[u].end = "none" /\ u # 0
      BY <1>3, <1>4, <1>7, <1>14 DEF TypeOK
    <2>3. QED BY <2>1, <2>2 DEF Places, Opening, Ready
  <1>16. NoFileYet'
    <2>1. \A v \in Up : Unopened(v) => files'[v] = <<>>
      BY <1>6 DEF NoFileYet
    <2>2. \A v \in Up : Unopened(v)' => Unopened(v) BY <1>3, <1>13
    <2>3. \A v \in Up : up'[v].blocks = up[v].blocks /\ up'[v].end = up[v].end
      BY <1>7
    <2>4. \A v \in Up, d \in Client : fp[d] # v => fp'[d] # v
      BY <1>4 DEF TypeOK, Up
    <2>5. QED BY <1>4, <2>1, <2>2, <2>3, <2>4 DEF NoFileYet
  <1>17. NamesOwn'
    BY <1>4, <1>7, <1>14 DEF NamesOwn, TypeOK, Up
  <1>w. WritesOwn'
    BY <1>4, <1>7, <1>8, <1>14 DEF WritesOwn, Places, TypeOK, Up, Mine
  <1>18. PathFree'
    BY <1>3, <1>4, <1>7, <1>8, Here DEF PathFree, Clean, TypeOK, Up, Mine
  <1>19. Content'
    <2> SUFFICES ASSUME NEW d \in Client, Ready(d)', Clean(current[d])'
                 PROVE  /\ fp'[d] = current'[d] /\ names'[Mine(d)'] = fp'[d]
                        /\ \A e \in Client \ {d} : fp'[e] # fp'[d]
                        /\ files'[fp'[d]] \o buffer'[d]
                             = Blocks(current'[d], up'[current'[d]].blocks)
      BY DEF Content, Blocks
    <2>1. d # c /\ Ready(d) /\ fp'[d] = fp[d] /\ current'[d] = current[d]
          /\ buffer'[d] = buffer[d]
      BY <1>4 DEF Ready, TypeOK
    <2>2. current[d] \in Up BY <2>1, Here DEF Ready
    <2>3. up'[current[d]] = up[current[d]] /\ Mine(d)' = Mine(d)
      BY <1>7, <1>8, <2>1, <2>2 DEF Mine
    <2>c. Clean(current[d]) BY <2>1, <2>3 DEF Clean
    <2>4. /\ fp[d] = current[d] /\ names[Mine(d)] = fp[d]
          /\ \A e \in Client \ {d} : fp[e] # fp[d]
          /\ files[fp[d]] \o buffer[d] = Blocks(current[d], up[current[d]].blocks)
      BY <2>1, <2>c DEF Content
    <2>5. files'[fp[d]] = files[fp[d]] BY <1>6, <2>1, <2>2, <2>4
    <2>6. \A e \in Client \ {d} : fp'[e] # fp[d]
      BY <1>4, <2>1, <2>2, <2>4 DEF TypeOK, Up
    <2>7. QED BY <1>4, <2>1, <2>3, <2>4, <2>5, <2>6
  <1>20. Stays'
    <2> SUFFICES ASSUME NEW v \in Up, up'[v].end = "finished", up'[v].alone,
                        names'[up'[v].path] = v,
                        NEW d \in Client, Busy(d)', Mine(d)' = up'[v].path
                 PROVE  at'[d] \in {"dir", "mkdir", "remove"} \/ up'[current'[d]].kept
      BY DEF Stays
    <2>1. v # u /\ up'[v] = up[v] BY <1>7, <1>14
    <2>2. CASE d = c BY <1>4, <2>2 DEF TypeOK
    <2>3. CASE d # c
      <3>1. Busy(d) /\ at'[d] = at[d] /\ current'[d] = current[d]
        BY <1>4, <2>3 DEF Busy, TypeOK
      <3>2. current[d] \in Up BY <3>1, Here DEF Busy
      <3>3. Mine(d)' = Mine(d) /\ up'[current[d]] = up[current[d]]
        BY <1>7, <1>8, <3>1, <3>2 DEF Mine
      <3>4. QED BY <1>4, <2>1, <3>1, <3>3 DEF Stays
    <2>4. QED BY <2>2, <2>3
  <1>21. CancelledIsRemoved'
    <2>1. \A v \in Up : up'[v].end = up[v].end BY <1>7
    <2>2. \A d \in Client : at[d] = "unlink" =>
             at'[d] = "unlink" /\ current'[d] = current[d]
      BY <1>4 DEF TypeOK
    <2>3. QED BY <1>4, <2>1, <2>2 DEF CancelledIsRemoved
  <1>22. FinishedIsWhole'
    BY <1>7 DEF FinishedIsWhole
  <1>23. QED
    BY <1>10, <1>11, <1>12, <1>15, <1>16, <1>17, <1>w, <1>18, <1>19, <1>20, <1>21, <1>22

-----------------------------------------------------------------------------
(* A step that leaves the paths alone: of client c, of its upload, and of   *)
(* the file it writes.                                                      *)
OwnStep(c) ==
    /\ UNCHANGED <<current, names>>
    /\ \A d \in Client \ {c} :
          at'[d] = at[d] /\ fp'[d] = fp[d] /\ buffer'[d] = buffer[d]
    /\ fp'[c] \in {0, fp[c]}
    /\ \A u \in Up \ {fp[c]} : files'[u] = files[u]
    /\ \A u \in Up \ {current[c]} : up'[u] = up[u]
    /\ current[c] \in Up => /\ up'[current[c]].path = up[current[c]].path
                            /\ up'[current[c]].touched = up[current[c]].touched
                            /\ up[current[c]].kept => up'[current[c]].kept
    /\ at'[c] = "open" => up'[current[c]].kept
    /\ Opening(c)' => Opening(c)

(* What is left to show of the upload itself. *)
OwnUpload(c) ==
    /\ at'[c] # "idle" => fp'[c] = 0 /\ current[c] # 0
    /\ fp'[c] = 0 => buffer'[c] = <<>>
    /\ Opening(c)' \/ Ready(c)' => up'[current[c]].end = "none"
    /\ at'[c] = "unlink" => up'[current[c]].end \in {"cancelled", "failed"}
    /\ Opening(c)' => up'[current[c]].blocks = up[current[c]].blocks
    /\ Ready(c)' /\ Clean(current[c]) =>
          files'[fp[c]] \o buffer'[c] = Blocks(current[c], up'[current[c]].blocks)
    /\ Ready(c)' => Ready(c)
    /\ Busy(c)' => Busy(c) /\ (at[c] \in {"dir", "mkdir", "remove"}
                                 => \/ at'[c] \in {"dir", "mkdir", "remove"}
                                    \/ up'[current[c]].kept)
    /\ current[c] \in Up =>
         /\ up'[current[c]].end = "finished" =>
               \/ up'[current[c]] = up[current[c]]
               \/ ~Busy(c)' /\ (up'[current[c]].alone => Alone(c))
                  /\ (Clean(current[c])' /\ ~up'[current[c]].lost
                        => up'[current[c]].whole)
         /\ up'[current[c]].end \in {"cancelled", "failed"} =>
               \/ at'[c] = "unlink" \/ up'[current[c]].kept
               \/ up'[current[c]] = up[current[c]] /\ at[c] # "unlink"

LEMMA OwnStepKeeps ==
    ASSUME IndInv, NEW c \in Client, TypeOK', OwnStep(c), OwnUpload(c)
    PROVE  IndInv'
  <1> USE UploadAssumption DEF IndInv, OwnStep
  <1>1. \A u \in Up : /\ up'[u].path = up[u].path /\ up'[u].touched = up[u].touched
                      /\ up[u].kept => up'[u].kept
                      /\ Clean(u)' => Clean(u)
    BY DEF Clean
  <1>2. \A d \in Client : Mine(d)' = Mine(d) \/ current[d] = 0
    BY <1>1 DEF Mine, TypeOK, Up
  <1>3. \A d \in Client : d # c /\ current[d] # 0 => up'[current[d]] = up[current[d]]
    BY DEF Owners, TypeOK, Up
  <1>4. Numbered' BY <1>1 DEF Numbered
  <1>5. Owners'
    <2>1. \A d \in Client : current'[d] = current[d] OBVIOUS
    <2>2. \A d \in Client : current[d] # 0 => current[d] \in Up BY DEF TypeOK, Up
    <2>3. QED BY <1>1, <2>1, <2>2 DEF Owners
  <1>6. Places'
    <2>1. \A d \in Client \ {c} :
             /\ at'[d] # "idle" => fp'[d] = 0 /\ current'[d] # 0
             /\ fp'[d] # 0 => current'[d] # 0
             /\ fp'[d] = 0 => buffer'[d] = <<>>
             /\ Opening(d)' \/ Ready(d)' => up'[current'[d]].end = "none"
             /\ at'[d] = "unlink" => up'[current'[d]].end \in {"cancelled", "failed"}
      BY <1>3 DEF Places, Opening, Ready
    <2>2. fp'[c] # 0 => current'[c] # 0 BY DEF Places
    <2>3. QED BY <2>1, <2>2 DEF Places, OwnUpload
  <1>7. NoFileYet'
    <2> SUFFICES ASSUME NEW u \in Up, Unopened(u)'
                 PROVE  /\ files'[u] = <<>> /\ up'[u].blocks = 0 /\ up'[u].end = "none"
                        /\ \A p \in Path : names'[p] # u
                        /\ \A d \in Client : fp'[d] # u
      BY DEF NoFileYet
    <2>1. Unopened(u) BY <1>1 DEF Unopened, Opening
    <2>2. /\ files[u] = <<>> /\ up[u].blocks = 0 /\ up[u].end = "none"
          /\ \A p \in Path : names[p] # u
          /\ \A d \in Client : fp[d] # u
      BY <2>1 DEF NoFileYet
    <2>3. files'[u] = <<>> BY <2>2
    <2>4. \A d \in Client : fp'[d] # u BY <2>2 DEF Up
    <2>5. up'[u].blocks = 0 /\ up'[u].end = "none"
      <3>1. CASE u # current[c] BY <2>2, <3>1
      <3>2. CASE u = current[c]
        <4>1. up'[u].path # "none" BY <1>1, <3>2 DEF Owners, Up
        <4>2. Opening(c)' BY <4>1, <3>2 DEF Unopened, Owners, Up
        <4>3. QED BY <2>2, <3>2, <4>2 DEF OwnUpload
      <3>3. QED BY <3>1, <3>2
    <2>6. QED BY <2>2, <2>3, <2>4, <2>5
  <1>8. NamesOwn'
    <2>1. \A p \in Path : names[p] # 0 => names[p] \in Up BY DEF TypeOK, Up
    <2>2. QED BY <1>1, <2>1 DEF NamesOwn
  <1>w. WritesOwn'
    <2>1. \A d \in Client : fp'[d] # 0 => fp'[d] = fp[d] /\ fp[d] \in Up /\ current[d] # 0
      BY DEF TypeOK, Up, Places
    <2>2. QED BY <1>1, <1>2, <2>1 DEF WritesOwn
  <1>9. PathFree'
    <2> SUFFICES ASSUME NEW d \in Client, at'[d] = "open", Clean(current[d])'
                 PROVE  names[Mine(d)'] = 0
      BY DEF PathFree
    <2>1. d # c /\ at[d] = "open" BY DEF Clean
    <2>2. current[d] \in Up BY <2>1, Here
    <2>3. QED BY <1>1, <2>1, <2>2 DEF PathFree, Mine
  <1>10. Content'
    <2> SUFFICES ASSUME NEW d \in Client, Ready(d)', Clean(current[d])'
                 PROVE  /\ fp'[d] = current'[d] /\ names'[Mine(d)'] = fp'[d]
                        /\ \A e \in Client \ {d} : fp'[e] # fp'[d]
                        /\ files'[fp'[d]] \o buffer'[d]
                             = Blocks(current'[d], up'[current'[d]].blocks)
      BY DEF Content, Blocks
    <2>1. Ready(d) /\ fp'[d] = fp[d] /\ current'[d] = current[d]
      BY DEF OwnUpload, Ready
    <2>2. current[d] \in Up BY <2>1, Here DEF Ready
    <2>3. Clean(current[d]) /\ Mine(d)' = Mine(d) BY <1>1, <2>2 DEF Mine
    <2>4. /\ fp[d] = current[d] /\ names[Mine(d)] = fp[d]
          /\ \A e \in Client \ {d} : fp[e] # fp[d]
          /\ files[fp[d]] \o buffer[d] = Blocks(current[d], up[current[d]].blocks)
      BY <2>1, <2>3 DEF Content
    <2>5. \A e \in Client \ {d} : fp'[e] # fp'[d]
      BY <2>1, <2>2, <2>4 DEF Up
    <2>6. files'[fp[d]] \o buffer'[d] = Blocks(current[d], up'[current[d]].blocks)
      <3>1. CASE d = c BY <2>3, <3>1 DEF OwnUpload
      <3>2. CASE d # c
        <4>1. fp[d] # fp[c] BY <2>4, <3>2
        <4>2. files'[fp[d]] = files[fp[d]] BY <2>2, <2>4, <4>1
        <4>3. up'[current[d]] = up[current[d]] BY <1>3, <2>2, <3>2 DEF Up
        <4>4. QED BY <2>4, <3>2, <4>2, <4>3
      <3>3. QED BY <3>1, <3>2
    <2>7. QED BY <2>1, <2>3, <2>4, <2>5, <2>6
  <1>11. Stays'
    <2> SUFFICES ASSUME NEW u \in Up, up'[u].end = "finished", up'[u].alone,
                        names[up'[u].path] = u,
                        NEW d \in Client, Busy(d)', Mine(d)' = up'[u].path
                 PROVE  at'[d] \in {"dir", "mkdir", "remove"} \/ up'[current'[d]].kept
      BY DEF Stays
    <2>1. Busy(d) BY DEF Busy, OwnUpload
    <2>2. current[d] \in Up BY <2>1, Here DEF Busy
    <2>3. Mine(d)' = Mine(d) /\ Mine(d) = up[u].path BY <1>1, <2>2 DEF Mine
    <2>4. CASE up'[u] = up[u]
      <3>1. at[d] \in {"dir", "mkdir", "remove"} \/ up[current[d]].kept
        BY <2>1, <2>3, <2>4 DEF Stays
      <3>2. QED BY <1>1, <2>2, <3>1 DEF OwnUpload
    <2>5. CASE up'[u] # up[u]
      <3>1. u = current[c] BY <2>5
      <3>2. ~Busy(c)' /\ Alone(c) BY <2>5, <3>1 DEF OwnUpload
      <3>3. d # c BY <3>2
      <3>4. Mine(d) # Mine(c) BY <2>1, <3>2, <3>3 DEF Alone
      <3>5. QED BY <2>3, <3>1, <3>4 DEF Mine
    <2>6. QED BY <2>4, <2>5
  <1>12. CancelledIsRemoved'
    <2> SUFFICES ASSUME NEW u \in Up, up'[u].end \in {"cancelled", "failed"},
                        ~up'[u].kept
                 PROVE  \/ \E d \in Client : current[d] = u /\ at'[d] = "unlink"
                        \/ \A p \in Path : names[p] # u
      BY DEF CancelledIsRemoved
    <2>1. CASE u = current[c] /\ at'[c] = "unlink" BY <2>1
    <2>2. CASE ~(u = current[c] /\ at'[c] = "unlink")
      <3>1. up'[u] = up[u] /\ (u = current[c] => at[c] # "unlink")
        BY <2>2 DEF OwnUpload
      <3>2. \/ \E d \in Client : current[d] = u /\ at[d] = "unlink"
            \/ \A p \in Path : names[p] # u
        BY <3>1 DEF CancelledIsRemoved
      <3>3. QED BY <3>1, <3>2
    <2>3. QED BY <2>1, <2>2
  <1>13. FinishedIsWhole'
    <2> SUFFICES ASSUME NEW u \in Up, up'[u].end = "finished",
                        Clean(u)', ~up'[u].lost
                 PROVE  up'[u].whole
      BY DEF FinishedIsWhole, Clean
    <2>1. CASE up'[u] = up[u] BY <2>1 DEF FinishedIsWhole, Clean
    <2>2. CASE up'[u] # up[u] BY <2>2 DEF OwnUpload
    <2>3. QED BY <2>1, <2>2
  <1>14. QED
    BY <1>4, <1>5, <1>6, <1>7, <1>8, <1>w, <1>9, <1>10, <1>11, <1>12, <1>13

-----------------------------------------------------------------------------
LEMMA AccessKeeps ==
    ASSUME IndInv, NEW c \in Client, Access(c)
    PROVE  IndInv'
  <1>1. TypeOK' BY DEF IndInv, TypeOK, Access, Goes
  <1>2. /\ at[c] = "dir" /\ at'[c] \in {"remove", "mkdir"}
        /\ \A d \in Client \ {c} : at'[d] = at[d]
        /\ UNCHANGED <<fp, buffer, current, names, files, up>>
    BY DEF Access, Goes, IndInv, TypeOK
  <1>3. fp[c] = 0 /\ current[c] # 0 /\ buffer[c] = <<>> /\ current[c] \in Up
        /\ up[current[c]].end = "none"
    BY <1>2, Here DEF IndInv, Places, Opening
  <1>4. OwnStep(c) BY <1>2, <1>3 DEF OwnStep, Opening
  <1>5. OwnUpload(c) BY <1>2, <1>3 DEF OwnUpload, Opening, Ready, Busy
  <1>6. QED BY <1>1, <1>4, <1>5, OwnStepKeeps

LEMMA RefusedFacts ==
    ASSUME IndInv, NEW c \in Client, current[c] \in Up, Refused(c)
    PROVE  /\ at'[c] = "idle" /\ \A d \in Client \ {c} : at'[d] = at[d]
           /\ at' \in [Client -> {"idle", "dir", "mkdir", "remove", "open", "unlink"}]
           /\ up' \in [Up -> UploadRecord]
           /\ \A u \in Up \ {current[c]} : up'[u] = up[u]
           /\ up'[current[c]].end = "refused"
           /\ up'[current[c]].path = up[current[c]].path
           /\ up'[current[c]].touched = up[current[c]].touched
           /\ up'[current[c]].kept = up[current[c]].kept
  <1>1. up' = [up EXCEPT ![current[c]].end = "refused"] BY DEF Refused
  <1>2. up'[current[c]] = [up[current[c]] EXCEPT !.end = "refused"]
        /\ \A u \in Up \ {current[c]} : up'[u] = up[u]
    BY <1>1 DEF IndInv, TypeOK
  <1>3. up[current[c]] \in UploadRecord BY DEF IndInv, TypeOK
  <1>4. /\ up'[current[c]] \in UploadRecord /\ up'[current[c]].end = "refused"
        /\ up'[current[c]].path = up[current[c]].path
        /\ up'[current[c]].touched = up[current[c]].touched
        /\ up'[current[c]].kept = up[current[c]].kept
    BY <1>2, <1>3 DEF UploadRecord
  <1>5. up' \in [Up -> UploadRecord] BY <1>1, <1>2, <1>4 DEF IndInv, TypeOK
  <1>6. QED BY <1>2, <1>4, <1>5 DEF Refused, Goes, IndInv, TypeOK

LEMMA MkDirKeeps ==
    ASSUME IndInv, NEW c \in Client, MkDir(c)
    PROVE  IndInv'
  <1>1. at[c] = "mkdir" /\ UNCHANGED <<fp, cancel, buffer, current, names, files>>
    BY DEF MkDir
  <1>2. fp[c] = 0 /\ current[c] # 0 /\ buffer[c] = <<>> /\ current[c] \in Up
        /\ up[current[c]].end = "none"
    BY <1>1, Here DEF IndInv, Places, Opening
  <1>3. CASE Refused(c) /\ UNCHANGED made
    <2>1. TypeOK' BY <1>1, <1>2, <1>3, RefusedFacts DEF IndInv, TypeOK
    <2>2. OwnStep(c) BY <1>1, <1>2, <1>3, RefusedFacts DEF OwnStep, Opening
    <2>3. OwnUpload(c)
      BY <1>1, <1>2, <1>3, RefusedFacts DEF OwnUpload, Opening, Ready, Busy
    <2>4. QED BY <2>1, <2>2, <2>3, OwnStepKeeps
  <1>4. CASE made' = TRUE /\ Goes(c, "remove") /\ UNCHANGED up
    <2>1. at' \in [Client -> {"idle", "dir", "mkdir", "remove", "open", "unlink"}]
          /\ at'[c] = "remove" /\ \A d \in Client \ {c} : at'[d] = at[d]
      BY <1>4 DEF Goes, IndInv, TypeOK
    <2>2. TypeOK' BY <1>1, <1>4, <2>1 DEF IndInv, TypeOK
    <2>3. OwnStep(c) BY <1>1, <1>2, <1>4, <2>1 DEF OwnStep, Opening
    <2>4. OwnUpload(c) BY <1>1, <1>2, <1>4, <2>1 DEF OwnUpload, Opening, Ready, Busy
    <2>5. QED BY <2>2, <2>3, <2>4, OwnStepKeeps
  <1>5. QED BY <1>3, <1>4 DEF MkDir

LEMMA SendFileCancelKeeps ==
    ASSUME IndInv, NEW c \in Client, SendFileCancel(c)
    PROVE  IndInv'
  <1>1. TypeOK' BY DEF IndInv, TypeOK, SendFileCancel
  <1>2. at[c] = "idle" /\ UNCHANGED <<at, fp, buffer, current, names, files, up>>
    BY DEF SendFileCancel
  <1>3. OwnStep(c) BY <1>2 DEF OwnStep, Opening
  <1>4. Ready(c) => up[current[c]].end = "none" BY DEF IndInv, Places
  <1>5. Ready(c) /\ Clean(current[c]) =>
          files[fp[c]] \o buffer[c] = Blocks(current[c], up[current[c]].blocks)
    BY DEF IndInv, Content
  <1>6. OwnUpload(c)
    BY <1>2, <1>4, <1>5 DEF OwnUpload, Opening, Ready, Busy, Blocks, IndInv, Places
  <1>7. QED BY <1>1, <1>3, <1>6, OwnStepKeeps

(* The blocks that fwrite takes, in the buffer or with the file. *)
LEMMA SendFileKeeps ==
    ASSUME IndInv, NEW c \in Client, SendFile(c)
    PROVE  IndInv'
  <1> DEFINE u == current[c]
             k == up[u].blocks + 1
             b == Append(buffer[c], <<u, k>>)
  <1> USE UploadAssumption
  <1>1. /\ at[c] = "idle" /\ fp[c] # 0 /\ up[u].blocks < MaxBlocks
        /\ UNCHANGED <<cancel, current, made, names>>
    BY DEF SendFile, Ready
  <1>2. u \in Up /\ u # 0 /\ up[u].end = "none" /\ up[u].blocks \in 0..MaxBlocks
        /\ up[u] \in UploadRecord /\ fp[c] \in Up
    <2>1. u \in Up /\ u # 0 /\ fp[c] \in Up
      BY <1>1, Here DEF IndInv, Places, TypeOK, Up
    <2>2. up[u] \in UploadRecord BY <2>1 DEF IndInv, TypeOK
    <2>3. up[u].blocks \in 0..MaxBlocks BY <2>2 DEF UploadRecord
    <2>4. up[u].end = "none" BY <1>1 DEF IndInv, Places, Ready
    <2>5. QED BY <2>1, <2>2, <2>3, <2>4
  <1>3. k \in 1..MaxBlocks /\ <<u, k>> \in Block BY <1>1, <1>2 DEF Block
  <1>4. buffer[c] \in Seq(Block) /\ files[fp[c]] \in Seq(Block)
        /\ b \in Seq(Block) /\ Len(b) \in Nat /\ Len(b) \in 0..Len(b)
    BY <1>2, <1>3 DEF IndInv, TypeOK
  <1>5. CASE /\ \/ buffer' = [buffer EXCEPT ![c] = b] /\ UNCHANGED files
                \/ buffer' = [buffer EXCEPT ![c] = <<>>] /\ Flush(c, b, Len(b))
             /\ up' = [up EXCEPT ![u].blocks = k]
             /\ UNCHANGED <<at, fp>>
    <2>1. /\ files' \in [Up -> Seq(Block)] /\ buffer' \in [Client -> Seq(Block)]
          /\ \A d \in Client \ {c} : buffer'[d] = buffer[d]
          /\ \A v \in Up \ {fp[c]} : files'[v] = files[v]
          /\ files'[fp[c]] \o buffer'[c] = files[fp[c]] \o b
      <3>1. CASE buffer' = [buffer EXCEPT ![c] = b] /\ UNCHANGED files
        BY <1>4, <3>1 DEF IndInv, TypeOK
      <3>2. CASE buffer' = [buffer EXCEPT ![c] = <<>>] /\ Flush(c, b, Len(b))
        <4>1. /\ files' \in [Up -> Seq(Block)]
              /\ \A v \in Up : v # fp[c] => files'[v] = files[v]
              /\ files'[fp[c]] = files[fp[c]] \o SubSeq(b, 1, Len(b))
          BY <1>1, <1>4, <3>2, FlushFacts DEF IndInv
        <4>2. files[fp[c]] \o b \in Seq(Block) BY <1>4
        <4>3. files'[fp[c]] = files[fp[c]] \o b
          BY <1>4, <4>1, WholeSubSeq
        <4>4. files'[fp[c]] \o <<>> = files'[fp[c]] BY <4>2, <4>3, WholeSubSeq
        <4>5. <<>> \in Seq(Block) OBVIOUS
        <4>6. QED BY <3>2, <4>1, <4>3, <4>4, <4>5 DEF IndInv, TypeOK
      <3>3. QED BY <1>5, <3>1, <3>2
    <2>2. /\ up' \in [Up -> UploadRecord] /\ \A v \in Up \ {u} : up'[v] = up[v]
          /\ up'[u].blocks = k /\ up'[u].path = up[u].path
          /\ up'[u].touched = up[u].touched /\ up'[u].end = up[u].end
          /\ up'[u].kept = up[u].kept
      <3>1. up'[u] = [up[u] EXCEPT !.blocks = k] /\ \A v \in Up \ {u} : up'[v] = up[v]
        BY <1>2, <1>5 DEF IndInv, TypeOK
      <3>2. /\ up'[u] \in UploadRecord /\ up'[u].blocks = k /\ up'[u].path = up[u].path
            /\ up'[u].touched = up[u].touched /\ up'[u].end = up[u].end
            /\ up'[u].kept = up[u].kept
        BY <1>2, <1>3, <3>1 DEF UploadRecord
      <3>3. up' \in [Up -> UploadRecord] BY <1>5, <3>1, <3>2 DEF IndInv, TypeOK
      <3>4. QED BY <3>1, <3>2, <3>3
    <2>3. TypeOK' BY <1>1, <1>5, <2>1, <2>2 DEF IndInv, TypeOK
    <2>4. OwnStep(c) BY <1>1, <1>5, <2>1, <2>2 DEF OwnStep, Opening
    <2>5. ASSUME Ready(c)', Clean(u)
          PROVE  files'[fp[c]] \o buffer'[c] = Blocks(u, up'[u].blocks)
      <3>1. files[fp[c]] \o buffer[c] = Blocks(u, up[u].blocks)
        BY <1>1, <2>5 DEF IndInv, Content, Ready
      <3>2. files[fp[c]] \o b = Append(files[fp[c]] \o buffer[c], <<u, k>>)
        BY ONLY <1>3, <1>4, ConcatAppend
      <3>3. Append(Blocks(u, up[u].blocks), <<u, k>>) = Blocks(u, k)
        <4>1. up[u].blocks \in Nat BY <1>2
        <4>2. QED BY ONLY <4>1, AppendBlock
      <3>4. QED BY <2>1, <2>2, <3>1, <3>2, <3>3
    <2>6. OwnUpload(c)
      BY <1>1, <1>2, <1>5, <2>2, <2>5 DEF OwnUpload, Opening, Ready, Busy
    <2>7. QED BY <2>3, <2>4, <2>6, OwnStepKeeps
  <1>6. CASE /\ WriteShort(c, b)
             /\ up' = [up EXCEPT ![u].blocks = k, ![u].end = "failed"]
    <2>1. PICK n \in 0..Len(b) - 1 : Flush(c, b, n) BY <1>6 DEF WriteShort
    <2>2. n \in 0..Len(b) BY <1>4, <2>1
    <2>3. /\ files' \in [Up -> Seq(Block)]
          /\ \A v \in Up \ {fp[c]} : files'[v] = files[v]
      BY <1>4, <2>1, <2>2, FlushFacts DEF IndInv
    <2>4. /\ fp' = [fp EXCEPT ![c] = 0] /\ buffer' = [buffer EXCEPT ![c] = <<>>]
          /\ at' = [at EXCEPT ![c] = "unlink"]
      BY <1>6 DEF WriteShort, Goes
    <2>5. /\ up' \in [Up -> UploadRecord] /\ \A v \in Up \ {u} : up'[v] = up[v]
          /\ up'[u].end = "failed" /\ up'[u].path = up[u].path
          /\ up'[u].touched = up[u].touched /\ up'[u].kept = up[u].kept
      <3>1. /\ up'[u] = [up[u] EXCEPT !.blocks = k, !.end = "failed"]
            /\ \A v \in Up \ {u} : up'[v] = up[v]
        BY <1>2, <1>6 DEF IndInv, TypeOK
      <3>2. /\ up'[u] \in UploadRecord /\ up'[u].end = "failed"
            /\ up'[u].path = up[u].path /\ up'[u].touched = up[u].touched
            /\ up'[u].kept = up[u].kept
        <4>1. k \in 0..MaxBlocks BY <1>3
        <4>2. ASSUME NEW r \in UploadRecord, NEW i \in 0..MaxBlocks
              PROVE  LET s == [r EXCEPT !.blocks = i, !.end = "failed"]
                     IN  s \in UploadRecord /\ s.end = "failed" /\ s.path = r.path
                         /\ s.touched = r.touched /\ s.kept = r.kept
          BY DEF UploadRecord
        <4> DEFINE s == [up[u] EXCEPT !.blocks = k, !.end = "failed"]
        <4>3. s \in UploadRecord /\ s.end = "failed" /\ s.path = up[u].path
              /\ s.touched = up[u].touched /\ s.kept = up[u].kept
          BY ONLY <1>2, <4>1, <4>2
        <4>4. up'[u] = s BY <3>1
        <4> HIDE DEF s
        <4>5. QED BY <4>3, <4>4
      <3>3. up' \in [Up -> UploadRecord] BY <1>6, <3>1, <3>2 DEF IndInv, TypeOK
      <3>4. QED BY <3>1, <3>2, <3>3
    <2>6. TypeOK' BY <1>1, <2>3, <2>4, <2>5 DEF IndInv, TypeOK
    <2>7. OwnStep(c) BY <1>1, <2>3, <2>4, <2>5 DEF OwnStep, Opening, IndInv, TypeOK
    <2>8. OwnUpload(c)
      BY <1>1, <1>2, <2>4, <2>5 DEF OwnUpload, Opening, Ready, Busy, IndInv, TypeOK
    <2>9. QED BY <2>6, <2>7, <2>8, OwnStepKeeps
  <1>7. QED BY <1>5, <1>6 DEF SendFile

LEMMA SendFileEndKeeps ==
    ASSUME IndInv, NEW c \in Client, SendFileEnd(c)
    PROVE  IndInv'
  <1> DEFINE u == current[c]
             b == buffer[c]
  <1> USE UploadAssumption
  <1>1. /\ at[c] = "idle" /\ fp[c] # 0 /\ Ready(c)
        /\ fp' = [fp EXCEPT ![c] = 0] /\ buffer' = [buffer EXCEPT ![c] = <<>>]
        /\ UNCHANGED <<at, cancel, current, made, names>>
    BY DEF SendFileEnd, Ready
  <1>2. u \in Up /\ u # 0 /\ up[u] \in UploadRecord /\ fp[c] \in Up /\ b \in Seq(Block)
    BY <1>1, Here DEF IndInv, TypeOK, Up
  <1>3. PICK n \in Reaches(b) :
          /\ Flush(c, b, n)
          /\ up' = [up EXCEPT ![u].end = "finished",
                      ![u].whole = Whole(c), ![u].alone = Alone(c),
                      ![u].lost = n < Len(b)]
    BY DEF SendFileEnd
  <1>4. n \in 0..Len(b) BY <1>2, <1>3, ReachesFact
  <1>5. /\ files' \in [Up -> Seq(Block)]
        /\ \A v \in Up \ {fp[c]} : files'[v] = files[v]
        /\ files'[fp[c]] = files[fp[c]] \o SubSeq(b, 1, n)
    BY <1>1, <1>2, <1>3, <1>4, FlushFacts DEF IndInv
  <1> DEFINE w == Whole(c)
             a == Alone(c)
             l == n < Len(b)
             s == [up[u] EXCEPT !.end = "finished", !.whole = w, !.alone = a, !.lost = l]
  <1>6. /\ s \in UploadRecord /\ s.end = "finished" /\ s.path = up[u].path
        /\ s.touched = up[u].touched /\ s.whole = w /\ s.alone = a /\ s.lost = l
        /\ s.kept = up[u].kept
    <2>1. w \in BOOLEAN BY DEF Whole
    <2>2. a \in BOOLEAN BY DEF Alone
    <2>3. l \in BOOLEAN OBVIOUS
    <2> HIDE DEF w, a, l
    <2>4. QED BY <1>2, <2>1, <2>2, <2>3 DEF UploadRecord
  <1>7. up'[u] = s /\ \A v \in Up \ {u} : up'[v] = up[v]
    BY <1>2, <1>3 DEF IndInv, TypeOK
  <1> HIDE DEF s
  <1>8. up' \in [Up -> UploadRecord] BY <1>2, <1>3, <1>6, <1>7 DEF IndInv, TypeOK
  <1>9. ASSUME Clean(u), ~(n < Len(b)) PROVE Whole(c)
    <2>1. n = Len(b) BY <1>2, <1>4, <1>9
    <2>2. /\ fp[c] = u /\ names[Mine(c)] = fp[c]
          /\ files[fp[c]] \o b = Blocks(u, up[u].blocks)
      BY <1>1, <1>9 DEF IndInv, Content
    <2>3. files'[fp[c]] = files[fp[c]] \o b BY <1>2, <1>5, <2>1, WholeSubSeq
    <2>4. QED BY <2>2, <2>3 DEF Whole, Blocks
  <1>10. TypeOK'
    <2>1. fp' \in [Client -> 0..MaxUploads] /\ buffer' \in [Client -> Seq(Block)]
      BY <1>1 DEF IndInv, TypeOK
    <2>2. QED BY <1>1, <1>5, <1>8, <2>1 DEF IndInv, TypeOK
  <1>11. /\ fp'[c] = 0 /\ buffer'[c] = <<>>
         /\ \A d \in Client \ {c} : fp'[d] = fp[d] /\ buffer'[d] = buffer[d]
    BY <1>1 DEF IndInv, TypeOK
  <1>12. OwnStep(c) BY <1>1, <1>5, <1>6, <1>7, <1>11 DEF OwnStep, Opening
  <1>13. OwnUpload(c)
    <2>1. ~Busy(c)' /\ ~Ready(c)' /\ ~Opening(c)'
      BY <1>1, <1>11 DEF Busy, Ready, Opening
    <2>2. Clean(u)' /\ ~up'[u].lost => up'[u].whole
      BY <1>1, <1>2, <1>6, <1>7, <1>9 DEF Clean
    <2>3. up'[u].alone => Alone(c) BY <1>6, <1>7
    <2>4. QED BY <1>1, <1>6, <1>7, <1>11, <2>1, <2>2, <2>3 DEF OwnUpload
  <1>14. QED BY <1>10, <1>12, <1>13, OwnStepKeeps

LEMMA SendFileCancelledKeeps ==
    ASSUME IndInv, NEW c \in Client, SendFileCancelled(c)
    PROVE  IndInv'
  <1> DEFINE u == current[c]
             b == buffer[c]
  <1> USE UploadAssumption
  <1>1. /\ at[c] = "idle" /\ fp[c] # 0
        /\ at' = [at EXCEPT ![c] = "unlink"]
        /\ fp' = [fp EXCEPT ![c] = 0] /\ buffer' = [buffer EXCEPT ![c] = <<>>]
        /\ up' = [up EXCEPT ![u].end = "cancelled"]
        /\ UNCHANGED <<cancel, current, made, names>>
    BY DEF SendFileCancelled, Ready, Goes
  <1>2. u \in Up /\ u # 0 /\ up[u] \in UploadRecord /\ b \in Seq(Block)
    BY <1>1, Here DEF IndInv, TypeOK, Up
  <1>3. PICK n \in Reaches(b) : Flush(c, b, n) BY DEF SendFileCancelled
  <1>4. /\ files' \in [Up -> Seq(Block)]
        /\ \A v \in Up \ {fp[c]} : files'[v] = files[v]
    BY <1>2, <1>3, ReachesFact, FlushFacts DEF IndInv
  <1>5. /\ up' \in [Up -> UploadRecord] /\ \A v \in Up \ {u} : up'[v] = up[v]
        /\ up'[u].end = "cancelled" /\ up'[u].path = up[u].path
        /\ up'[u].touched = up[u].touched /\ up'[u].kept = up[u].kept
    <2>1. up'[u] = [up[u] EXCEPT !.end = "cancelled"] /\ \A v \in Up \ {u} : up'[v] = up[v]
      BY <1>1, <1>2 DEF IndInv, TypeOK
    <2>2. /\ up'[u] \in UploadRecord /\ up'[u].end = "cancelled"
          /\ up'[u].path = up[u].path /\ up'[u].touched = up[u].touched
          /\ up'[u].kept = up[u].kept
      BY <1>2, <2>1 DEF UploadRecord
    <2>3. up' \in [Up -> UploadRecord] BY <1>1, <2>1, <2>2 DEF IndInv, TypeOK
    <2>4. QED BY <2>1, <2>2, <2>3
  <1>6. TypeOK' BY <1>1, <1>4, <1>5 DEF IndInv, TypeOK
  <1>7. OwnStep(c) BY <1>1, <1>4, <1>5 DEF OwnStep, Opening, IndInv, TypeOK
  <1>8. OwnUpload(c)
    BY <1>1, <1>2, <1>5 DEF OwnUpload, Opening, Ready, Busy, IndInv, TypeOK
  <1>9. QED BY <1>6, <1>7, <1>8, OwnStepKeeps

-----------------------------------------------------------------------------
(* The steps that change what the client's path names: its old file is      *)
(* removed, or the cancelled one; or a file is opened.                      *)
Frees(c) == /\ Names(c, 0) /\ UNCHANGED fp
            /\ \/ at[c] = "remove" /\ Goes(c, "open")
               \/ at[c] = "unlink" /\ Goes(c, "idle")
Opened(c) == IF names[Mine(c)] = 0 THEN current[c] ELSE names[Mine(c)]
Opens(c) == /\ at[c] = "open" /\ Goes(c, "idle")
            /\ Names(c, Opened(c)) /\ fp' = [fp EXCEPT ![c] = Opened(c)]

LEMMA NamesStepKeeps ==
    ASSUME IndInv, NEW c \in Client, Frees(c) \/ Opens(c),
           UNCHANGED <<cancel, buffer, current, made, files>>
    PROVE  IndInv'
  <1> USE UploadAssumption DEF IndInv
  <1> DEFINE u == current[c]
             f == IF Frees(c) THEN 0 ELSE Opened(c)
  <1>1. at[c] \in {"remove", "unlink", "open"} /\ at[c] # "idle"
        /\ (at[c] = "open" <=> Opens(c)) /\ (Opens(c) <=> ~Frees(c))
    BY DEF Frees, Opens
  <1>2. /\ u \in Up /\ u # 0 /\ Mine(c) \in Path /\ Mine(c) = up[u].path
        /\ \A d \in Client \ {c} : current[d] # u
    BY <1>1, Here DEF Up
  <1>3. fp[c] = 0 /\ buffer[c] = <<>> /\ (at[c] # "unlink" => up[u].end = "none")
    BY <1>1 DEF Places, Opening
  <1>4. f \in 0..MaxUploads /\ f \in {0, u, names[Mine(c)]} /\ Names(c, f)
    BY <1>1, <1>2 DEF Opened, Frees, Opens, TypeOK, Up
  <1>5. f # 0 => Opens(c) /\ fp'[c] = f /\ at'[c] = "idle"
    BY <1>1 DEF Opens, Goes, TypeOK
  <1>6. Opens(c) => f # 0 /\ (names[Mine(c)] = 0 => f = u)
                    /\ (names[Mine(c)] # 0 => f = names[Mine(c)])
    BY <1>1, <1>2 DEF Opened, TypeOK
  <1>7. /\ fp' \in [Client -> 0..MaxUploads] /\ fp'[c] = f
        /\ \A d \in Client \ {c} : fp'[d] = fp[d]
    <2>1. CASE Frees(c) BY <1>3, <2>1 DEF Frees, TypeOK
    <2>2. CASE Opens(c) BY <1>1, <1>4, <2>2 DEF Opens, TypeOK
    <2>3. QED BY <2>1, <2>2
  <1>8. /\ at' \in [Client -> {"idle", "dir", "mkdir", "remove", "open", "unlink"}]
        /\ \A d \in Client \ {c} : at'[d] = at[d]
        /\ at'[c] = IF at[c] = "remove" THEN "open" ELSE "idle"
    BY <1>1 DEF Frees, Opens, Goes, TypeOK
  <1> HIDE DEF f
  <1>9. /\ names' \in [Path -> 0..MaxUploads] /\ names'[Mine(c)] = f
        /\ \A p \in Path \ {Mine(c)} : names'[p] = names[p]
        /\ up' \in [Up -> UploadRecord]
    BY <1>2, <1>4, NamesFacts
  <1>10. \A v \in Up :
                /\ up'[v].path = up[v].path /\ up'[v].blocks = up[v].blocks
                /\ up'[v].end = up[v].end /\ up'[v].whole = up[v].whole
                /\ up'[v].alone = up[v].alone /\ up'[v].lost = up[v].lost
                /\ up'[v].kept = up[v].kept
                /\ up'[v].touched = (up[v].touched \/ v \in Disturbed(c))
    BY <1>2, <1>4, NamesFacts
  <1>11. \A d \in Client : current[d] \in Up => Mine(d)' = Mine(d)
    BY <1>10 DEF Mine
  <1>12. ASSUME NEW d \in Client \ {c}, Busy(d), at[d] \notin {"dir", "mkdir", "remove"},
                Clean(current[d])'
         PROVE  Mine(d) # Mine(c) /\ Clean(current[d])
                /\ Mine(d) \in Path /\ names'[Mine(d)'] = names[Mine(d)]
                /\ current[d] \in Up /\ Mine(d)' = Mine(d)
    <2>1. current[d] \in Up /\ Mine(d) \in Path BY <1>12, Here DEF Busy
    <2>2. current[d] \notin Disturbed(c) /\ Clean(current[d])
      BY <1>10, <1>12, <2>1 DEF Clean
    <2>3. Mine(d) # Mine(c) BY <1>12, <2>2 DEF Disturbed
    <2>4. QED BY <1>9, <1>11, <2>1, <2>2, <2>3
  <1>13. TypeOK' BY <1>7, <1>8, <1>9 DEF TypeOK
  <1>14. Numbered' BY <1>10 DEF Numbered
  <1>15. Owners'
    <2>1. \A d \in Client : current[d] # 0 => current[d] \in Up BY DEF TypeOK, Up
    <2>2. QED BY <1>10, <2>1 DEF Owners
  <1>16. Places'
    <2>1. \A d \in Client : current[d] # 0 =>
             up'[current[d]].end = up[current[d]].end
      BY <1>10 DEF TypeOK, Up
    <2>2. \A d \in Client \ {c} :
             /\ at'[d] # "idle" => fp'[d] = 0 /\ current'[d] # 0
             /\ fp'[d] # 0 => current'[d] # 0
             /\ fp'[d] = 0 => buffer'[d] = <<>>
             /\ Opening(d)' \/ Ready(d)' => up'[current'[d]].end = "none"
             /\ at'[d] = "unlink" => up'[current'[d]].end \in {"cancelled", "failed"}
      BY <1>7, <1>8, <2>1 DEF Places, Opening, Ready
    <2>3. /\ at'[c] # "idle" => fp'[c] = 0 /\ current'[c] # 0
          /\ fp'[c] # 0 => current'[c] # 0
          /\ buffer'[c] = <<>> /\ at'[c] # "unlink"
      BY <1>1, <1>2, <1>3, <1>5, <1>7, <1>8
    <2>4. Opening(c)' \/ Ready(c)' => up'[current'[c]].end = "none"
      <3>1. CASE at[c] = "unlink"
        BY <1>1, <1>5, <1>7, <1>8, <3>1 DEF Opening, Ready
      <3>2. CASE at[c] # "unlink" BY <1>2, <1>3, <2>1, <3>2
      <3>3. QED BY <3>1, <3>2
    <2>5. QED BY <2>2, <2>3, <2>4 DEF Places
  <1>17. NoFileYet'
    <2> SUFFICES ASSUME NEW v \in Up, Unopened(v)'
                 PROVE  /\ files'[v] = <<>> /\ up'[v].blocks = 0 /\ up'[v].end = "none"
                        /\ \A p \in Path : names'[p] # v
                        /\ \A d \in Client : fp'[d] # v
      BY DEF NoFileYet
    <2>1. Unopened(v) BY <1>1, <1>8, <1>10 DEF Unopened, Opening
    <2>2. /\ files[v] = <<>> /\ up[v].blocks = 0 /\ up[v].end = "none"
          /\ \A p \in Path : names[p] # v
          /\ \A d \in Client : fp[d] # v
      BY <2>1 DEF NoFileYet
    <2>3. v # f
      <3>1. CASE f = u
        <4>1. up'[u].path # "none" BY <1>2, <1>10
        <4>2. at'[c] = "idle" BY <1>2, <1>5, <3>1
        <4>3. v # u BY <1>2, <4>1, <4>2 DEF Unopened, Opening
        <4>4. QED BY <3>1, <4>3
      <3>2. CASE f # u BY <1>2, <1>4, <2>2, <3>2 DEF Up
      <3>3. QED BY <3>1, <3>2
    <2>4. QED BY <1>7, <1>9, <1>10, <2>2, <2>3
  <1>18. NamesOwn'
    <2>1. \A p \in Path : names[p] # 0 => names[p] \in Up BY DEF TypeOK, Up
    <2>2. \A p \in Path : names'[p] \in {0, names[p]}
             \/ (p = Mine(c) /\ names'[p] = u)
      BY <1>4, <1>9
    <2>3. QED BY <1>2, <1>10, <2>1, <2>2 DEF NamesOwn
  <1>w. WritesOwn'
    <2>1. \A d \in Client \ {c} : fp'[d] # 0 => fp'[d] = fp[d] /\ fp[d] \in Up
                                             /\ current[d] \in Up
      BY <1>7 DEF TypeOK, Up, Places
    <2>2. f # 0 => f \in Up /\ up[f].path = Mine(c)
      BY <1>2, <1>4 DEF NamesOwn, Up
    <2>3. QED BY <1>2, <1>7, <1>10, <1>11, <2>1, <2>2 DEF WritesOwn
  <1>19. PathFree'
    <2> SUFFICES ASSUME NEW d \in Client, at'[d] = "open", Clean(current[d])'
                 PROVE  names'[Mine(d)'] = 0
      BY DEF PathFree
    <2>1. CASE d = c BY <1>2, <1>5, <1>9, <1>11, <2>1
    <2>2. CASE d # c
      <3>1. at[d] = "open" /\ Busy(d) BY <1>8, <2>2 DEF Busy
      <3>2. names'[Mine(d)'] = names[Mine(d)] /\ Clean(current[d])
        BY <1>12, <2>2, <3>1
      <3>3. QED BY <3>1, <3>2 DEF PathFree
    <2>3. QED BY <2>1, <2>2
  <1>20. Content'
    <2> SUFFICES ASSUME NEW d \in Client, Ready(d)', Clean(current[d])'
                 PROVE  /\ fp'[d] = current'[d] /\ names'[Mine(d)'] = fp'[d]
                        /\ \A e \in Client \ {d} : fp'[e] # fp'[d]
                        /\ files'[fp'[d]] \o buffer'[d]
                             = Blocks(current'[d], up'[current'[d]].blocks)
      BY DEF Content, Blocks
    <2>1. CASE d = c
      <3>1. f # 0 /\ Opens(c) BY <1>5, <1>7, <2>1 DEF Ready
      <3>2. Clean(u) BY <1>2, <1>10, <2>1 DEF Clean
      <3>3. names[Mine(c)] = 0 /\ f = u BY <1>1, <1>6, <3>1, <3>2 DEF PathFree
      <3>4. Unopened(u) BY <1>1, <3>1 DEF Unopened, Opening
      <3>5. files[u] = <<>> /\ up[u].blocks = 0 /\ \A e \in Client : fp[e] # u
        BY <1>2, <3>4 DEF NoFileYet
      <3>6. Blocks(u, 0) = <<>> /\ <<>> \o <<>> = <<>> BY DEF Blocks
      <3>7. files'[fp'[c]] \o buffer'[c] = Blocks(u, up'[u].blocks)
        BY <1>2, <1>3, <1>7, <1>10, <3>3, <3>5, <3>6
      <3>8. QED BY <1>2, <1>7, <1>9, <1>11, <2>1, <3>3, <3>5, <3>7
    <2>2. CASE d # c
      <3>1. Ready(d) /\ Busy(d) /\ at[d] = "idle" BY <1>7, <1>8, <2>2 DEF Ready, Busy
      <3>2. /\ Mine(d) # Mine(c) /\ Clean(current[d])
            /\ Mine(d) \in Path /\ names'[Mine(d)'] = names[Mine(d)]
            /\ current[d] \in Up /\ Mine(d)' = Mine(d)
        BY <1>12, <2>2, <3>1
      <3>3. /\ fp[d] = current[d] /\ names[Mine(d)] = fp[d]
            /\ \A e \in Client \ {d} : fp[e] # fp[d]
            /\ files[fp[d]] \o buffer[d] = Blocks(current[d], up[current[d]].blocks)
        BY <3>1, <3>2 DEF Content
      <3>4. f # fp[d]
        <4>1. fp[d] # 0 /\ fp[d] # u BY <1>2, <2>2, <3>1, <3>3 DEF Ready
        <4>2. names[Mine(c)] # fp[d] BY <1>2, <3>2, <3>3, <4>1 DEF NamesOwn
        <4>3. QED BY <1>4, <4>1, <4>2
      <3>5. \A e \in Client \ {d} : fp'[e] # fp'[d] BY <1>7, <2>2, <3>3, <3>4
      <3>6. up'[current[d]].blocks = up[current[d]].blocks BY <1>10, <3>2
      <3>7. QED BY <1>7, <2>2, <3>2, <3>3, <3>5, <3>6
    <2>3. QED BY <2>1, <2>2
  <1>21. Stays'
    <2> SUFFICES ASSUME NEW v \in Up, up'[v].end = "finished", up'[v].alone,
                        names'[up'[v].path] = v,
                        NEW d \in Client, Busy(d)', Mine(d)' = up'[v].path
                 PROVE  at'[d] \in {"dir", "mkdir", "remove"} \/ up'[current'[d]].kept
      BY DEF Stays
    <2>1. /\ up[v].end = "finished" /\ up[v].alone /\ up'[v].path = up[v].path
      BY <1>10
    <2>2. names[up[v].path] = v /\ (up[v].path = Mine(c) => at[c] = "open")
      <3>1. CASE up[v].path = Mine(c)
        <4>1. f = v /\ f # 0 BY <1>9, <2>1, <3>1 DEF Up
        <4>2. Opens(c) /\ at[c] = "open" BY <1>1, <1>5, <4>1
        <4>3. v # u BY <1>3, <2>1, <4>2
        <4>4. names[Mine(c)] = v BY <1>4, <4>1, <4>3
        <4>5. QED BY <3>1, <4>2, <4>4
      <3>2. CASE up[v].path # Mine(c)
        <4>1. up[v].path # "none"
          <5>1. up[v].path = "none" => up[v].end = "none" BY DEF NoFileYet, Unopened
          <5>2. QED BY <2>1, <5>1
        <4>2. up[v].path \in Path BY <4>1 DEF TypeOK, UploadRecord
        <4>3. QED BY <1>9, <2>1, <3>2, <4>2
      <3>3. QED BY <3>1, <3>2
    <2>3. current[d] \in Up /\ Mine(d) = up[v].path
      <3>1. CASE d = c BY <1>2, <1>11, <2>1, <3>1
      <3>2. CASE d # c
        <4>1. Busy(d) BY <1>7, <1>8, <3>2 DEF Busy
        <4>2. QED BY <1>11, <2>1, <4>1, Here DEF Busy
      <3>3. QED BY <3>1, <3>2
    <2>4. CASE d = c
      <3>1. at[c] = "open" BY <2>2, <2>3, <2>4
      <3>2. up[current[c]].kept BY <2>1, <2>2, <2>3, <2>4, <3>1 DEF Stays, Busy
      <3>3. QED BY <1>10, <2>3, <2>4, <3>2
    <2>5. CASE d # c
      <3>1. Busy(d) /\ at'[d] = at[d] BY <1>7, <1>8, <2>5 DEF Busy
      <3>2. at[d] \in {"dir", "mkdir", "remove"} \/ up[current[d]].kept
        BY <2>1, <2>2, <2>3, <3>1 DEF Stays
      <3>3. QED BY <1>10, <2>3, <3>1, <3>2
    <2>6. QED BY <2>4, <2>5
  <1>22. CancelledIsRemoved'
    <2> SUFFICES ASSUME NEW v \in Up, up'[v].end \in {"cancelled", "failed"},
                        ~up'[v].kept
                 PROVE  \/ \E d \in Client : current'[d] = v /\ at'[d] = "unlink"
                        \/ \A p \in Path : names'[p] # v
      BY DEF CancelledIsRemoved
    <2>1. up[v].end \in {"cancelled", "failed"} /\ ~up[v].kept BY <1>10
    <2>2. CASE v = u
      <3>1. at[c] = "unlink" BY <1>3, <2>1, <2>2
      <3>2. f = 0 BY <1>1, <1>5, <3>1
      <3>3. \A p \in Path : names'[p] # u
        BY <1>2, <1>9, <3>2 DEF NamesOwn
      <3>4. QED BY <2>2, <3>3
    <2>3. CASE v # u
      <3>1. CASE \E d \in Client : current[d] = v /\ at[d] = "unlink"
        BY <1>8, <2>3, <3>1
      <3>2. CASE \A p \in Path : names[p] # v
        BY <1>2, <1>4, <1>9, <2>3, <3>2 DEF Up
      <3>3. QED BY <2>1, <3>1, <3>2 DEF CancelledIsRemoved
    <2>4. QED BY <2>2, <2>3
  <1>23. FinishedIsWhole' BY <1>10 DEF FinishedIsWhole
  <1>24. QED
    BY <1>13, <1>14, <1>15, <1>16, <1>17, <1>18, <1>w, <1>19, <1>20, <1>21, <1>22, <1>23

(* A remove that fails changes nothing but what is known of the upload.     *)
LEMMA RemoveFailedKeeps ==
    ASSUME IndInv, NEW c \in Client, RemoveFailed(c),
           \/ at[c] = "remove" /\ Goes(c, "open")
           \/ at[c] = "unlink" /\ Goes(c, "idle"),
           UNCHANGED <<fp, cancel, buffer, current, made, files>>
    PROVE  IndInv'
  <1> DEFINE u == current[c]
  <1>1. /\ u \in Up /\ u # 0 /\ fp[c] = 0 /\ buffer[c] = <<>>
        /\ at[c] = "remove" => up[u].end = "none"
    BY Here DEF IndInv, Places, Opening
  <1>2. /\ at' \in [Client -> {"idle", "dir", "mkdir", "remove", "open", "unlink"}]
        /\ at'[c] = IF at[c] = "remove" THEN "open" ELSE "idle"
        /\ \A d \in Client \ {c} : at'[d] = at[d]
    BY DEF Goes, IndInv, TypeOK
  <1>3. up[u] \in UploadRecord /\ up'[u] = [up[u] EXCEPT !.kept = TRUE]
        /\ \A v \in Up \ {u} : up'[v] = up[v]
    BY <1>1 DEF RemoveFailed, IndInv, TypeOK
  <1>4. /\ up'[u] \in UploadRecord /\ up'[u].kept /\ up'[u].end = up[u].end
        /\ up'[u].path = up[u].path /\ up'[u].touched = up[u].touched
        /\ up'[u].blocks = up[u].blocks
    <2>1. /\ up'[u] \in UploadRecord /\ up'[u].kept = TRUE /\ up'[u].end = up[u].end
          /\ up'[u].path = up[u].path /\ up'[u].touched = up[u].touched
          /\ up'[u].blocks = up[u].blocks
      BY <1>3 DEF UploadRecord
    <2>2. QED BY <2>1
  <1>5. up' \in [Up -> UploadRecord] BY <1>3, <1>4 DEF RemoveFailed, IndInv, TypeOK
  <1>6. TypeOK' BY <1>2, <1>5 DEF RemoveFailed, IndInv, TypeOK
  <1>7. OwnStep(c) BY <1>2, <1>3, <1>4 DEF OwnStep, Opening, RemoveFailed
  <1>8. at[c] = "unlink" => up[u].end \in {"cancelled", "failed"}
    BY DEF IndInv, Places
  <1>9. OwnUpload(c)
    BY <1>1, <1>2, <1>3, <1>4, <1>8 DEF OwnUpload, Opening, Ready, Busy
  <1>10. QED BY <1>6, <1>7, <1>9, OwnStepKeeps

LEMMA OpenKeeps ==
    ASSUME IndInv, NEW c \in Client, Open(c)
    PROVE  IndInv'
  <1>1. at[c] = "open" /\ UNCHANGED <<cancel, buffer, current, made, files>>
    BY DEF Open
  <1>2. fp[c] = 0 /\ current[c] # 0 /\ buffer[c] = <<>> /\ current[c] \in Up
        /\ up[current[c]].end = "none"
    BY <1>1, Here DEF IndInv, Places, Opening
  <1>3. CASE Refused(c) /\ UNCHANGED <<fp, names>>
    <2>1. TypeOK' BY <1>1, <1>2, <1>3, RefusedFacts DEF IndInv, TypeOK
    <2>2. OwnStep(c) BY <1>1, <1>2, <1>3, RefusedFacts DEF OwnStep, Opening
    <2>3. OwnUpload(c)
      BY <1>1, <1>2, <1>3, RefusedFacts DEF OwnUpload, Opening, Ready, Busy
    <2>4. QED BY <2>1, <2>2, <2>3, OwnStepKeeps
  <1>4. CASE /\ fp' = [fp EXCEPT ![c] = IF names[Mine(c)] = 0 THEN current[c]
                                        ELSE names[Mine(c)]]
             /\ Names(c, fp'[c])
             /\ Goes(c, "idle")
    <2>1. fp' = [fp EXCEPT ![c] = Opened(c)] BY <1>4 DEF Opened
    <2>2. fp'[c] = Opened(c) BY <2>1 DEF IndInv, TypeOK
    <2>3. Opens(c) BY <1>1, <1>4, <2>1, <2>2 DEF Opens
    <2>4. QED BY <1>1, <2>3, NamesStepKeeps
  <1>5. QED BY <1>3, <1>4 DEF Open

LEMMA NextIndInv == IndInv /\ [Next]_vars => IndInv'
  <1> SUFFICES ASSUME IndInv, [Next]_vars PROVE IndInv' OBVIOUS
  <1>1. ASSUME NEW c \in Client, NEW p \in Path, SendFileName(c, p)
        PROVE  IndInv'
    BY <1>1, SendFileNameKeeps
  <1>2. ASSUME NEW c \in Client, RemoveOld(c) PROVE IndInv'
    <2>1. CASE Names(c, 0)
      <3>1. Frees(c) /\ UNCHANGED <<cancel, buffer, current, made, files>>
        BY <1>2, <2>1 DEF RemoveOld, Frees
      <3>2. QED BY <3>1, NamesStepKeeps
    <2>2. CASE RemoveFailed(c) BY <1>2, <2>2, RemoveFailedKeeps DEF RemoveOld
    <2>3. QED BY <1>2, <2>1, <2>2 DEF RemoveOld, RemoveFile
  <1>3. ASSUME NEW c \in Client, Unlink(c) PROVE IndInv'
    <2>1. CASE Names(c, 0)
      <3>1. Frees(c) /\ UNCHANGED <<cancel, buffer, current, made, files>>
        BY <1>3, <2>1 DEF Unlink, Frees
      <3>2. QED BY <3>1, NamesStepKeeps
    <2>2. CASE RemoveFailed(c) BY <1>3, <2>2, RemoveFailedKeeps DEF Unlink
    <2>3. QED BY <1>3, <2>1, <2>2 DEF Unlink, RemoveFile
  <1>4. ASSUME NEW c \in Client, Access(c) PROVE IndInv' BY <1>4, AccessKeeps
  <1>5. ASSUME NEW c \in Client, MkDir(c) PROVE IndInv' BY <1>5, MkDirKeeps
  <1>6. ASSUME NEW c \in Client, Open(c) PROVE IndInv' BY <1>6, OpenKeeps
  <1>7. ASSUME NEW c \in Client, SendFile(c) PROVE IndInv' BY <1>7, SendFileKeeps
  <1>8. ASSUME NEW c \in Client, SendFileEnd(c) PROVE IndInv'
    BY <1>8, SendFileEndKeeps
  <1>9. ASSUME NEW c \in Client, SendFileCancelled(c) PROVE IndInv'
    BY <1>9, SendFileCancelledKeeps
  <1>10. ASSUME NEW c \in Client, SendFileCancel(c) PROVE IndInv'
    BY <1>10, SendFileCancelKeeps
  <1>11. CASE UNCHANGED vars
    <2> USE <1>11 DEF vars, serverVars, IndInv
    <2>1. TypeOK' BY DEF TypeOK
    <2>2. Numbered' /\ Owners' /\ Places' /\ NoFileYet'
      BY DEF Numbered, Owners, Places, NoFileYet, Unopened, Opening, Ready
    <2>3. NamesOwn' /\ WritesOwn' /\ PathFree' /\ Content'
      BY DEF NamesOwn, WritesOwn, PathFree, Content, Clean, Ready, Mine, Blocks
    <2>4. Stays' /\ CancelledIsRemoved' /\ FinishedIsWhole'
      BY DEF Stays, CancelledIsRemoved, FinishedIsWhole, Busy, Mine
    <2>5. QED BY <2>1, <2>2, <2>3, <2>4
  <1>12. QED
    BY <1>1, <1>2, <1>3, <1>4, <1>5, <1>6, <1>7, <1>8, <1>9, <1>10, <1>11 DEF Next

LEMMA InvHolds == Spec => []IndInv
  BY InitIndInv, NextIndInv, PTL DEF Spec

-----------------------------------------------------------------------------
(* Types: an upload has a number, its blocks are its own, its path is one   *)
(* (SENDFILENAME, SENDFILE).                                                *)
THEOREM TypeCorrect == Spec => []TypeOK
  <1>1. IndInv => TypeOK BY DEF IndInv
  <1>2. QED BY <1>1, InvHolds, PTL

(* Upload!CancelledIsRemoved: what SENDFILE_CANCEL or a short write ended   *)
(* leaves no path that names its file, for any number of clients and paths, *)
(* unless remove fails: it takes the right file away although it goes by    *)
(* the path alone.                                                          *)
THEOREM CancelledUploadIsRemoved == Spec => []CancelledIsRemoved
  <1>1. IndInv => CancelledIsRemoved BY DEF IndInv
  <1>2. QED BY <1>1, InvHolds, PTL

(* Upload!FinishedIsWhole: the empty block that ends an upload finds all    *)
(* its blocks in order in the file that its path names, unless another      *)
(* client changed what the path names, fclose failed unnoticed, or the old  *)
(* file was not removed.                                                    *)
THEOREM FinishedUploadIsWhole == Spec => []FinishedIsWhole
  <1>1. IndInv => FinishedIsWhole BY DEF IndInv
  <1>2. QED BY <1>1, InvHolds, PTL

(* Upload!FinishedStays, step by step: whoever opens or removes what the    *)
(* path names, or writes to the file, is busy with the path, so by Stays it *)
(* found that it could not remove the file, or it is the one that removes.  *)
LEMMA StepStays ==
    ASSUME IndInv, [Next]_vars, NEW p \in Path, NEW u \in Up,
           names[p] = u, names'[p] # u \/ files'[u] # files[u],
           up[u].end = "finished", up[u].alone
    PROVE  \E c \in Client : current[c] # 0 /\ Replaces(c, p)
  <1> USE UploadAssumption
  <1>1. up[u].path = p BY DEF IndInv, NamesOwn, Up
  <1>2. ASSUME NEW c \in Client, Busy(c), Mine(c) = p,
               at[c] \notin {"dir", "mkdir"}
        PROVE  current[c] # 0 /\ Replaces(c, p)
    <2>1. current[c] # 0 BY <1>2, Here DEF Busy, Up
    <2>2. QED BY <1>1, <1>2, <2>1 DEF IndInv, Stays, Replaces
  <1>3. ASSUME NEW c \in Client, NEW f, Names(c, f), UNCHANGED files
        PROVE  Mine(c) = p
    BY <1>3 DEF Names, IndInv, TypeOK
  <1>4. ASSUME NEW c \in Client, RemoveOld(c) \/ Unlink(c) \/ Open(c)
        PROVE  Busy(c) /\ Mine(c) = p /\ at[c] \notin {"dir", "mkdir"}
    <2>1. at[c] \in {"remove", "unlink", "open"} /\ UNCHANGED files
      BY <1>4 DEF RemoveOld, Unlink, Open
    <2>2. (\E f : Names(c, f)) \/ UNCHANGED names
      BY <1>4 DEF RemoveOld, Unlink, Open, RemoveFile, RemoveFailed
    <2>3. QED BY <1>3, <2>1, <2>2 DEF Busy
  <1>5. ASSUME NEW c \in Client, at[c] = "idle", fp[c] = u
        PROVE  Busy(c) /\ Mine(c) = p /\ at[c] \notin {"dir", "mkdir"}
    BY <1>1, <1>5 DEF Busy, IndInv, WritesOwn, Up
  <1>6. ASSUME NEW c \in Client, NEW b, NEW n, Flush(c, b, n), fp[c] # u
        PROVE  files'[u] = files[u]
    BY <1>6 DEF Flush, IndInv, TypeOK
  <1>7. ASSUME NEW c \in Client, UNCHANGED names, at[c] = "idle",
               (\E b, n : Flush(c, b, n)) \/ UNCHANGED files
        PROVE  fp[c] = u
    BY <1>6, <1>7
  <1>8. ASSUME NEW c \in Client, NEW q \in Path, SendFileName(c, q) PROVE fp[c] = u /\ at[c] = "idle"
    BY <1>7, <1>8 DEF SendFileName
  <1>9. ASSUME NEW c \in Client, SendFile(c) PROVE fp[c] = u /\ at[c] = "idle"
    BY <1>7, <1>9 DEF SendFile, Ready, WriteShort
  <1>10. ASSUME NEW c \in Client, SendFileEnd(c) \/ SendFileCancelled(c)
         PROVE  fp[c] = u /\ at[c] = "idle"
    BY <1>7, <1>10 DEF SendFileEnd, SendFileCancelled, Ready
  <1>11. UNCHANGED <<names, files>> => FALSE OBVIOUS
  <1>12. PICK c \in Client : Busy(c) /\ Mine(c) = p /\ at[c] \notin {"dir", "mkdir"}
    BY <1>4, <1>5, <1>8, <1>9, <1>10, <1>11
    DEF Next, Access, MkDir, SendFileCancel, vars
  <1>13. QED BY <1>2, <1>12

(* A finished file stays as it is until SENDFILENAME removes it, for any    *)
(* number of clients, also when one of them has a cancel yet to be acted    *)
(* upon or a block yet to be written, unless that client could not remove   *)
(* the file.                                                                *)
THEOREM FinishedUploadStays == Spec => FinishedStays
  <1>1. IndInv /\ [Next]_vars =>
           [\A p \in Path : \A u \in Up :
               /\ names[p] = u /\ (names'[p] # u \/ files'[u] # files[u])
               /\ up[u].end = "finished" /\ up[u].alone
               => \E c \in Client : current[c] # 0 /\ Replaces(c, p)]_vars
    BY StepStays
  <1>2. QED BY <1>1, InvHolds, PTL DEF Spec, FinishedStays
=============================================================================
