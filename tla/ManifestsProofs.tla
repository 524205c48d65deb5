-------------------------- MODULE ManifestsProofs --------------------------
(***************************************************************************)
(* What reading the two manifests establishes, for every file, symbol      *)
(* table and address width.                                                *)
(*                                                                         *)
(* The argument.  In either loop the lines left are the rest of the file   *)
(* after its first k, and what has been kept is what those k say; a        *)
(* refusal is then a fact about the file.  A sort permutes what was kept   *)
(* and leaves no pair inverted, so neighbours that do not overlap are a    *)
(* whole list that does not.  The end of a section is the greatest end of  *)
(* what lies in it, so each candidate lands where its own rule puts it.    *)
(***************************************************************************)
EXTENDS Manifests, OrderProofs, FiniteSetTheorems

\* The first k lines have been read: the rest is left, and saw_header says
\* what the k are.
ReadTo(file, k) ==
  /\ ~file.bare_cr
  /\ k \in 0 .. Len(file.lines) /\ Len(lines) = Len(file.lines) - k
  /\ \A n \in DOMAIN lines : lines[n] = file.lines[k + n]
  /\ ~saw_header => \A n \in 1 .. k : file.lines[n].kind = "blank"
  /\ saw_header =>
       \E h \in 1 .. k : \A n \in 1 .. k :
         /\ file.lines[n].kind # "torn"
         /\ file.lines[n].kind = "header" <=> n = h
         /\ file.lines[n].kind = "row" => h < n

\* The rows among them.
RowsRead(file, k) == {n \in 1 .. k : file.lines[n].kind = "row"}

\* What is kept is what the rows read say, each once.
ReadingData ==
  phase = "data" =>
    \E file \in input.data, k \in Nat :
      /\ ReadTo(file, k)
      /\ \A m \in DOMAIN definitions :
           \E n \in RowsRead(file, k) : definitions[m] \in Parsed(file.lines[n].row)
      /\ \A i, j \in DOMAIN definitions : i # j => definitions[i].rva # definitions[j].rva

ReadingRelocs ==
  phase = "relocs" =>
    \E file \in input.reloc, k \in Nat :
      /\ ReadTo(file, k)
      /\ Seen = UNION {file.lines[n].row.site_rva : n \in RowsRead(file, k)}
      /\ \A i, j \in DOMAIN sites : i # j => sites[i] # sites[j]

\* Nothing is kept of a file before it is read.
NotYet ==
  /\ phase = "open data" => definitions = <<>>
  /\ phase \in {"open data", "data", "open relocs"} => sites = <<>>

\* A definition begins where the tables have a symbol.
Identified ==
  \A d \in ToSet(definitions) : d.rva \in input.statics \cup input.constants \cup input.strings

IInv ==
  /\ TypeOK /\ NotYet /\ Identified /\ ReadingData /\ ReadingRelocs
  /\ DefinitionsApart /\ RefusedForCause /\ SitesAreTheRows
-----------------------------------------------------------------------------
(* Sorting.                                                                *)

\* A function over the first numbers is a list.
LEMMA ListOfFunction ==
  ASSUME NEW n \in Nat, NEW S, NEW s \in [1 .. n -> S]
  PROVE  s \in Seq(S) /\ Len(s) = n /\ DOMAIN s = 1 .. n
OBVIOUS

\* What a sort leaves is a permutation with no pair inverted.
LEMMA SortsFacts ==
  ASSUME NEW S, NEW seq \in Seq(S), NEW key, NEW s \in Sorts(seq, key)
  PROVE  /\ s \in Seq(S) /\ Len(s) = Len(seq) /\ DOMAIN s = DOMAIN seq
         /\ ToSet(s) = ToSet(seq)
         /\ (\A i, j \in DOMAIN seq : i # j => seq[i] # seq[j])
              => \A i, j \in DOMAIN s : i # j => s[i] # s[j]
         /\ \A i, j \in DOMAIN s : i < j => ~Less(key[s[j]], key[s[i]])
<1> DEFINE D == 1 .. Len(seq)
<1>1. DOMAIN seq = D /\ Len(seq) \in Nat
  OBVIOUS
<1>2. IsFiniteSet(D) /\ Cardinality(D) = Len(seq)
  BY <1>1, FS_Interval
<1>3. PICK p \in SetToSeqs(D) : s = [n \in D |-> seq[p[n]]]
  BY <1>1 DEF Sorts
<1>4. p \in [D -> D] /\ \A i, j \in D : i # j => p[i] # p[j]
  BY <1>2, <1>3 DEF SetToSeqs
<1>5. p \in Injection(D, D)
  BY <1>4 DEF Injection, IsInjective
<1>6. p \in Surjection(D, D)
  BY <1>2, <1>5, FS_Injection
<1>7. \A n \in D : \E m \in D : p[m] = n
  BY <1>6 DEF Surjection
<1>8. s \in [D -> S] /\ \A n \in D : s[n] = seq[p[n]]
  BY <1>1, <1>3, <1>4
<1>9. s \in Seq(S) /\ Len(s) = Len(seq) /\ DOMAIN s = D
  <2>1. s \in [1 .. Len(seq) -> S]
    BY <1>8
  <2> QED BY <1>1, <2>1, ListOfFunction
<1>10. ToSet(s) = ToSet(seq)
  <2>1. \A n \in D : s[n] \in {seq[m] : m \in D}
    BY <1>4, <1>8
  <2>2. \A m \in D : seq[m] \in {s[n] : n \in D}
    BY <1>7, <1>8
  <2>3. ToSet(s) = {s[n] : n \in D} /\ ToSet(seq) = {seq[m] : m \in D}
    BY <1>1, <1>9 DEF ToSet
  <2> QED BY <2>1, <2>2, <2>3
<1>11. (\A i, j \in DOMAIN seq : i # j => seq[i] # seq[j])
         => \A i, j \in DOMAIN s : i # j => s[i] # s[j]
  BY <1>1, <1>4, <1>8, <1>9
<1>12. \A i, j \in DOMAIN s : i < j => ~Less(key[s[j]], key[s[i]])
  BY DEF Sorts
<1> QED BY <1>1, <1>9, <1>10, <1>11, <1>12

\* Where a strict total order puts the elements of a list: a sort has
\* something to leave.  The place of each is the number of those not after it.
LEMMA SortExists ==
  ASSUME NEW S, NEW seq \in Seq(S), NEW key,
         \A i \in DOMAIN seq : ~Less(key[seq[i]], key[seq[i]]),
         \A i, j \in DOMAIN seq :
           i # j => Less(key[seq[i]], key[seq[j]]) \/ Less(key[seq[j]], key[seq[i]]),
         \A i, j, k \in DOMAIN seq :
           Less(key[seq[i]], key[seq[j]]) /\ Less(key[seq[j]], key[seq[k]])
             => Less(key[seq[i]], key[seq[k]])
  PROVE  Sorts(seq, key) # {}
<1> DEFINE D == 1 .. Len(seq)
           R == {x \in D \X D : Less(key[seq[x[1]]], key[seq[x[2]]])}
           NotAfter(n) == {m \in D : <<n, m>> \notin R}
           rank == [n \in D |-> Cardinality(NotAfter(n))]
<1>1. DOMAIN seq = D /\ Len(seq) \in Nat
  OBVIOUS
<1>2. IsFiniteSet(D) /\ Cardinality(D) = Len(seq)
  BY <1>1, FS_Interval
<1>3. \A i, j \in D : <<i, j>> \in R <=> Less(key[seq[i]], key[seq[j]])
  OBVIOUS
<1>4. /\ \A i \in D : <<i, i>> \notin R
      /\ \A i, j \in D : i # j => <<i, j>> \in R \/ <<j, i>> \in R
      /\ \A i, j, k \in D : <<i, j>> \in R /\ <<j, k>> \in R => <<i, k>> \in R
  BY <1>1, <1>3
<1> HIDE DEF R
<1>5. \A n \in D : /\ IsFiniteSet(NotAfter(n)) /\ rank[n] = Cardinality(NotAfter(n))
                   /\ rank[n] \in Nat /\ rank[n] <= Len(seq) /\ n \in NotAfter(n)
  <2> TAKE n \in D
  <2>1. NotAfter(n) \in SUBSET D /\ n \in NotAfter(n)
    BY <1>4
  <2>2. rank[n] = Cardinality(NotAfter(n))
    OBVIOUS
  <2> HIDE DEF NotAfter, rank, D
  <2>3. IsFiniteSet(NotAfter(n)) /\ Cardinality(NotAfter(n)) <= Cardinality(D)
    BY <1>2, <2>1, FS_Subset
  <2>4. Cardinality(NotAfter(n)) \in Nat
    BY <2>3, FS_CardinalityType
  <2> QED BY <1>2, <2>1, <2>2, <2>3, <2>4
<1>6. ASSUME NEW i \in D, NEW j \in D, <<i, j>> \in R
      PROVE  rank[i] < rank[j]
  <2>1. NotAfter(i) \in SUBSET NotAfter(j)
    <3> SUFFICES ASSUME NEW m \in D, <<i, m>> \notin R, <<j, m>> \in R PROVE FALSE
      OBVIOUS
    <3> QED BY <1>4, <1>6
  <2>2. j \in NotAfter(j) /\ j \notin NotAfter(i)
    BY <1>4, <1>6
  <2> HIDE DEF NotAfter, rank, D
  <2>3. Cardinality(NotAfter(i)) <= Cardinality(NotAfter(j))
    BY <1>5, <2>1, FS_Subset
  <2>4. Cardinality(NotAfter(i)) # Cardinality(NotAfter(j))
    BY <1>5, <2>1, <2>2, FS_Subset
  <2> QED BY <1>5, <2>3, <2>4
<1>7. \A n \in D : rank[n] \in D
  <2> TAKE n \in D
  <2>1. rank[n] # 0
    <3>1. NotAfter(n) # {}
      BY <1>5
    <3> HIDE DEF NotAfter, rank, D
    <3> QED BY <1>5, <3>1, FS_EmptySet
  <2> HIDE DEF rank, NotAfter
  <2> QED BY <1>1, <1>5, <2>1
<1>8. rank \in Surjection(D, D)
  <2> DEFINE f == rank
  <2>1. f \in [D -> D] /\ \A i, j \in D : f[i] = f[j] => i = j
    <3>1. \A i, j \in D : i # j => rank[i] # rank[j]
      <4> SUFFICES ASSUME NEW i \in D, NEW j \in D, i # j, rank[i] = rank[j] PROVE FALSE
        OBVIOUS
      <4>1. rank[i] \in Nat /\ rank[j] \in Nat /\ (<<i, j>> \in R \/ <<j, i>> \in R)
        BY <1>4, <1>5
      <4> HIDE DEF rank
      <4> QED BY <1>6, <4>1
    <3> QED BY <1>7, <3>1
  <2> HIDE DEF rank, D
  <2>2. rank \in Injection(D, D)
    BY <2>1 DEF Injection, IsInjective
  <2> QED BY <1>2, <2>2, FS_Injection
<1> HIDE DEF rank
<1>9. \A n \in D : \E m \in D : rank[m] = n
  BY <1>8 DEF Surjection
<1> DEFINE p == [n \in D |-> CHOOSE m \in D : rank[m] = n]
<1>10. \A n \in D : p[n] \in D /\ rank[p[n]] = n
  BY <1>9
<1>11. p \in [D -> D]
  BY <1>10
<1> HIDE DEF p
<1>12. p \in SetToSeqs(D)
  <2>1. \A i, j \in D : i # j => p[i] # p[j]
    BY <1>10
  <2>2. 1 .. Cardinality(D) = D
    BY <1>2
  <2> QED BY <1>11, <2>1, <2>2 DEF SetToSeqs
<1> DEFINE s == [n \in D |-> seq[p[n]]]
<1>13. ASSUME NEW i \in D, NEW j \in D, i < j
       PROVE  ~Less(key[s[j]], key[s[i]])
  <2>1. s[i] = seq[p[i]] /\ s[j] = seq[p[j]] /\ p[i] \in D /\ p[j] \in D
    BY <1>10
  <2>2. <<p[j], p[i]>> \in R => rank[p[j]] < rank[p[i]]
    BY <1>6, <2>1
  <2>3. <<p[j], p[i]>> \notin R
    <3>1. rank[p[j]] = j /\ rank[p[i]] = i /\ i \in Nat /\ j \in Nat
      BY <1>10
    <3> QED BY <1>13, <2>2, <3>1
  <2> QED BY <1>3, <2>1, <2>3
<1>14. s \in Sorts(seq, key)
  <2>1. DOMAIN s = D
    OBVIOUS
  <2>2. s \in {[n \in DOMAIN seq |-> seq[q[n]]] : q \in SetToSeqs(DOMAIN seq)}
    BY <1>1, <1>12
  <2>3. \A i, j \in DOMAIN s : i < j => ~Less(key[s[j]], key[s[i]])
    BY <1>13, <2>1
  <2> HIDE DEF s
  <2> QED BY <2>2, <2>3 DEF Sorts
<1> QED BY <1>14

\* The first difference of two keys of four numbers.
LEMMA LessOfFour ==
  ASSUME NEW a, NEW b, DOMAIN a = 1 .. 4
  PROVE  Less(a, b) <=> \/ a[1] < b[1]
                        \/ a[1] = b[1] /\ a[2] < b[2]
                        \/ a[1] = b[1] /\ a[2] = b[2] /\ a[3] < b[3]
                        \/ a[1] = b[1] /\ a[2] = b[2] /\ a[3] = b[3] /\ a[4] < b[4]
<1>1. /\ 1 .. 4 = {1, 2, 3, 4} /\ 1 .. 1 - 1 = {} /\ 1 .. 2 - 1 = {1}
      /\ 1 .. 3 - 1 = {1, 2} /\ 1 .. 4 - 1 = {1, 2, 3}
  OBVIOUS
<1>2. Less(a, b) <=> \E n \in {1, 2, 3, 4} : a[n] < b[n] /\ \A m \in 1 .. n - 1 : a[m] = b[m]
  BY <1>1 DEF Less
<1> QED BY <1>1, <1>2

\* Keys of one number compare as the numbers do.
LEMMA LessSingle ==
  ASSUME NEW a \in Nat, NEW b \in Nat
  PROVE  Less(<<a>>, <<b>>) <=> a < b
<1>1. DOMAIN <<a>> = 1 .. 1 /\ <<a>>[1] = a /\ <<b>>[1] = b
  OBVIOUS
<1>2. 1 .. 1 = {1} /\ 1 .. 1 - 1 = {}
  OBVIOUS
<1>3. Less(<<a>>, <<b>>) <=> \E n \in {1} : <<a>>[n] < <<b>>[n]
  BY <1>1, <1>2 DEF Less
<1> QED BY <1>1, <1>3
-----------------------------------------------------------------------------
(* Rows.                                                                   *)

\* A row that parses gives a definition with the RVA and the size it lists.
LEMMA ParsedFacts ==
  ASSUME IsInput(input), NEW row \in DataRow, NEW d \in Parsed(row)
  PROVE  /\ d \in DefinitionType
         /\ row.rva = {d.rva}
<1>1. /\ d \in [object : {Normalized(row.path)}, rva : row.rva, size : row.size,
                 storage : {row.storage} \ {"other"}, alignment : row.alignment,
                 section_offset : {row.section_offset.number},
                 scope : {row.scope} \ {"other"},
                 symbol : {"statics", "constants", "strings"}]
      /\ d.size # 0 /\ d.alignment # 0
  BY DEF Parsed
<1>2. /\ row.rva \in Numbers /\ row.size \in Numbers /\ row.alignment \in Numbers
      /\ row.section_offset.number \in Numbers /\ row.path.name \in Nat
      /\ row.storage \in {"data", "rdata", "bss", "other"}
      /\ row.scope \in {"external", "local", "other"}
  BY DEF DataRow
<1>3. d.rva \in Usize /\ d.size \in Usize /\ d.alignment \in Usize /\ row.rva = {d.rva}
  BY <1>1, <1>2 DEF Numbers
<1>4. Normalized(row.path) \in [name : Nat, slash : {"\\"}]
  BY <1>2 DEF Normalized
<1>5. d.storage \in DOMAIN Rank
  BY <1>1, <1>2 DEF Rank
<1> QED BY <1>1, <1>2, <1>3, <1>4, <1>5 DEF DefinitionType

\* What a row says is a matter of the row and the symbol tables.
LEMMA ParsedConstant ==
  ASSUME input' = input
  PROVE  \A row : Parsed(row)' = Parsed(row)
BY DEF Parsed, Identity

\* What the lines of a file are.
LEMMA LinesType ==
  ASSUME NEW Row, NEW file, IsFile(file, Row), NEW n \in DOMAIN file.lines
  PROVE  /\ file.lines[n] \in LineOf(Row)
         /\ file.lines[n].kind \in {"blank", "header", "torn", "row"}
         /\ file.lines[n].kind = "row" => file.lines[n].row \in Row
BY DEF IsFile, LineOf

\* A definition begins at a natural number and is not empty.
LEMMA DefinitionFacts ==
  ASSUME NEW d \in DefinitionType
  PROVE  d.rva \in Nat /\ d.size \in Nat /\ d.size > 0 /\ d.rva \in Usize
BY InputsAssumption DEF DefinitionType, Usize

\* So does every definition of a list.
LEMMA ListFacts ==
  ASSUME NEW s \in Seq(DefinitionType)
  PROVE  /\ Len(s) \in Nat /\ DOMAIN s = 1 .. Len(s)
         /\ \A n \in DOMAIN s : s[n].rva \in Nat /\ s[n].size \in Nat /\ s[n].size > 0
<1>1. \A n \in DOMAIN s : s[n] \in DefinitionType
  OBVIOUS
<1> QED BY <1>1, DefinitionFacts

-----------------------------------------------------------------------------
(* The lines read so far.                                                  *)

\* A file of the input has one of the two kinds of lines.
LEMMA FilesType ==
  ASSUME TypeOK
  PROVE  /\ \A f \in input.data : IsFile(f, DataRow) /\ \A g \in input.data : f = g
         /\ \A f \in input.reloc : IsFile(f, RelocRow) /\ \A g \in input.reloc : f = g
BY DEF TypeOK, IsInput, AtMostOne

\* The first line left is the one after those read.
LEMMA NextLine ==
  ASSUME NEW Row, NEW file, IsFile(file, Row), NEW k \in Nat, ReadTo(file, k),
         lines # <<>>, NEW T, lines \in Seq(T)
  PROVE  /\ k + 1 \in DOMAIN file.lines /\ Head(lines) = file.lines[k + 1]
         /\ 1 .. k + 1 = (1 .. k) \cup {k + 1} /\ k + 1 \notin 1 .. k
<1>1. Head(lines) = lines[1] /\ 1 \in DOMAIN lines /\ Len(lines) \in Nat /\ DOMAIN lines = 1 .. Len(lines)
  BY TailFacts
<1>2. Len(file.lines) \in Nat /\ DOMAIN file.lines = 1 .. Len(file.lines)
  BY DEF IsFile
<1> QED BY <1>1, <1>2 DEF ReadTo

\* Taking a line reads one more: the blank ones change nothing, the header
\* is noted, and a row comes after it.
LEMMA LineTaken ==
  ASSUME NEW Row, NEW file, IsFile(file, Row), NEW k \in Nat, ReadTo(file, k),
         lines # <<>>, NEW T, lines \in Seq(T), lines' = Tail(lines),
         \/ saw_header' = saw_header /\ Head(lines).kind = "blank"
         \/ saw_header' = saw_header /\ saw_header /\ Head(lines).kind = "row"
         \/ saw_header' = TRUE /\ ~saw_header /\ Head(lines).kind = "header"
  PROVE  ReadTo(file, k + 1)'
<1>1. /\ k + 1 \in DOMAIN file.lines /\ Head(lines) = file.lines[k + 1]
      /\ 1 .. k + 1 = (1 .. k) \cup {k + 1}
  BY NextLine
<1>2. Len(file.lines) \in Nat /\ DOMAIN file.lines = 1 .. Len(file.lines)
  BY DEF IsFile
<1>3. k + 1 \in 0 .. Len(file.lines) /\ Len(lines') = Len(file.lines) - (k + 1)
  <2>1. Len(lines') = Len(lines) - 1
    OBVIOUS
  <2> QED BY <1>1, <1>2, <2>1 DEF ReadTo
<1>4. \A n \in DOMAIN lines' : lines'[n] = file.lines[(k + 1) + n]
  <2> TAKE n \in DOMAIN lines'
  <2>1. n \in Nat /\ n + 1 \in DOMAIN lines /\ lines'[n] = lines[n + 1]
    BY TailFacts
  <2>2. lines[n + 1] = file.lines[k + (n + 1)]
    BY <2>1 DEF ReadTo
  <2>3. k + (n + 1) = (k + 1) + n
    BY <2>1
  <2> QED BY <2>1, <2>2, <2>3
<1>5. ~saw_header' => \A n \in 1 .. k + 1 : file.lines[n].kind = "blank"
  BY <1>1 DEF ReadTo
<1>6. saw_header' =>
        \E h \in 1 .. k + 1 : \A n \in 1 .. k + 1 :
          /\ file.lines[n].kind # "torn"
          /\ file.lines[n].kind = "header" <=> n = h
          /\ file.lines[n].kind = "row" => h < n
  <2>1. CASE saw_header
    <3>1. PICK h \in 1 .. k : \A n \in 1 .. k :
            /\ file.lines[n].kind # "torn"
            /\ file.lines[n].kind = "header" <=> n = h
            /\ file.lines[n].kind = "row" => h < n
      BY <2>1 DEF ReadTo
    <3>2. h \in 1 .. k + 1 /\ h < k + 1
      OBVIOUS
    <3>3. file.lines[k + 1].kind \in {"blank", "row"}
      BY <1>1, <2>1
    <3>4. \A n \in 1 .. k + 1 :
            /\ file.lines[n].kind # "torn"
            /\ file.lines[n].kind = "header" <=> n = h
            /\ file.lines[n].kind = "row" => h < n
      BY <1>1, <3>1, <3>2, <3>3
    <3> QED BY <3>2, <3>4
  <2>2. CASE ~saw_header
    <3>1. \A n \in 1 .. k : file.lines[n].kind = "blank" /\ n # k + 1
      BY <2>2 DEF ReadTo
    <3>2. saw_header' => file.lines[k + 1].kind = "header"
      BY <1>1, <2>2
    <3> QED BY <1>1, <3>1, <3>2
  <2> QED BY <2>1, <2>2
<1>7. ~file.bare_cr
  BY DEF ReadTo
<1> HIDE DEF ReadTo
<1> QED BY <1>3, <1>4, <1>5, <1>6, <1>7 DEF ReadTo

\* The rows read grow by the line taken, if it is a row.
LEMMA RowTaken ==
  ASSUME NEW Row, NEW file, IsFile(file, Row), NEW k \in Nat, ReadTo(file, k),
         lines # <<>>, NEW T, lines \in Seq(T)
  PROVE  RowsRead(file, k + 1) =
           RowsRead(file, k) \cup {n \in {k + 1} : Head(lines).kind = "row"}
BY NextLine DEF RowsRead

\* A line that is refused for its kind is one a well-shaped file does not have.
LEMMA RefusedLine ==
  ASSUME NEW Row, NEW file, IsFile(file, Row), NEW k \in Nat, ReadTo(file, k),
         NEW T, lines \in Seq(T),
         \/ lines = <<>> /\ ~saw_header
         \/ lines # <<>> /\ ~saw_header /\ Head(lines).kind \notin {"blank", "header"}
         \/ lines # <<>> /\ saw_header /\ Head(lines).kind \in {"header", "torn"}
  PROVE  ~Shaped(file)
<1> SUFFICES ASSUME Shaped(file) PROVE FALSE
  OBVIOUS
<1>1. /\ \A n \in DOMAIN file.lines : file.lines[n].kind # "torn"
      /\ Len(file.lines) \in Nat /\ DOMAIN file.lines = 1 .. Len(file.lines)
  BY DEF Shaped, IsFile
<1>2. PICK h \in DOMAIN file.lines : \A n \in DOMAIN file.lines :
        /\ file.lines[n].kind = "header" <=> n = h
        /\ file.lines[n].kind = "row" => h < n
  BY DEF Shaped, RowsOf
<1>3. CASE lines = <<>>
  BY <1>1, <1>2, <1>3 DEF ReadTo
<1>4. CASE lines # <<>>
  <2>1. k + 1 \in DOMAIN file.lines /\ Head(lines) = file.lines[k + 1]
    BY <1>4, NextLine
  <2>2. Head(lines).kind \in {"blank", "header", "torn", "row"}
    BY <2>1, LinesType
  <2>3. 1 .. k \subseteq DOMAIN file.lines
    BY <1>1 DEF ReadTo
  <2>4. CASE ~saw_header
    <3>1. Head(lines).kind = "row"
      BY <1>1, <1>4, <2>1, <2>2, <2>4
    <3>2. h \in 1 .. k
      BY <1>1, <1>2, <2>1, <3>1
    <3> QED BY <1>2, <2>4, <3>2 DEF ReadTo
  <2>5. CASE saw_header
    <3>1. PICK g \in 1 .. k : file.lines[g].kind = "header"
      BY <2>5 DEF ReadTo
    <3>2. file.lines[k + 1].kind = "header"
      BY <1>1, <1>4, <2>1, <2>5
    <3> QED BY <1>2, <2>1, <2>3, <3>1, <3>2
  <2> QED BY <2>4, <2>5
<1> QED BY <1>3, <1>4

-----------------------------------------------------------------------------
(* Type correctness.                                                       *)

LineType == LineOf(DataRow) \cup LineOf(RelocRow)

\* A file that is opened has lines.
LEMMA OpenType ==
  ASSUME TypeOK, NEW file, NEW Row, NEW reading, NEW next, NEW refused,
         \A f \in file : IsFile(f, Row), LineOf(Row) \subseteq LineType,
         {reading, next, refused} \subseteq Phases,
         Open(file, reading, next, refused), reading # next, reading # refused
  PROVE  TypeOK'
<1>1. lines' \in Seq(LineType)
  <2>1. CASE phase' = reading
    <3>1. PICK f \in file : lines' = f.lines
      BY <2>1 DEF Open
    <3> QED BY <3>1 DEF IsFile
  <2>2. CASE phase' # reading
    BY <2>2 DEF Open
  <2> QED BY <2>1, <2>2
<1>2. phase' \in Phases
  BY DEF Open
<1> QED BY <1>1, <1>2 DEF Open, TypeOK, IsInput, LineType

\* A row met in a file is a row of its kind.
LEMMA RowMet ==
  ASSUME NEW Row, NEW file, IsFile(file, Row), NEW k \in Nat, ReadTo(file, k), RowNext, TypeOK
  PROVE  /\ Head(lines).row \in Row
         /\ k + 1 \in DOMAIN file.lines /\ Head(lines) = file.lines[k + 1]
         /\ RowsRead(file, k + 1) = RowsRead(file, k) \cup {k + 1} /\ k + 1 \notin RowsRead(file, k)
         /\ lines # <<>> /\ lines \in Seq(LineType)
<1>1. lines # <<>> /\ lines \in Seq(LineType) /\ Head(lines).kind = "row"
  BY DEF RowNext, Reading, TypeOK, LineType
<1>2. k + 1 \in DOMAIN file.lines /\ Head(lines) = file.lines[k + 1] /\ k + 1 \notin 1 .. k
  BY <1>1, NextLine
<1>3. RowsRead(file, k + 1) = RowsRead(file, k) \cup {k + 1}
  BY <1>1, RowTaken
<1>4. k + 1 \notin RowsRead(file, k)
  BY <1>2 DEF RowsRead
<1> QED BY <1>1, <1>2, <1>3, <1>4, LinesType

\* Every step of either loop keeps the types.
LEMMA NextType ==
  ASSUME TypeOK, ReadingData, ReadingRelocs, [Next]_vars
  PROVE  TypeOK'
<1>1. CASE OpenData
  BY <1>1, OpenType, FilesType DEF OpenData, LineType, Phases, Failures
<1>2. CASE OpenRelocs
  BY <1>2, OpenType, FilesType DEF OpenRelocs, LineType, Phases, Failures
<1>3. lines # <<>> => Tail(lines) \in Seq(LineType)
  BY DEF TypeOK, LineType
<1>4. CASE SkipLine \/ ReadHeader
  BY <1>3, <1>4 DEF SkipLine, ReadHeader, Reading, TypeOK, LineType, IsInput
<1>5. CASE Refuse
  BY <1>5 DEF Refuse, TypeOK, IsInput, Phases, Failures
<1>6. CASE KeepDefinition
  <2>1. PICK file \in input.data, k \in Nat : ReadTo(file, k)
    BY <1>6 DEF KeepDefinition, ReadingData
  <2>2. Head(lines).row \in DataRow /\ lines # <<>>
    BY <1>6, <2>1, FilesType, RowMet DEF KeepDefinition
  <2>3. PICK d \in Parsed(Head(lines).row) : definitions' = Append(definitions, d)
    BY <1>6 DEF KeepDefinition
  <2>4. d \in DefinitionType
    BY <2>2, <2>3, ParsedFacts DEF TypeOK
  <2>5. definitions' \in Seq(DefinitionType)
    BY <2>3, <2>4 DEF TypeOK
  <2> QED BY <1>3, <1>6, <2>2, <2>5 DEF KeepDefinition, TypeOK, LineType, IsInput
<1>7. CASE KeepSite
  <2>1. PICK file \in input.reloc, k \in Nat : ReadTo(file, k)
    BY <1>7 DEF KeepSite, ReadingRelocs
  <2>2. Head(lines).row \in RelocRow /\ lines # <<>>
    BY <1>7, <2>1, FilesType, RowMet DEF KeepSite
  <2>3. PICK site \in Head(lines).row.site_rva : sites' = Append(sites, site)
    BY <1>7 DEF KeepSite
  <2>4. site \in Usize
    BY <2>2, <2>3 DEF RelocRow, Numbers
  <2>5. sites' \in Seq(Usize)
    BY <2>3, <2>4 DEF TypeOK
  <2> QED BY <1>3, <1>7, <2>2, <2>5 DEF KeepSite, TypeOK, LineType, IsInput
<1>8. CASE FinishData
  <2>1. definitions' \in Seq(DefinitionType)
    BY <1>8, SortsFacts DEF FinishData, TypeOK
  <2> QED BY <1>8, <2>1 DEF FinishData, TypeOK, IsInput, Phases, Failures
<1>9. CASE FinishRelocs
  <2>1. sites' \in Seq(Usize)
    BY <1>9, SortsFacts DEF FinishRelocs, TypeOK
  <2> QED BY <1>9, <2>1 DEF FinishRelocs, TypeOK, IsInput, Phases
<1>10. CASE Stop \/ UNCHANGED vars
  BY <1>10 DEF Stop, vars, TypeOK, IsInput
<1> QED
  BY <1>1, <1>2, <1>4, <1>5, <1>6, <1>7, <1>8, <1>9, <1>10
    DEF Next, RefuseLine, RefuseHeaderless, RefuseDefinition, RefuseSite
-----------------------------------------------------------------------------
(* The steps.                                                              *)

Rest ==
  /\ NotYet /\ ReadingData /\ ReadingRelocs
  /\ DefinitionsApart /\ RefusedForCause /\ SitesAreTheRows

\* What is said of a phase holds in any other.
LEMMA Elsewhere ==
  /\ phase' # "data" => ReadingData'
  /\ phase' # "relocs" => ReadingRelocs'
  /\ phase' # "data refused" => RefusedForCause'
  /\ phase' # "loaded" => SitesAreTheRows'
  /\ phase' \notin {"open relocs", "relocs", "relocs refused", "loaded"} => DefinitionsApart'
  /\ phase' \notin {"open data", "data", "open relocs"} => NotYet'
BY DEF ReadingData, ReadingRelocs, RefusedForCause, SitesAreTheRows, DefinitionsApart, NotYet

\* The definitions stay apart if they stay.
LEMMA ApartStays ==
  ASSUME DefinitionsApart, definitions' = definitions,
         phase \in {"open relocs", "relocs", "relocs refused", "loaded"}
  PROVE  DefinitionsApart'
BY DEF DefinitionsApart

\* An empty list has no elements.
LEMMA NoElements == DOMAIN <<>> = {} /\ ToSet(<<>>) = {}
<1>1. DOMAIN <<>> = {}
  OBVIOUS
<1> QED BY <1>1 DEF ToSet

\* An empty list of definitions is apart.
LEMMA NoneApart ==
  ASSUME definitions' = <<>>
  PROVE  DefinitionsApart'
BY NoElements DEF DefinitionsApart, NonOverlapping

\* Opening a file reads none of it, or refuses it for a carriage return.
LEMMA OpenReads ==
  ASSUME NEW file, NEW Row, NEW f \in file, IsFile(f, Row), \A g \in file : g = f,
         NEW reading, NEW next, NEW refused, reading # refused, reading # next,
         Open(file, reading, next, refused)
  PROVE  /\ (phase' = refused /\ f.bare_cr) \/ (phase' = reading /\ ReadTo(f, 0)')
         /\ RowsRead(f, 0)' = {}
<1>1. CASE f.bare_cr
  BY <1>1 DEF Open, RowsRead
<1>2. CASE ~f.bare_cr
  <2>1. phase' = reading /\ lines' = f.lines /\ saw_header' = FALSE
    BY <1>2 DEF Open
  <2>2. Len(f.lines) \in Nat
    BY DEF IsFile
  <2>3. \A n \in DOMAIN f.lines : f.lines[n] = f.lines[0 + n]
    BY DEF IsFile
  <2>4. ReadTo(f, 0)'
    BY <1>2, <2>1, <2>2, <2>3 DEF ReadTo
  <2> QED BY <2>1, <2>4 DEF RowsRead
<1> QED BY <1>1, <1>2

\* Opening the data manifest.
LEMMA OpenDataKeeps ==
  ASSUME TypeOK, Rest, OpenData
  PROVE  Rest'
<1>1. /\ input' = input /\ definitions' = <<>> /\ sites' = <<>> /\ phase = "open data"
      /\ Open(input.data, "data", "open relocs", "data refused")
  BY DEF OpenData, Open, Rest, NotYet
<1>2. phase' \in {"data", "open relocs", "data refused"}
  BY <1>1 DEF Open
<1>3. NotYet' /\ DefinitionsApart' /\ SitesAreTheRows' /\ ReadingRelocs'
  BY <1>1, <1>2, NoneApart, Elsewhere DEF NotYet
<1>4. CASE input.data = {}
  <2>1. phase' = "open relocs"
    BY <1>1, <1>4 DEF Open
  <2> QED BY <1>3, <2>1, Elsewhere DEF Rest
<1>5. ASSUME NEW f \in input.data PROVE Rest'
  <2>1. IsFile(f, DataRow) /\ \A g \in input.data : g = f
    BY FilesType
  <2>2. /\ (phase' = "data refused" /\ f.bare_cr) \/ (phase' = "data" /\ ReadTo(f, 0)')
        /\ RowsRead(f, 0)' = {}
    BY <1>1, <2>1, OpenReads
  <2>3. ReadingData'
    BY <1>1, <2>2, NoElements DEF ReadingData
  <2>4. RefusedForCause'
    BY <1>1, <2>1, <2>2 DEF RefusedForCause, Shaped
  <2> QED BY <1>3, <2>3, <2>4 DEF Rest
<1> QED BY <1>4, <1>5

\* Opening the reloc manifest.
LEMMA OpenRelocsKeeps ==
  ASSUME TypeOK, Rest, OpenRelocs
  PROVE  Rest'
<1>1. /\ input' = input /\ definitions' = definitions /\ sites' = <<>>
      /\ phase = "open relocs"
      /\ Open(input.reloc, "relocs", "loaded", "relocs refused")
  BY DEF OpenRelocs, Open, Rest, NotYet
<1>2. phase' \in {"relocs", "loaded", "relocs refused"}
  BY <1>1 DEF Open
<1>3. NotYet' /\ DefinitionsApart' /\ ReadingData' /\ RefusedForCause'
  BY <1>1, <1>2, ApartStays, Elsewhere DEF Rest
<1>4. Seen' = {} /\ \A i, j \in DOMAIN sites' : i # j => sites'[i] # sites'[j]
  BY <1>1, NoElements DEF Seen
<1>5. CASE input.reloc = {}
  <2>1. phase' = "loaded"
    BY <1>1, <1>5 DEF Open
  <2>2. SitesAreTheRows'
    BY <1>1, <1>5, NoElements DEF SitesAreTheRows
  <2> QED BY <1>3, <2>1, <2>2, Elsewhere DEF Rest
<1>6. ASSUME NEW f \in input.reloc PROVE Rest'
  <2>1. IsFile(f, RelocRow) /\ \A g \in input.reloc : g = f
    BY FilesType
  <2>2. /\ (phase' = "relocs refused" /\ f.bare_cr) \/ (phase' = "relocs" /\ ReadTo(f, 0)')
        /\ RowsRead(f, 0)' = {}
    BY <1>1, <2>1, OpenReads
  <2>3. ReadingRelocs'
    BY <1>1, <1>4, <2>2 DEF ReadingRelocs
  <2> QED BY <1>3, <2>2, <2>3, Elsewhere DEF Rest
<1> QED BY <1>5, <1>6

\* A blank line, or the header, is read and nothing is kept.
LEMMA LineKeeps ==
  ASSUME TypeOK, Rest, SkipLine \/ ReadHeader
  PROVE  Rest'
<1>1. /\ UNCHANGED <<input, phase, definitions, sites>>
      /\ lines # <<>> /\ lines \in Seq(LineType) /\ lines' = Tail(lines)
      /\ phase \in {"data", "relocs"} /\ Head(lines).kind \in {"blank", "header"}
      /\ \/ saw_header' = saw_header /\ Head(lines).kind = "blank"
         \/ saw_header' = TRUE /\ ~saw_header /\ Head(lines).kind = "header"
  BY DEF SkipLine, ReadHeader, Reading, TypeOK, LineType
<1>2. ASSUME NEW Row, NEW f, IsFile(f, Row), NEW k \in Nat, ReadTo(f, k)
      PROVE  ReadTo(f, k + 1)' /\ RowsRead(f, k + 1) = RowsRead(f, k) /\ k + 1 \in Nat
  <2>1. /\ lines # <<>> /\ lines \in Seq(LineType) /\ lines' = Tail(lines)
        /\ \/ saw_header' = saw_header /\ Head(lines).kind = "blank"
           \/ saw_header' = saw_header /\ saw_header /\ Head(lines).kind = "row"
           \/ saw_header' = TRUE /\ ~saw_header /\ Head(lines).kind = "header"
    BY <1>1
  <2>2. ReadTo(f, k + 1)'
    BY <1>2, <2>1, LineTaken
  <2>3. RowsRead(f, k + 1) = RowsRead(f, k)
    BY <1>1, <1>2, RowTaken
  <2> QED BY <1>2, <2>2, <2>3
<1>3. ReadingData'
  <2>1. CASE phase = "data"
    <3>1. PICK f \in input.data, k \in Nat :
            /\ ReadTo(f, k)
            /\ \A m \in DOMAIN definitions :
                 \E n \in RowsRead(f, k) : definitions[m] \in Parsed(f.lines[n].row)
            /\ \A i, j \in DOMAIN definitions : i # j => definitions[i].rva # definitions[j].rva
      BY <2>1 DEF Rest, ReadingData
    <3>2. ReadTo(f, k + 1)' /\ RowsRead(f, k + 1) = RowsRead(f, k) /\ k + 1 \in Nat
      BY <1>2, <3>1, FilesType
    <3>3. \A row : Parsed(row)' = Parsed(row)
      BY <1>1, ParsedConstant
    <3>4. \A m \in DOMAIN definitions' :
            \E n \in RowsRead(f, k + 1) : definitions'[m] \in Parsed(f.lines[n].row)'
      BY <1>1, <3>1, <3>2, <3>3
    <3> QED BY <1>1, <3>1, <3>2, <3>4 DEF ReadingData, RowsRead
  <2> QED BY <1>1, <2>1, Elsewhere
<1>4. ReadingRelocs'
  <2>1. CASE phase = "relocs"
    <3>1. PICK f \in input.reloc, k \in Nat :
            /\ ReadTo(f, k)
            /\ Seen = UNION {f.lines[n].row.site_rva : n \in RowsRead(f, k)}
            /\ \A i, j \in DOMAIN sites : i # j => sites[i] # sites[j]
      BY <2>1 DEF Rest, ReadingRelocs
    <3>2. ReadTo(f, k + 1)' /\ RowsRead(f, k + 1) = RowsRead(f, k) /\ k + 1 \in Nat
      BY <1>2, <3>1, FilesType
    <3>3. Seen' = UNION {f.lines[n].row.site_rva : n \in RowsRead(f, k + 1)}
      BY <1>1, <3>1, <3>2 DEF Seen
    <3> QED BY <1>1, <3>1, <3>2, <3>3 DEF ReadingRelocs, RowsRead
  <2> QED BY <1>1, <2>1, Elsewhere
<1>5. DefinitionsApart'
  BY <1>1, ApartStays, Elsewhere DEF Rest
<1>6. NotYet' /\ RefusedForCause' /\ SitesAreTheRows'
  BY <1>1, Elsewhere DEF Rest, NotYet
<1> QED BY <1>3, <1>4, <1>5, <1>6 DEF Rest

\* A refusal is for a cause, if it is one of the data manifest, and says
\* nothing else.
LEMMA RefuseKeeps ==
  ASSUME TypeOK, Rest, Refuse, phase \in {"data", "relocs"},
         phase = "data" =>
           \A file \in input.data :
             \/ ~Shaped(file)
             \/ \E n \in RowsOf(file) : Parsed(file.lines[n].row) = {}
             \/ \E m, n \in RowsOf(file) :
                  m # n /\ \E d \in Parsed(file.lines[m].row), e \in Parsed(file.lines[n].row) :
                             d.rva <= e.rva /\ e.rva < d.rva + d.size
  PROVE  Rest'
<1>1. /\ UNCHANGED <<input, definitions, sites>>
      /\ phase' = IF phase = "data" THEN "data refused" ELSE "relocs refused"
  BY DEF Refuse
<1>2. NotYet' /\ ReadingData' /\ ReadingRelocs' /\ SitesAreTheRows'
  BY <1>1, Elsewhere
<1>3. DefinitionsApart'
  BY <1>1, ApartStays, Elsewhere DEF Rest
<1>4. \A row : Parsed(row)' = Parsed(row)
  BY <1>1, ParsedConstant
<1>5. RefusedForCause'
  BY <1>1, <1>4 DEF RefusedForCause, Shaped, RowsOf
<1> QED BY <1>2, <1>3, <1>5 DEF Rest

\* A line refused for its kind is a cause.
LEMMA RefuseLineKeeps ==
  ASSUME TypeOK, Rest, RefuseLine \/ RefuseHeaderless
  PROVE  Rest'
<1>1. /\ Refuse /\ phase \in {"data", "relocs"} /\ lines \in Seq(LineType)
      /\ \/ lines = <<>> /\ ~saw_header
         \/ lines # <<>> /\ ~saw_header /\ Head(lines).kind \notin {"blank", "header"}
         \/ lines # <<>> /\ saw_header /\ Head(lines).kind \in {"header", "torn"}
  BY DEF RefuseLine, RefuseHeaderless, Reading, TypeOK, LineType
<1>2. ASSUME phase = "data", NEW file \in input.data PROVE ~Shaped(file)
  <2>1. PICK k \in Nat : ReadTo(file, k)
    BY <1>2, FilesType DEF Rest, ReadingData
  <2> QED BY <1>1, <2>1, FilesType, RefusedLine
<1> QED BY <1>1, <1>2, RefuseKeeps

\* A row that does not parse, or whose RVA another row has, is a cause.
LEMMA RefuseDefinitionKeeps ==
  ASSUME TypeOK, Rest, RefuseDefinition
  PROVE  Rest'
<1>1. /\ Refuse /\ phase = "data" /\ RowNext
      /\ \A d \in Parsed(Head(lines).row) : d.rva \in Rvas
  BY DEF RefuseDefinition
<1>2. PICK file \in input.data, k \in Nat :
        /\ ReadTo(file, k)
        /\ \A m \in DOMAIN definitions :
             \E n \in RowsRead(file, k) : definitions[m] \in Parsed(file.lines[n].row)
  BY <1>1 DEF Rest, ReadingData
<1>3. /\ k + 1 \in DOMAIN file.lines /\ Head(lines) = file.lines[k + 1]
      /\ k + 1 \notin RowsRead(file, k) /\ Head(lines).row \in DataRow
      /\ RowsRead(file, k + 1) = RowsRead(file, k) \cup {k + 1}
  BY <1>1, <1>2, FilesType, RowMet
<1>4. k + 1 \in RowsOf(file) /\ RowsRead(file, k) \subseteq RowsOf(file)
  <2>1. Len(file.lines) \in Nat /\ DOMAIN file.lines = 1 .. Len(file.lines)
    BY <1>2, FilesType DEF IsFile
  <2>2. file.lines[k + 1].kind = "row"
    BY <1>1, <1>3 DEF RowNext
  <2>3. 1 .. k \subseteq DOMAIN file.lines
    BY <1>2, <2>1 DEF ReadTo
  <2> QED BY <1>3, <2>2, <2>3 DEF RowsOf, RowsRead
<1>5. CASE Parsed(Head(lines).row) = {}
  BY <1>1, <1>2, <1>3, <1>4, <1>5, FilesType, RefuseKeeps
<1>6. CASE Parsed(Head(lines).row) # {}
  <2>1. PICK e \in Parsed(file.lines[k + 1].row) : e.rva \in Rvas
    BY <1>1, <1>3, <1>6
  <2>2. PICK m \in DOMAIN definitions : definitions[m].rva = e.rva
    BY <2>1 DEF Rvas
  <2>3. PICK n \in RowsRead(file, k) : definitions[m] \in Parsed(file.lines[n].row)
    BY <1>2
  <2>4. definitions[m] \in DefinitionType
    BY DEF TypeOK
  <2>5. definitions[m].rva <= e.rva /\ e.rva < definitions[m].rva + definitions[m].size
    BY <2>2, <2>4, DefinitionFacts
  <2>6. n \in RowsOf(file) /\ n # k + 1
    BY <1>3, <1>4
  <2> QED BY <1>1, <1>2, <1>4, <2>1, <2>3, <2>5, <2>6, FilesType, RefuseKeeps
<1> QED BY <1>5, <1>6

\* A row that is kept is one more, at an RVA of its own.
LEMMA KeepDefinitionKeeps ==
  ASSUME TypeOK, Rest, KeepDefinition
  PROVE  Rest'
<1>1. /\ phase = "data" /\ phase' = "data" /\ RowNext /\ lines' = Tail(lines)
      /\ UNCHANGED <<input, saw_header, sites>>
  BY DEF KeepDefinition
<1>2. PICK d \in Parsed(Head(lines).row) :
        d.rva \notin Rvas /\ definitions' = Append(definitions, d)
  BY DEF KeepDefinition
<1>3. PICK f \in input.data, k \in Nat :
        /\ ReadTo(f, k)
        /\ \A m \in DOMAIN definitions :
             \E n \in RowsRead(f, k) : definitions[m] \in Parsed(f.lines[n].row)
        /\ \A i, j \in DOMAIN definitions : i # j => definitions[i].rva # definitions[j].rva
  BY <1>1 DEF Rest, ReadingData
<1>4. /\ Head(lines) = f.lines[k + 1] /\ Head(lines).row \in DataRow
      /\ RowsRead(f, k + 1) = RowsRead(f, k) \cup {k + 1}
      /\ lines # <<>> /\ lines \in Seq(LineType)
  BY <1>1, <1>3, FilesType, RowMet
<1>5. ReadTo(f, k + 1)' /\ k + 1 \in Nat
  <2>1. saw_header' = saw_header /\ saw_header /\ Head(lines).kind = "row"
    BY <1>1 DEF RowNext
  <2> QED BY <1>1, <1>3, <1>4, <2>1, FilesType, LineTaken
<1>6. d \in DefinitionType
  BY <1>4, ParsedFacts DEF TypeOK
<1>7. /\ definitions \in Seq(DefinitionType) /\ Len(definitions) \in Nat
      /\ DOMAIN definitions = 1 .. Len(definitions)
      /\ DOMAIN definitions' = 1 .. Len(definitions) + 1
      /\ definitions'[Len(definitions) + 1] = d
      /\ \A m \in 1 .. Len(definitions) : definitions'[m] = definitions[m]
  BY <1>2, <1>6 DEF TypeOK
<1>8. ASSUME NEW m \in DOMAIN definitions'
      PROVE  \E n \in RowsRead(f, k + 1) : definitions'[m] \in Parsed(f.lines[n].row)
  <2>1. CASE m \in DOMAIN definitions
    BY <1>3, <1>4, <1>7, <2>1
  <2>2. CASE m = Len(definitions) + 1
    BY <1>4, <1>7, <2>2
  <2> QED BY <1>7, <2>1, <2>2
<1>9. ASSUME NEW i \in DOMAIN definitions', NEW j \in DOMAIN definitions', i # j
      PROVE  definitions'[i].rva # definitions'[j].rva
  <2>1. \A m \in 1 .. Len(definitions) : definitions[m].rva # d.rva
    BY <1>2, <1>7 DEF Rvas
  <2>2. \A m \in DOMAIN definitions' : m \in 1 .. Len(definitions) \/ m = Len(definitions) + 1
    BY <1>7
  <2> QED BY <1>3, <1>7, <1>9, <2>1, <2>2
<1>10. \A row : Parsed(row)' = Parsed(row)
  BY <1>1, ParsedConstant
<1>11. ReadingData'
  BY <1>1, <1>3, <1>5, <1>8, <1>9, <1>10 DEF ReadingData, RowsRead
<1> QED BY <1>1, <1>11, Elsewhere DEF Rest, NotYet

\* Sorting the definitions tells whether any two overlap: neighbours that do
\* not, in ascending order, put every extent below all that follow.
LEMMA AscendApart ==
  ASSUME NEW s \in Seq(DefinitionType),
         \A i, j \in DOMAIN s : i < j => s[i].rva < s[j].rva,
         ~Overlap(s)
  PROVE  NonOverlapping(ToSet(s))
<1>1. /\ Len(s) \in Nat /\ DOMAIN s = 1 .. Len(s)
      /\ \A n \in DOMAIN s : s[n].rva \in Nat /\ s[n].size \in Nat
  BY ListFacts
<1>2. \A i, j \in DOMAIN s : i < j => s[i].rva + s[i].size <= s[j].rva
  <2> SUFFICES ASSUME NEW i \in DOMAIN s, NEW j \in DOMAIN s, i < j
               PROVE  s[i].rva + s[i].size <= s[j].rva
    OBVIOUS
  <2>1. i \in 1 .. Len(s) - 1 /\ i + 1 \in DOMAIN s
    BY <1>1
  <2>2. s[i].rva + s[i].size <= s[i + 1].rva
    BY <1>1, <2>1 DEF Overlap
  <2>3. s[i + 1].rva <= s[j].rva
    <3>1. i + 1 = j \/ i + 1 < j
      BY <1>1
    <3> QED BY <1>1, <2>1, <3>1
  <2> QED BY <1>1, <2>1, <2>2, <2>3
<1>3. ASSUME NEW i \in DOMAIN s, NEW j \in DOMAIN s, s[i] # s[j]
      PROVE  s[i].rva + s[i].size <= s[j].rva \/ s[j].rva + s[j].size <= s[i].rva
  <2>1. i < j \/ j < i
    BY <1>1, <1>3
  <2> QED BY <1>2, <2>1
<1> QED BY <1>3 DEF NonOverlapping, ToSet

\* The definitions, sorted, ascend.
LEMMA SortedAscends ==
  ASSUME NEW s \in Sorts(definitions, ByRva), TypeOK,
         \A i, j \in DOMAIN definitions : i # j => definitions[i].rva # definitions[j].rva
  PROVE  /\ s \in Seq(DefinitionType) /\ ToSet(s) = ToSet(definitions)
         /\ \A i, j \in DOMAIN s : i < j => s[i].rva < s[j].rva
<1>1. definitions \in Seq(DefinitionType)
  BY DEF TypeOK
<1>2. /\ s \in Seq(DefinitionType) /\ Len(s) = Len(definitions)
      /\ DOMAIN s = DOMAIN definitions /\ ToSet(s) = ToSet(definitions)
      /\ \A i, j \in DOMAIN s : i < j => ~Less(ByRva[s[j]], ByRva[s[i]])
  BY <1>1, SortsFacts
<1>3. \A i, j \in DOMAIN definitions : i # j => definitions[i] # definitions[j]
  OBVIOUS
<1>4. \A i, j \in DOMAIN s : i # j => s[i] # s[j]
  BY <1>1, <1>3, SortsFacts
<1>5. \A n \in DOMAIN s : s[n] \in ToSet(definitions) /\ s[n].rva \in Nat
  <2>1. \A n \in DOMAIN s : s[n] \in ToSet(s)
    BY DEF ToSet
  <2>2. \A n \in DOMAIN s : s[n] \in DefinitionType
    BY <1>2
  <2> QED BY <1>2, <2>1, <2>2, DefinitionFacts
<1>6. \A d, e \in ToSet(definitions) : d # e => d.rva # e.rva
  BY DEF ToSet
<1>7. ASSUME NEW i \in DOMAIN s, NEW j \in DOMAIN s, i < j PROVE s[i].rva < s[j].rva
  <2>1. ByRva[s[i]] = <<s[i].rva>> /\ ByRva[s[j]] = <<s[j].rva>>
    BY <1>5 DEF ByRva
  <2>2. ~(s[j].rva < s[i].rva)
    BY <1>2, <1>5, <1>7, <2>1, LessSingle
  <2>3. i # j
    BY <1>2, <1>7
  <2>4. s[i].rva # s[j].rva
    BY <1>4, <1>5, <1>6, <2>3
  <2> QED BY <1>5, <2>2, <2>4
<1> QED BY <1>2, <1>7

\* The end of the data manifest: definitions apart, or an overlap of two rows.
LEMMA FinishDataKeeps ==
  ASSUME TypeOK, Rest, FinishData
  PROVE  Rest'
<1>1. /\ phase = "data" /\ UNCHANGED <<input, sites>>
      /\ definitions' \in Sorts(definitions, ByRva)
      /\ phase' = IF Overlap(definitions') THEN "data refused" ELSE "open relocs"
  BY DEF FinishData
<1>2. PICK f \in input.data, k \in Nat :
        /\ ReadTo(f, k)
        /\ \A m \in DOMAIN definitions :
             \E n \in RowsRead(f, k) : definitions[m] \in Parsed(f.lines[n].row)
        /\ \A i, j \in DOMAIN definitions : i # j => definitions[i].rva # definitions[j].rva
  BY <1>1 DEF Rest, ReadingData
<1>3. PICK s : s = definitions'
  OBVIOUS
<1>4. /\ s \in Seq(DefinitionType) /\ ToSet(s) = ToSet(definitions)
      /\ \A i, j \in DOMAIN s : i < j => s[i].rva < s[j].rva
  BY <1>1, <1>2, <1>3, SortedAscends
<1>5. sites' = <<>>
  BY <1>1 DEF Rest, NotYet
<1>6. CASE ~Overlap(s)
  <2>1. phase' = "open relocs"
    BY <1>1, <1>3, <1>6
  <2>2. NonOverlapping(ToSet(s))
    BY <1>4, <1>6, AscendApart
  <2>3. DefinitionsApart'
    BY <1>3, <1>4, <2>2 DEF DefinitionsApart
  <2> QED BY <1>5, <2>1, <2>3, Elsewhere DEF Rest, NotYet
<1>7. CASE Overlap(s)
  <2>1. phase' = "data refused"
    BY <1>1, <1>3, <1>7
  <2>2. /\ Len(s) \in Nat /\ DOMAIN s = 1 .. Len(s)
        /\ \A n \in DOMAIN s : s[n].rva \in Nat /\ s[n].size \in Nat
    BY <1>4, ListFacts
  <2>3. PICK i \in 1 .. Len(s) - 1 : s[i].rva + s[i].size > s[i + 1].rva
    BY <1>7 DEF Overlap
  <2>4. i \in DOMAIN s /\ i + 1 \in DOMAIN s /\ s[i].rva < s[i + 1].rva
    BY <1>4, <2>2, <2>3
  <2>5. \A d \in ToSet(s) : \E n \in RowsRead(f, k) : d \in Parsed(f.lines[n].row)
    <3>1. \A d \in ToSet(definitions) : \E n \in RowsRead(f, k) : d \in Parsed(f.lines[n].row)
      BY <1>2 DEF ToSet
    <3> QED BY <1>4, <3>1
  <2>6. s[i] \in ToSet(s) /\ s[i + 1] \in ToSet(s)
    BY <2>4 DEF ToSet
  <2>7. PICK m \in RowsRead(f, k) : s[i] \in Parsed(f.lines[m].row)
    BY <2>5, <2>6
  <2>8. PICK n \in RowsRead(f, k) : s[i + 1] \in Parsed(f.lines[n].row)
    BY <2>5, <2>6
  <2>9. RowsRead(f, k) \subseteq RowsOf(f)
    BY <1>2, FilesType DEF ReadTo, IsFile, RowsRead, RowsOf
  <2>10. m # n
    <3>1. f.lines[m].row \in DataRow /\ f.lines[n].row \in DataRow
      BY <2>7, <2>8, <2>9, FilesType, LinesType DEF RowsOf
    <3>2. f.lines[m].row.rva = {s[i].rva} /\ f.lines[n].row.rva = {s[i + 1].rva}
      BY <2>7, <2>8, <3>1, ParsedFacts DEF TypeOK
    <3>3. s[i].rva # s[i + 1].rva
      BY <2>2, <2>4
    <3> QED BY <3>2, <3>3
  <2>11. s[i].rva <= s[i + 1].rva /\ s[i + 1].rva < s[i].rva + s[i].size
    BY <2>2, <2>3, <2>4
  <2>12. \A row : Parsed(row)' = Parsed(row)
    BY <1>1, ParsedConstant
  <2>13. \E a, b \in RowsOf(f) :
           a # b /\ \E d \in Parsed(f.lines[a].row), e \in Parsed(f.lines[b].row) :
                      d.rva <= e.rva /\ e.rva < d.rva + d.size
    BY <2>7, <2>8, <2>9, <2>10, <2>11
  <2>14. RefusedForCause'
    BY <1>1, <1>2, <2>12, <2>13, FilesType DEF RefusedForCause, RowsOf
  <2> QED BY <2>1, <2>14, Elsewhere DEF Rest
<1> QED BY <1>6, <1>7

\* A site that is kept is one more, listed once.
LEMMA KeepSiteKeeps ==
  ASSUME TypeOK, Rest, KeepSite
  PROVE  Rest'
<1>1. /\ phase = "relocs" /\ phase' = "relocs" /\ RowNext /\ lines' = Tail(lines)
      /\ UNCHANGED <<input, saw_header, definitions>>
  BY DEF KeepSite
<1>2. PICK site \in Head(lines).row.site_rva :
        site \notin Seen /\ sites' = Append(sites, site)
  BY DEF KeepSite
<1>3. PICK f \in input.reloc, k \in Nat :
        /\ ReadTo(f, k)
        /\ Seen = UNION {f.lines[n].row.site_rva : n \in RowsRead(f, k)}
        /\ \A i, j \in DOMAIN sites : i # j => sites[i] # sites[j]
  BY <1>1 DEF Rest, ReadingRelocs
<1>4. /\ Head(lines) = f.lines[k + 1] /\ Head(lines).row \in RelocRow
      /\ RowsRead(f, k + 1) = RowsRead(f, k) \cup {k + 1}
      /\ lines # <<>> /\ lines \in Seq(LineType)
  BY <1>1, <1>3, FilesType, RowMet
<1>5. ReadTo(f, k + 1)' /\ k + 1 \in Nat
  <2>1. saw_header' = saw_header /\ saw_header /\ Head(lines).kind = "row"
    BY <1>1 DEF RowNext
  <2> QED BY <1>1, <1>3, <1>4, <2>1, FilesType, LineTaken
<1>6. Head(lines).row.site_rva = {site} /\ site \in Usize
  BY <1>2, <1>4 DEF RelocRow, Numbers
<1>7. /\ sites \in Seq(Usize) /\ Len(sites) \in Nat
      /\ DOMAIN sites = 1 .. Len(sites)
      /\ DOMAIN sites' = 1 .. Len(sites) + 1
      /\ sites'[Len(sites) + 1] = site
      /\ \A m \in 1 .. Len(sites) : sites'[m] = sites[m]
  BY <1>2, <1>6 DEF TypeOK
<1>8. Seen' = Seen \cup {site}
  <2>1. \A m \in DOMAIN sites' : m \in 1 .. Len(sites) \/ m = Len(sites) + 1
    BY <1>7
  <2>2. Len(sites) + 1 \in DOMAIN sites' /\ DOMAIN sites \subseteq DOMAIN sites'
    BY <1>7
  <2> QED BY <1>7, <2>1, <2>2 DEF Seen, ToSet
<1>9. Seen' = UNION {f.lines[n].row.site_rva : n \in RowsRead(f, k + 1)}
  BY <1>3, <1>4, <1>6, <1>8
<1>10. ASSUME NEW i \in DOMAIN sites', NEW j \in DOMAIN sites', i # j
       PROVE  sites'[i] # sites'[j]
  <2>1. \A m \in 1 .. Len(sites) : sites[m] # site
    BY <1>2, <1>7 DEF Seen, ToSet
  <2>2. \A m \in DOMAIN sites' : m \in 1 .. Len(sites) \/ m = Len(sites) + 1
    BY <1>7
  <2> QED BY <1>3, <1>7, <1>10, <2>1, <2>2
<1>11. ReadingRelocs'
  BY <1>1, <1>3, <1>5, <1>9, <1>10 DEF ReadingRelocs, RowsRead
<1>12. DefinitionsApart'
  BY <1>1, ApartStays DEF Rest
<1> QED BY <1>1, <1>11, <1>12, Elsewhere DEF Rest, NotYet

\* A refusal of the reloc manifest says nothing of the data manifest.
LEMMA RefuseSiteKeeps ==
  ASSUME TypeOK, Rest, RefuseSite
  PROVE  Rest'
BY RefuseKeeps DEF RefuseSite

\* The end of the reloc manifest: its sites, sorted, each once.
LEMMA FinishRelocsKeeps ==
  ASSUME TypeOK, Rest, FinishRelocs
  PROVE  Rest'
<1>1. /\ phase = "relocs" /\ lines = <<>> /\ saw_header /\ phase' = "loaded"
      /\ UNCHANGED <<input, definitions>>
      /\ sites' \in Sorts(sites, [site \in Seen |-> <<site>>])
  BY DEF FinishRelocs
<1>2. PICK f \in input.reloc, k \in Nat :
        /\ ReadTo(f, k)
        /\ Seen = UNION {f.lines[n].row.site_rva : n \in RowsRead(f, k)}
        /\ \A i, j \in DOMAIN sites : i # j => sites[i] # sites[j]
  BY <1>1 DEF Rest, ReadingRelocs
<1>3. PICK s : s = sites'
  OBVIOUS
<1>4. PICK key : key = [site \in Seen |-> <<site>>]
  OBVIOUS
<1>5. sites \in Seq(Usize) /\ s \in Sorts(sites, key)
  BY <1>1, <1>3, <1>4 DEF TypeOK
<1>6. /\ s \in Seq(Usize) /\ ToSet(s) = ToSet(sites)
      /\ \A i, j \in DOMAIN s : i # j => s[i] # s[j]
      /\ \A i, j \in DOMAIN s : i < j => ~Less(key[s[j]], key[s[i]])
  BY <1>2, <1>5, SortsFacts
<1>7. \A n \in DOMAIN s : n \in Nat /\ s[n] \in Nat /\ s[n] \in Seen
  <2>1. \A n \in DOMAIN s : n \in Nat /\ s[n] \in Usize
    BY <1>6
  <2>2. \A n \in DOMAIN s : s[n] \in ToSet(s)
    BY DEF ToSet
  <2> QED BY <1>6, <2>1, <2>2, InputsAssumption DEF Seen, Usize
<1>8. ASSUME NEW i \in DOMAIN s, NEW j \in DOMAIN s, i < j PROVE s[i] < s[j]
  <2>1. key[s[i]] = <<s[i]>> /\ key[s[j]] = <<s[j]>>
    BY <1>4, <1>7
  <2>2. ~(s[j] < s[i])
    BY <1>6, <1>7, <1>8, <2>1, LessSingle
  <2>3. s[i] # s[j]
    BY <1>6, <1>7, <1>8
  <2> QED BY <1>7, <2>2, <2>3
<1>9. Seen' = UNION {f.lines[n].row.site_rva : n \in RowsOf(f)}
  <2>1. Len(f.lines) \in Nat /\ DOMAIN f.lines = 1 .. Len(f.lines)
    BY <1>2, FilesType DEF IsFile
  <2>2. k = Len(f.lines)
    BY <1>1, <1>2, <2>1 DEF ReadTo
  <2>3. RowsRead(f, k) = RowsOf(f)
    BY <2>1, <2>2 DEF RowsRead, RowsOf
  <2>4. Seen' = Seen
    BY <1>3, <1>6 DEF Seen
  <2> QED BY <1>2, <2>3, <2>4
<1>10. SitesAreTheRows'
  BY <1>1, <1>2, <1>3, <1>8, <1>9, FilesType DEF SitesAreTheRows, RowsOf
<1>11. DefinitionsApart'
  BY <1>1, ApartStays DEF Rest
<1> QED BY <1>1, <1>10, <1>11, Elsewhere DEF Rest

\* Nothing happens.
LEMMA IdleKeeps ==
  ASSUME Rest, UNCHANGED vars
  PROVE  Rest'
<1>1. UNCHANGED <<input, phase, lines, saw_header, definitions, sites>>
  BY DEF vars
<1>2. NotYet' /\ DefinitionsApart'
  BY <1>1 DEF Rest, NotYet, DefinitionsApart
<1>3. \A row : Parsed(row)' = Parsed(row)
  BY <1>1, ParsedConstant
<1>4. ReadingData'
  <2>1. \A f, k : ReadTo(f, k)' <=> ReadTo(f, k)
    BY <1>1 DEF ReadTo
  <2>2. phase' = phase /\ definitions' = definitions /\ input' = input
    BY <1>1
  <2> QED BY <1>3, <2>1, <2>2 DEF Rest, ReadingData, RowsRead
<1>5. ReadingRelocs'
  <2>1. \A f, k : ReadTo(f, k)' <=> ReadTo(f, k)
    BY <1>1 DEF ReadTo
  <2>2. phase' = phase /\ sites' = sites /\ Seen' = Seen /\ input' = input
    BY <1>1 DEF Seen
  <2> QED BY <2>1, <2>2 DEF Rest, ReadingRelocs, RowsRead
<1>6. RefusedForCause'
  BY <1>1, <1>3 DEF Rest, RefusedForCause, Shaped, RowsOf
<1>7. SitesAreTheRows'
  BY <1>1 DEF Rest, SitesAreTheRows, RowsOf, Seen
<1> QED BY <1>2, <1>4, <1>5, <1>6, <1>7 DEF Rest

\* A row that is kept names a symbol, and a sort adds none.
LEMMA IdentifiedKept ==
  ASSUME TypeOK, Identified, [Next]_vars
  PROVE  Identified'
<1>1. definitions \in Seq(DefinitionType) /\ input' = input
  BY DEF TypeOK, Next, vars, OpenData, OpenRelocs, Open, SkipLine, ReadHeader, RefuseLine,
         RefuseHeaderless, Refuse, KeepDefinition, RefuseDefinition, FinishData, KeepSite,
         RefuseSite, FinishRelocs, Stop
<1>2. CASE KeepDefinition
  <2>1. PICK d \in Parsed(Head(lines).row) : definitions' = Append(definitions, d)
    BY <1>2 DEF KeepDefinition
  <2>2. d.rva \in input.statics \cup input.constants \cup input.strings
    BY DEF Parsed, Identity, OrElse
  <2>3. \A e \in ToSet(definitions') : e = d \/ e \in ToSet(definitions)
    BY <1>1, <2>1, ListFacts DEF ToSet
  <2> QED BY <1>1, <2>2, <2>3 DEF Identified
<1>3. CASE FinishData
  <2>1. definitions' \in Sorts(definitions, ByRva)
    BY <1>3 DEF FinishData
  <2>2. ToSet(definitions') = ToSet(definitions)
    BY <1>1, <2>1, SortsFacts
  <2> QED BY <1>1, <2>2 DEF Identified
<1>4. CASE ~KeepDefinition /\ ~FinishData
  <2>1. definitions' = definitions
    BY <1>4 DEF Next, vars, OpenData, OpenRelocs, Open, SkipLine, ReadHeader, RefuseLine,
         RefuseHeaderless, Refuse, RefuseDefinition, KeepSite, RefuseSite, FinishRelocs, Stop
  <2> QED BY <1>1, <2>1 DEF Identified
<1> QED BY <1>2, <1>3, <1>4

\* Every step keeps what is established.
LEMMA NextKeeps ==
  ASSUME IInv, [Next]_vars
  PROVE  IInv'
<1>1. TypeOK /\ Rest
  BY DEF IInv, Rest
<1>2. TypeOK'
  BY <1>1, NextType DEF Rest
<1>3. Rest'
  <2>1. CASE OpenData
    BY <1>1, <2>1, OpenDataKeeps
  <2>2. CASE OpenRelocs
    BY <1>1, <2>2, OpenRelocsKeeps
  <2>3. CASE SkipLine \/ ReadHeader
    BY <1>1, <2>3, LineKeeps
  <2>4. CASE RefuseLine \/ RefuseHeaderless
    BY <1>1, <2>4, RefuseLineKeeps
  <2>5. CASE KeepDefinition
    BY <1>1, <2>5, KeepDefinitionKeeps
  <2>6. CASE RefuseDefinition
    BY <1>1, <2>6, RefuseDefinitionKeeps
  <2>7. CASE FinishData
    BY <1>1, <2>7, FinishDataKeeps
  <2>8. CASE KeepSite
    BY <1>1, <2>8, KeepSiteKeeps
  <2>9. CASE RefuseSite
    BY <1>1, <2>9, RefuseSiteKeeps
  <2>10. CASE FinishRelocs
    BY <1>1, <2>10, FinishRelocsKeeps
  <2>11. CASE Stop \/ UNCHANGED vars
    BY <1>1, <2>11, IdleKeeps DEF Stop
  <2> QED
    BY <2>1, <2>2, <2>3, <2>4, <2>5, <2>6, <2>7, <2>8, <2>9, <2>10, <2>11 DEF Next
<1>4. Identified'
  BY IdentifiedKept DEF IInv
<1> QED BY <1>2, <1>3, <1>4 DEF IInv, Rest
-----------------------------------------------------------------------------
(* The properties.                                                         *)

\* Nothing read, of files and tables of any kind.
Begins ==
  /\ IsInput(input) /\ phase = "open data"
  /\ lines = <<>> /\ saw_header = FALSE
  /\ definitions = <<>> /\ sites = <<>>

\* Before the first line nothing is said.
LEMMA BeginsHolds ==
  ASSUME Begins
  PROVE  IInv
<1>1. TypeOK
  <2>1. phase \in Phases /\ saw_header \in BOOLEAN
    BY DEF Begins, Phases
  <2>2. \A S : <<>> \in Seq(S)
    OBVIOUS
  <2> QED BY <2>1, <2>2 DEF TypeOK, Begins
<1>2. NotYet /\ ReadingData /\ ReadingRelocs /\ DefinitionsApart /\ RefusedForCause
      /\ SitesAreTheRows
  BY DEF Begins, NotYet, ReadingData, ReadingRelocs, DefinitionsApart, RefusedForCause,
         SitesAreTheRows
<1>3. Identified
  BY NoElements DEF Begins, Identified
<1> QED BY <1>1, <1>2, <1>3 DEF IInv

\* In every state of a loading: the types, what has been read so far, the
\* definitions apart, every refusal for cause and the sites those of the rows.
THEOREM LoadingInductive == Spec => []IInv
<1>1. Init => IInv
  BY InputsAssumption, BeginsHolds DEF Init, Begins
<1>2. IInv /\ [Next]_vars => IInv'
  BY NextKeeps
<1> QED BY <1>1, <1>2, PTL DEF Spec

\* The state of a loading has its types, whatever the files hold.
THEOREM LoadingTypeCorrect == Spec => []TypeOK
<1>1. IInv => TypeOK
  BY DEF IInv
<1> QED BY <1>1, LoadingInductive, PTL

\* The definitions of a manifest that was not refused ascend and no two
\* overlap, though only neighbours were compared (`DataManifest::parse`).
THEOREM DefinitionsApartHolds == Spec => []DefinitionsApart
<1>1. IInv => DefinitionsApart
  BY DEF IInv
<1> QED BY <1>1, LoadingInductive, PTL

\* A data manifest is refused only for a line that is wrong, a row that is,
\* or two rows that overlap.
THEOREM RefusedForCauseHolds == Spec => []RefusedForCause
<1>1. IInv => RefusedForCause
  BY DEF IInv
<1> QED BY <1>1, LoadingInductive, PTL

\* The sites of a reloc manifest that was not refused are those of its rows,
\* ascending, each once (`RelocManifest::parse`).
THEOREM SitesAreTheRowsHolds == Spec => []SitesAreTheRows
<1>1. IInv => SitesAreTheRows
  BY DEF IInv
<1> QED BY <1>1, LoadingInductive, PTL

\* In an ascending list, those at or below an address are the first so many.
LEMMA PartitionIsPrefix ==
  ASSUME definitions \in Seq(DefinitionType), NEW rva \in Nat,
         \A i, j \in DOMAIN definitions : i < j => definitions[i].rva < definitions[j].rva
  PROVE  /\ PartitionPoint(rva) \in 0 .. Len(definitions)
         /\ \A n \in DOMAIN definitions : definitions[n].rva <= rva <=> n <= PartitionPoint(rva)
<1> DEFINE B == {n \in DOMAIN definitions : definitions[n].rva <= rva}
<1>1. /\ Len(definitions) \in Nat /\ DOMAIN definitions = 1 .. Len(definitions)
      /\ \A n \in DOMAIN definitions : definitions[n].rva \in Nat
  BY ListFacts
<1>2. \E k \in 0 .. Len(definitions) : B = 1 .. k
  <2>1. CASE B = {}
    <3>1. B = 1 .. 0 /\ 0 \in 0 .. Len(definitions)
      BY <1>1, <2>1
    <3> QED BY <3>1
  <2>2. CASE B # {}
    <3>1. B \in SUBSET Nat /\ \A n \in B : n <= Len(definitions)
      BY <1>1
    <3>2. PICK k \in B : \A n \in B : n <= k
      BY <1>1, <2>2, <3>1, GreatestExists
    <3>3. k \in 1 .. Len(definitions) /\ definitions[k].rva <= rva
      BY <1>1, <3>2
    <3>4. \A n \in 1 .. k : n \in B
      <4> TAKE n \in 1 .. k
      <4>1. n \in DOMAIN definitions /\ (n = k \/ n < k)
        BY <1>1, <3>3
      <4>2. definitions[n].rva <= definitions[k].rva
        BY <1>1, <3>3, <4>1
      <4> QED BY <1>1, <3>3, <4>1, <4>2
    <3>5. \A n \in B : n \in 1 .. k
      BY <1>1, <3>2, <3>3
    <3>6. B = 1 .. k
      BY <3>4, <3>5
    <3> QED BY <3>3, <3>6
  <2> QED BY <2>1, <2>2
<1>3. PICK k \in 0 .. Len(definitions) : B = 1 .. k
  BY <1>2
<1>4. Cardinality(1 .. k) = k
  <2>1. k \in Nat
    BY <1>1
  <2>2. CASE k = 0
    BY <2>2, FS_EmptySet
  <2>3. CASE k > 0
    BY <2>1, <2>3, FS_Interval
  <2> QED BY <2>1, <2>2, <2>3
<1>5. PartitionPoint(rva) = k
  BY <1>3, <1>4 DEF PartitionPoint
<1>6. \A n \in DOMAIN definitions : n \in B <=> n <= k
  BY <1>1, <1>3
<1> QED BY <1>3, <1>5, <1>6

\* The binary search finds the definition that covers an address, and only
\* that one (`owner_and_addend_for_rva`): of those at or below it the last is
\* the only one that can reach it, the others ending before the last begins.
THEOREM OwnerCoversHolds == Spec => []OwnerCovers
<1>1. ASSUME TypeOK, DefinitionsApart PROVE OwnerCovers
  <2> SUFFICES ASSUME phase = "loaded", NEW rva \in Usize
               PROVE  OwnerOf(rva) =
                        {d \in ToSet(definitions) : d.rva <= rva /\ rva < d.rva + d.size}
    BY DEF OwnerCovers
  <2> DEFINE index == PartitionPoint(rva)
             covering == {d \in ToSet(definitions) : d.rva <= rva /\ rva < d.rva + d.size}
  <2>1. rva \in Nat /\ definitions \in Seq(DefinitionType)
    BY <1>1, InputsAssumption DEF Usize, TypeOK
  <2>2. /\ Len(definitions) \in Nat /\ DOMAIN definitions = 1 .. Len(definitions)
        /\ \A n \in DOMAIN definitions :
             definitions[n].rva \in Nat /\ definitions[n].size \in Nat /\ definitions[n].size > 0
    BY <2>1, ListFacts
  <2>3. /\ \A i, j \in DOMAIN definitions : i < j => definitions[i].rva < definitions[j].rva
        /\ NonOverlapping(ToSet(definitions))
    BY <1>1 DEF DefinitionsApart
  <2>4. /\ index \in 0 .. Len(definitions)
        /\ \A n \in DOMAIN definitions : definitions[n].rva <= rva <=> n <= index
    BY <2>1, <2>3, PartitionIsPrefix
  <2> HIDE DEF index
  <2>5. ASSUME NEW i \in DOMAIN definitions, NEW j \in DOMAIN definitions, i < j
        PROVE  definitions[i].rva + definitions[i].size <= definitions[j].rva
    <3>1. definitions[i] \in ToSet(definitions) /\ definitions[j] \in ToSet(definitions)
      BY DEF ToSet
    <3>2. definitions[i].rva < definitions[j].rva
      BY <2>3, <2>5
    <3>3. definitions[i] # definitions[j]
      BY <2>2, <3>2
    <3>4. \/ definitions[i].rva + definitions[i].size <= definitions[j].rva
          \/ definitions[j].rva + definitions[j].size <= definitions[i].rva
      BY <2>3, <3>1, <3>3 DEF NonOverlapping
    <3> QED BY <2>2, <3>2, <3>4
  <2>6. \A n \in DOMAIN definitions :
          definitions[n].rva <= rva /\ rva < definitions[n].rva + definitions[n].size
            => n = index
    <3> SUFFICES ASSUME NEW n \in DOMAIN definitions, definitions[n].rva <= rva,
                        rva < definitions[n].rva + definitions[n].size, n # index
                 PROVE  FALSE
      OBVIOUS
    <3>1. n < index /\ index \in DOMAIN definitions
      BY <2>2, <2>4
    <3>2. definitions[n].rva + definitions[n].size <= definitions[index].rva
      BY <2>5, <3>1
    <3>3. definitions[index].rva <= rva
      BY <2>4, <3>1
    <3> QED BY <2>1, <2>2, <3>1, <3>2, <3>3
  <2>7. \A d : d \in covering <=>
          \E n \in DOMAIN definitions :
            d = definitions[n] /\ definitions[n].rva <= rva
              /\ rva < definitions[n].rva + definitions[n].size
    BY DEF ToSet
  <2>8. \A n \in {index} \cap DOMAIN definitions :
          definitions[n].rva <= rva
            /\ (rva - definitions[n].rva < definitions[n].size
                 <=> rva < definitions[n].rva + definitions[n].size)
    BY <2>1, <2>2, <2>4
  <2>9. \A d : d \in OwnerOf(rva) <=>
          \E n \in {index} \cap DOMAIN definitions :
            d = definitions[n] /\ rva - definitions[n].rva < definitions[n].size
    BY DEF OwnerOf, index
  <2>10. \A d : d \in OwnerOf(rva) <=> d \in covering
    <3> TAKE d
    <3>1. ASSUME d \in OwnerOf(rva) PROVE d \in covering
      BY <2>7, <2>8, <2>9, <3>1
    <3>2. ASSUME d \in covering PROVE d \in OwnerOf(rva)
      BY <2>6, <2>7, <2>8, <2>9, <3>2
    <3> QED BY <3>1, <3>2
  <2>11. OwnerOf(rva) \subseteq covering /\ covering \subseteq OwnerOf(rva)
    BY <2>10
  <2> QED BY <2>11
<1>2. IInv => TypeOK /\ DefinitionsApart
  BY DEF IInv
<1>3. IInv => OwnerCovers
  BY <1>1, <1>2
<1> QED BY <1>3, LoadingInductive, PTL
-----------------------------------------------------------------------------
(* Candidate layouts.                                                      *)

\* The greatest number of a set that has one.
LEMMA MaxIs ==
  ASSUME NEW S \in SUBSET Nat, NEW m \in S, \A x \in S : x <= m
  PROVE  Max(S) = m
<1>1. \A x \in S : m >= x /\ x \in Nat /\ m \in Nat
  OBVIOUS
<1>2. Max(S) \in S /\ \A x \in S : Max(S) >= x
  BY <1>1 DEF Max
<1>3. Max(S) >= m /\ m >= Max(S) /\ Max(S) \in Nat
  BY <1>1, <1>2
<1> QED BY <1>1, <1>3

\* A bounded set of numbers has a greatest one.
LEMMA MaxFacts ==
  ASSUME NEW S \in SUBSET Nat, S # {}, NEW b \in Nat, \A x \in S : x <= b
  PROVE  Max(S) \in S /\ Max(S) \in Nat /\ \A x \in S : x <= Max(S)
<1>1. PICK m \in S : \A x \in S : x <= m
  BY GreatestExists
<1>2. Max(S) = m
  BY <1>1, MaxIs
<1> QED BY <1>1, <1>2

\* The numbers of a definition.
LEMMA OffsetFacts ==
  ASSUME NEW d \in DefinitionType
  PROVE  /\ OffsetOrRva(d) \in Nat
         /\ d.section_offset = {} => OffsetOrRva(d) = d.rva
         /\ d.section_offset # {} => At(d) \in Usize /\ OffsetOrRva(d) = At(d)
         /\ d.size \in Usize /\ d.size > 0 /\ d.alignment \in Nat \ {0} /\ d.rva \in Nat
<1>1. /\ d.section_offset \in Numbers /\ d.rva \in Nat
      /\ d.size \in Usize /\ d.size > 0 /\ d.alignment \in Nat \ {0}
  BY InputsAssumption DEF DefinitionType, Usize
<1>2. CASE d.section_offset = {}
  <2>1. OffsetOrRva(d) = d.rva
    BY <1>2 DEF OffsetOrRva, OrElse
  <2> QED BY <1>1, <1>2, <2>1
<1>3. CASE d.section_offset # {}
  <2>1. PICK k \in Usize : d.section_offset = {k}
    BY <1>1, <1>3 DEF Numbers
  <2>2. At(d) = k /\ OffsetOrRva(d) = k
    BY <1>3, <2>1 DEF At, OffsetOrRva, OrElse
  <2>3. k \in Nat
    BY <2>1, InputsAssumption DEF Usize
  <2> QED BY <1>1, <1>3, <2>1, <2>2, <2>3
<1> QED BY <1>2, <1>3

\* An order of emission lists the definitions, each once, and ascends in every
\* section.
LEMMA EmissionFacts ==
  ASSUME TypeOK, DefinitionsApart, phase = "loaded", NEW order \in EmissionOrders
  PROVE  /\ order \in Seq(DefinitionType) /\ ToSet(order) = ToSet(definitions)
         /\ \A i, j \in DOMAIN order : i # j => order[i] # order[j]
         /\ \A i, j \in DOMAIN order :
              i < j /\ order[i].object = order[j].object /\ order[i].storage = order[j].storage
                => OffsetOrRva(order[i]) <= OffsetOrRva(order[j])
<1>1. definitions \in Seq(DefinitionType)
  BY DEF TypeOK
<1>2. \A i, j \in DOMAIN definitions : i # j => definitions[i] # definitions[j]
  <2>1. /\ DOMAIN definitions = 1 .. Len(definitions) /\ Len(definitions) \in Nat
        /\ \A n \in DOMAIN definitions : definitions[n].rva \in Nat
    BY <1>1, ListFacts
  <2>2. \A i, j \in DOMAIN definitions : i < j => definitions[i].rva < definitions[j].rva
    BY DEF DefinitionsApart
  <2>3. \A i, j \in DOMAIN definitions : i < j => definitions[i] # definitions[j]
    BY <2>1, <2>2
  <2>4. \A i, j \in DOMAIN definitions : i # j => i < j \/ j < i
    BY <2>1
  <2> QED BY <2>3, <2>4
<1>3. PICK key : key = [d \in ToSet(definitions) |-> Key(d)]
  OBVIOUS
<1>4. order \in Sorts(definitions, key)
  BY <1>3 DEF EmissionOrders
<1>5. /\ order \in Seq(DefinitionType) /\ ToSet(order) = ToSet(definitions)
      /\ \A i, j \in DOMAIN order : i # j => order[i] # order[j]
      /\ \A i, j \in DOMAIN order : i < j => ~Less(key[order[j]], key[order[i]])
  BY <1>1, <1>2, <1>4, SortsFacts
<1>6. ASSUME NEW i \in DOMAIN order, NEW j \in DOMAIN order, i < j,
             order[i].object = order[j].object, order[i].storage = order[j].storage
      PROVE  OffsetOrRva(order[i]) <= OffsetOrRva(order[j])
  <2>1. /\ order[i] \in ToSet(definitions) /\ order[j] \in ToSet(definitions)
        /\ order[i] \in DefinitionType /\ order[j] \in DefinitionType
    <3>1. order[i] \in ToSet(order) /\ order[j] \in ToSet(order)
      BY DEF ToSet
    <3> QED BY <1>5, <3>1
  <2>2. PICK a, b : a = Key(order[i]) /\ b = Key(order[j])
    OBVIOUS
  <2>3. ~Less(b, a)
    BY <1>3, <1>5, <1>6, <2>1, <2>2
  <2>4. /\ a[1] = b[1] /\ a[2] = b[2] /\ DOMAIN b = 1 .. 4
        /\ a[3] = OffsetOrRva(order[i]) /\ b[3] = OffsetOrRva(order[j])
    BY <1>6, <2>2 DEF Key
  <2>5. ~(b[3] < a[3])
    <3>1. 3 \in 1 .. 4 /\ 1 .. 3 - 1 = {1, 2}
      OBVIOUS
    <3>2. \A m \in 1 .. 3 - 1 : b[m] = a[m]
      BY <2>4, <3>1
    <3> QED BY <2>3, <2>4, <3>1, <3>2 DEF Less
  <2>6. OffsetOrRva(order[i]) \in Nat /\ OffsetOrRva(order[j]) \in Nat
    BY <2>1, OffsetFacts
  <2> QED BY <2>4, <2>5, <2>6
<1> QED BY <1>5, <1>6

\* There is such an order: keys of definitions at different RVAs differ.
LEMMA EmissionExists ==
  ASSUME TypeOK, DefinitionsApart, phase = "loaded"
  PROVE  EmissionOrders # {}
<1> DEFINE key == [d \in ToSet(definitions) |-> Key(d)]
           D == DOMAIN definitions
           k(i) == key[definitions[i]]
<1>1. definitions \in Seq(DefinitionType)
  BY DEF TypeOK
<1>2. \A i \in D : definitions[i] \in DefinitionType /\ definitions[i] \in ToSet(definitions)
  BY <1>1 DEF ToSet
<1>3. \A i \in D : /\ k(i)[1] \in Nat /\ k(i)[2] \in Nat /\ k(i)[3] \in Nat
                  /\ k(i)[4] \in Nat /\ k(i)[4] = definitions[i].rva
                  /\ DOMAIN k(i) = 1 .. 4
  <2> TAKE i \in D
  <2>1. k(i) = Key(definitions[i])
    BY <1>2
  <2>2. definitions[i].object.name \in Nat /\ Rank[definitions[i].storage] \in Nat
    BY <1>2 DEF DefinitionType, Rank
  <2>3. OffsetOrRva(definitions[i]) \in Nat /\ definitions[i].rva \in Nat
    BY <1>2, OffsetFacts
  <2> QED BY <2>1, <2>2, <2>3 DEF Key
<1>4. \A i, j \in D : i # j => k(i)[4] # k(j)[4]
  <2>1. \A i, j \in D : i < j => definitions[i].rva < definitions[j].rva
    BY DEF DefinitionsApart
  <2>2. \A i, j \in D : i # j => i < j \/ j < i
    BY <1>1, ListFacts
  <2>3. \A i \in D : definitions[i].rva \in Nat
    BY <1>1, ListFacts
  <2>4. \A i, j \in D : i # j => definitions[i].rva # definitions[j].rva
    BY <2>1, <2>2, <2>3
  <2> QED BY <1>3, <2>4
<1> HIDE DEF key
<1>5. \A i, j \in D :
        Less(k(i), k(j)) <=>
          \/ k(i)[1] < k(j)[1]
          \/ k(i)[1] = k(j)[1] /\ k(i)[2] < k(j)[2]
          \/ k(i)[1] = k(j)[1] /\ k(i)[2] = k(j)[2] /\ k(i)[3] < k(j)[3]
          \/ k(i)[1] = k(j)[1] /\ k(i)[2] = k(j)[2] /\ k(i)[3] = k(j)[3] /\ k(i)[4] < k(j)[4]
  BY <1>3, LessOfFour
<1> HIDE DEF k
<1>6. \A i \in D : ~Less(k(i), k(i))
  BY <1>3, <1>5
<1>7. \A i, j \in D : i # j => Less(k(i), k(j)) \/ Less(k(j), k(i))
  BY <1>3, <1>4, <1>5
<1>8. \A i, j, m \in D : Less(k(i), k(j)) /\ Less(k(j), k(m)) => Less(k(i), k(m))
  BY <1>3, <1>5
<1>9. Sorts(definitions, key) # {}
  BY <1>1, <1>6, <1>7, <1>8, SortExists DEF k
<1> QED BY <1>9 DEF EmissionOrders, key

\* Two candidates of a realisable group do not share an offset: the later one
\* begins after the other.
LEMMA CandidatesApart ==
  ASSUME NEW group \in SUBSET {d \in DefinitionType : d.section_offset # {}},
         NEW pad_rdata, Realisable(group, pad_rdata), NEW e \in group, NEW f \in group, e # f, At(f) <= At(e)
  PROVE  At(f) + f.size <= At(e)
<1> DEFINE below == {g \in group \ {e} : At(g) <= At(e)}
           ends == {Padding(e.storage, pad_rdata)} \cup {At(g) + g.size : g \in below}
<1>1. \A g \in group :
        At(g) \in Nat /\ At(g) <= UsizeMax /\ g.size \in Nat /\ g.size <= UsizeMax
          /\ g.alignment \in Nat \ {0}
  <2> TAKE g \in group
  <2>1. At(g) \in Usize /\ g.size \in Usize /\ g.alignment \in Nat \ {0}
    BY OffsetFacts
  <2> QED BY <2>1, InputsAssumption DEF Usize
<1>2. UsizeMax \in Nat
  BY InputsAssumption
<1>3. At(e) = AlignUp(Max(ends), e.alignment)
  BY DEF Realisable
<1> HIDE DEF below
<1>4. below \subseteq group /\ f \in below
  BY DEF below
<1>5. \A x \in ends : x \in Nat /\ x <= UsizeMax + UsizeMax + 4
  BY <1>1, <1>2, <1>4 DEF Padding
<1>6. At(f) + f.size \in ends
  BY <1>4
<1> HIDE DEF ends
<1>7. Max(ends) \in Nat /\ At(f) + f.size <= Max(ends)
  <2>1. ends \in SUBSET Nat /\ ends # {} /\ UsizeMax + UsizeMax + 4 \in Nat
    BY <1>2, <1>5, <1>6
  <2> QED BY <1>5, <1>6, <2>1, MaxFacts
<1>8. Max(ends) <= At(e)
  BY <1>1, <1>3, <1>7, AlignUpFacts
<1> QED BY <1>1, <1>7, <1>8

\* What comes before a candidate in its section, in an order of emission, are
\* the candidates below it, and no others.
LEMMA CandidatesBefore ==
  ASSUME TypeOK, DefinitionsApart, phase = "loaded",
         NEW order \in EmissionOrders, NEW n \in DOMAIN order,
         NEW d, d = order[n], NEW group, group = Candidates(d), d \in group,
         NEW pad_rdata, Realisable(group, pad_rdata),
         \A e \in Section(d) \ group, f \in group : At(f) < e.rva
  PROVE  /\ group \in SUBSET {e \in DefinitionType : e.section_offset # {}}
         /\ \A j \in 1 .. n : order[j] \in Section(d) =>
              /\ order[j] \in group
              /\ {f \in group \ {order[j]} : At(f) <= At(order[j])}
                   = {order[i] : i \in {k \in 1 .. j - 1 : order[k] \in Section(d)}}
<1>1. /\ order \in Seq(DefinitionType) /\ ToSet(order) = ToSet(definitions)
      /\ \A i, j \in DOMAIN order : i # j => order[i] # order[j]
      /\ \A i, j \in DOMAIN order :
           i < j /\ order[i].object = order[j].object /\ order[i].storage = order[j].storage
             => OffsetOrRva(order[i]) <= OffsetOrRva(order[j])
  BY EmissionFacts
<1>2. Len(order) \in Nat /\ DOMAIN order = 1 .. Len(order) /\ n \in 1 .. Len(order)
  BY <1>1
<1>3. \A j \in DOMAIN order : order[j] \in DefinitionType /\ order[j] \in ToSet(order)
  BY <1>1 DEF ToSet
<1>4. \A e \in ToSet(order) : e \in DefinitionType /\ \E j \in DOMAIN order : e = order[j]
  BY <1>3 DEF ToSet
<1>5. \A e : e \in Section(d) <=>
               e \in ToSet(order) /\ e.object = d.object /\ e.storage = d.storage
  BY <1>1 DEF Section
<1>6. \A e : e \in group <=> e \in Section(d) /\ e.section_offset # {}
  BY DEF Candidates
<1>7. group \in SUBSET {e \in DefinitionType : e.section_offset # {}}
  BY <1>4, <1>5, <1>6
<1>8. \A e \in group : OffsetOrRva(e) = At(e) /\ At(e) \in Nat /\ e.size \in Nat /\ e.size > 0
  <2> TAKE e \in group
  <2>1. OffsetOrRva(e) = At(e) /\ At(e) \in Usize /\ e.size \in Usize /\ e.size > 0
    BY <1>7, OffsetFacts
  <2> QED BY <2>1, InputsAssumption DEF Usize
<1>9. \A i, j \in DOMAIN order :
        i < j /\ order[i] \in Section(d) /\ order[j] \in Section(d)
          => OffsetOrRva(order[i]) <= OffsetOrRva(order[j])
  BY <1>1, <1>5
<1>10. ASSUME NEW j \in 1 .. n, order[j] \in Section(d) PROVE order[j] \in group
  <2>1. CASE j = n
    BY <2>1
  <2>2. CASE j # n
    <3> SUFFICES ASSUME order[j] \notin group PROVE FALSE
      OBVIOUS
    <3>1. j \in DOMAIN order /\ j < n /\ d \in Section(d)
      BY <1>2, <1>6, <2>2
    <3>2. OffsetOrRva(order[j]) = order[j].rva /\ order[j].rva \in Nat
      BY <1>3, <1>6, <1>10, <3>1, OffsetFacts
    <3>3. OffsetOrRva(order[j]) <= OffsetOrRva(d)
      BY <1>9, <1>10, <3>1
    <3>4. At(d) < order[j].rva
      BY <1>10
    <3> QED BY <1>8, <3>2, <3>3, <3>4
  <2> QED BY <2>1, <2>2
<1>11. ASSUME NEW j \in 1 .. n, order[j] \in Section(d)
       PROVE  {f \in group \ {order[j]} : At(f) <= At(order[j])}
                = {order[i] : i \in {k \in 1 .. j - 1 : order[k] \in Section(d)}}
  <2> DEFINE before == {k \in 1 .. j - 1 : order[k] \in Section(d)}
  <2>1. order[j] \in group /\ j \in DOMAIN order
    BY <1>2, <1>10, <1>11
  <2>2. ASSUME NEW i \in before
        PROVE  order[i] \in group /\ order[i] # order[j] /\ At(order[i]) <= At(order[j])
    <3>1. i \in 1 .. n /\ i \in DOMAIN order /\ i < j /\ order[i] \in Section(d)
      BY <1>2
    <3>2. order[i] \in group
      BY <1>10, <3>1
    <3>3. OffsetOrRva(order[i]) <= OffsetOrRva(order[j])
      BY <1>9, <1>11, <2>1, <3>1
    <3> QED BY <1>1, <1>8, <2>1, <3>1, <3>2, <3>3
  <2>3. ASSUME NEW f \in group, f # order[j], At(f) <= At(order[j])
        PROVE  \E i \in before : f = order[i]
    <3>1. f \in Section(d)
      BY <1>6
    <3>2. PICK i \in DOMAIN order : f = order[i]
      BY <1>4, <1>5, <3>1
    <3>3. ~(j < i)
      <4> SUFFICES ASSUME j < i PROVE FALSE
        OBVIOUS
      <4>1. At(order[j]) <= At(f)
        BY <1>8, <1>9, <1>11, <2>1, <3>1, <3>2
      <4>2. At(order[j]) + order[j].size <= At(f)
        BY <1>7, <2>1, <2>3, <4>1, CandidatesApart
      <4> QED BY <1>8, <2>1, <2>3, <4>2
    <3>4. i \in 1 .. j - 1
      BY <1>2, <2>1, <2>3, <3>2, <3>3
    <3> QED BY <3>1, <3>2, <3>4
  <2> HIDE DEF before
  <2> DEFINE left == {f \in group \ {order[j]} : At(f) <= At(order[j])}
             right == {order[i] : i \in before}
  <2>4. \A f : f \in left => f \in right
    BY <2>3
  <2>5. \A f : f \in right => f \in left
    BY <2>2
  <2>6. left = right
    <3> HIDE DEF left, right
    <3> QED BY <2>4, <2>5
  <2> QED BY <2>6 DEF before
<1> QED BY <1>7, <1>10, <1>11

\* A definition lands on its candidate offset.  What has been emitted of its
\* section when its turn comes, end by end, is the greatest end of the
\* candidates before it, and its offset is that end rounded up.
LEMMA CandidateLands ==
  ASSUME TypeOK, DefinitionsApart, phase = "loaded",
         NEW order \in EmissionOrders, NEW n \in DOMAIN order,
         NEW d, d = order[n], NEW group, group = Candidates(d), d \in group,
         NEW pad_rdata, Realisable(group, pad_rdata),
         \A e \in Section(d) \ group, f \in group : At(f) < e.rva
  PROVE  PlacedAt(order, n, pad_rdata) = At(d)
<1> DEFINE inside(m) == {k \in 1 .. m : order[k] \in Section(d)}
           start == Padding(d.storage, pad_rdata)
           ends(m) == {start} \cup {At(order[i]) + order[i].size : i \in inside(m)}
<1>1. /\ order \in Seq(DefinitionType) /\ ToSet(order) = ToSet(definitions)
      /\ \A i \in DOMAIN order : order[i] \in ToSet(definitions)
  <2>1. order \in Seq(DefinitionType) /\ ToSet(order) = ToSet(definitions)
    BY EmissionFacts
  <2> QED BY <2>1 DEF ToSet
<1>2. DOMAIN order = 1 .. Len(order) /\ Len(order) \in Nat /\ n \in Nat \ {0} /\ n <= Len(order)
  BY <1>1
<1>3. /\ group \in SUBSET {e \in DefinitionType : e.section_offset # {}}
      /\ \A j \in 1 .. n : order[j] \in Section(d) =>
           /\ order[j] \in group
           /\ {f \in group \ {order[j]} : At(f) <= At(order[j])} = {order[i] : i \in inside(j - 1)}
  BY CandidatesBefore
<1>4. UsizeMax \in Nat /\ UsizeMax + UsizeMax + 4 \in Nat /\ start \in 0 .. 4
  BY InputsAssumption DEF Padding
<1>5. \A e \in group :
        /\ At(e) \in Nat /\ At(e) <= UsizeMax /\ e.size \in Nat /\ e.size <= UsizeMax
        /\ e.alignment \in Nat \ {0}
  <2> TAKE e \in group
  <2>1. At(e) \in Usize /\ e.size \in Usize /\ e.alignment \in Nat \ {0}
    BY <1>3, OffsetFacts
  <2> QED BY <2>1, InputsAssumption DEF Usize
<1>6. ASSUME NEW m \in 0 .. n
      PROVE  ends(m) \in SUBSET Nat /\ start \in ends(m)
               /\ \A x \in ends(m) : x <= UsizeMax + UsizeMax + 4
  <2>1. \A i \in inside(m) : order[i] \in group
    BY <1>2, <1>3
  <2>2. \A i \in inside(m) : At(order[i]) + order[i].size \in Nat
                               /\ At(order[i]) + order[i].size <= UsizeMax + UsizeMax + 4
    BY <1>4, <1>5, <2>1
  <2> HIDE DEF inside, start
  <2>3. start \in Nat /\ start <= UsizeMax + UsizeMax + 4
    BY <1>4
  <2> QED BY <2>2, <2>3
<1>7. ASSUME NEW m \in 0 .. n
      PROVE  Max(ends(m)) \in ends(m) /\ Max(ends(m)) \in Nat /\ \A x \in ends(m) : x <= Max(ends(m))
  <2> HIDE DEF ends
  <2>1. ends(m) # {}
    BY <1>6
  <2> QED BY <1>4, <1>6, <2>1, MaxFacts
<1>8. ASSUME NEW j \in 1 .. n, order[j] \in Section(d)
      PROVE  At(order[j]) = AlignUp(Max(ends(j - 1)), order[j].alignment)
  <2> DEFINE below == {f \in group \ {order[j]} : At(f) <= At(order[j])}
  <2>1. order[j] \in group /\ below = {order[i] : i \in inside(j - 1)}
    BY <1>3, <1>8
  <2>2. At(order[j]) = AlignUp(Max({start} \cup {At(f) + f.size : f \in below}),
                               order[j].alignment)
    <3>1. order[j].storage = d.storage
      BY <2>1 DEF Candidates, Section
    <3> QED BY <2>1, <3>1 DEF Realisable
  <2> HIDE DEF below, inside
  <2>3. {At(f) + f.size : f \in below} = {At(order[i]) + order[i].size : i \in inside(j - 1)}
    BY <2>1
  <2> QED BY <2>2, <2>3
<1>9. Max(ends(0)) = start
  <2>1. ends(0) = {start}
    OBVIOUS
  <2>2. 0 \in 0 .. n
    BY <1>2
  <2> HIDE DEF ends, start
  <2> QED BY <1>7, <2>1, <2>2
<1>10. ASSUME NEW m \in 1 .. n - 1, order[m] \notin Section(d)
       PROVE  Max(ends(m)) = Max(ends(m - 1))
  <2>1. inside(m) = inside(m - 1)
    BY <1>2, <1>10
  <2> QED BY <2>1
<1>11. ASSUME NEW m \in 1 .. n - 1, order[m] \in Section(d)
       PROVE  Max(ends(m)) = AlignUp(Max(ends(m - 1)), order[m].alignment) + order[m].size
  <2> DEFINE top == At(order[m]) + order[m].size
  <2>1. m \in 1 .. n /\ m \in 0 .. n /\ m - 1 \in 0 .. n
    BY <1>2
  <2>2. At(order[m]) = AlignUp(Max(ends(m - 1)), order[m].alignment) /\ order[m] \in group
    BY <1>3, <1>8, <1>11, <2>1
  <2>3. top \in Nat /\ At(order[m]) <= top
    BY <1>5, <2>2
  <2>4. Max(ends(m - 1)) <= At(order[m])
    <3> HIDE DEF ends
    <3>1. Max(ends(m - 1)) \in Nat /\ order[m].alignment \in Nat \ {0}
      BY <1>5, <1>7, <2>1, <2>2
    <3> QED BY <2>2, <3>1, AlignUpFacts
  <2>5. \A x \in ends(m - 1) : x <= top
    <3> HIDE DEF ends, top
    <3>1. \A x \in ends(m - 1) : x \in Nat /\ x <= Max(ends(m - 1))
      BY <1>6, <1>7, <2>1
    <3>2. Max(ends(m - 1)) \in Nat /\ At(order[m]) \in Nat
      BY <1>5, <1>7, <2>1, <2>2
    <3> QED BY <2>3, <2>4, <3>1, <3>2
  <2>6. inside(m) = inside(m - 1) \cup {m}
    BY <1>2, <1>11
  <2>7. \A x : x \in ends(m) <=> x \in ends(m - 1) \/ x = top
    <3> HIDE DEF inside
    <3> QED BY <2>6
  <2> HIDE DEF ends, top
  <2>8. ends(m) \in SUBSET Nat /\ top \in ends(m) /\ \A x \in ends(m) : x <= top
    BY <1>6, <2>1, <2>3, <2>5, <2>7
  <2>9. Max(ends(m)) = top
    BY <2>8, MaxIs
  <2> QED BY <2>2, <2>9 DEF top
<1>12. \A m \in 1 .. n - 1 :
         order[m] \in Section(d) <=> order[m].object = d.object /\ order[m].storage = d.storage
  BY <1>1, <1>2 DEF Section
<1> HIDE DEF ends
<1>13. PICK end : end = SectionEnd(order, d.object, d.storage, pad_rdata)
  OBVIOUS
<1>14. /\ end[0] = start
       /\ \A m \in 1 .. Len(order) :
            end[m] = IF order[m].object = d.object /\ order[m].storage = d.storage
                     THEN AlignUp(end[m - 1], order[m].alignment) + order[m].size
                     ELSE end[m - 1]
  <2> HIDE DEF start
  <2> QED BY <1>2, <1>13, SectionEndFacts DEF start
<1> DEFINE S == {m \in Nat : m <= n - 1 => end[m] = Max(ends(m))}
<1>15. 0 \in S
  BY <1>9, <1>14
<1>16. ASSUME NEW m \in Nat, m \in S PROVE m + 1 \in S
  <2> SUFFICES ASSUME m + 1 <= n - 1 PROVE end[m + 1] = Max(ends(m + 1))
    OBVIOUS
  <2>1. /\ m + 1 \in 1 .. n - 1 /\ m + 1 \in 1 .. Len(order) /\ (m + 1) - 1 = m
        /\ m <= n - 1
    BY <1>2
  <2>2. end[m] = Max(ends(m))
    BY <1>16, <2>1
  <2>3. PICK k : k = m + 1
    OBVIOUS
  <2>4. end[k] = IF order[k].object = d.object /\ order[k].storage = d.storage
                 THEN AlignUp(end[m], order[k].alignment) + order[k].size
                 ELSE end[m]
    BY <1>14, <2>1, <2>3
  <2>5. CASE order[k] \in Section(d)
    BY <1>11, <1>12, <2>1, <2>2, <2>3, <2>4, <2>5
  <2>6. CASE order[k] \notin Section(d)
    BY <1>10, <1>12, <2>1, <2>2, <2>3, <2>4, <2>6
  <2> QED BY <2>3, <2>5, <2>6
<1>17. end[n - 1] = Max(ends(n - 1))
  <2> HIDE DEF S
  <2>1. n - 1 \in S
    BY <1>2, <1>15, <1>16, Induction
  <2> QED BY <1>2, <2>1 DEF S
<1>18. d \in Section(d) /\ n \in 1 .. n
  BY <1>2 DEF Candidates
<1>19. At(d) = AlignUp(Max(ends(n - 1)), d.alignment)
  BY <1>8, <1>18
<1>20. PlacedAt(order, n, pad_rdata) = AlignUp(end[n - 1], d.alignment)
  BY <1>13 DEF PlacedAt
<1> QED BY <1>17, <1>19, <1>20

\* The candidates of loaded manifests land, if they are a layout.
LEMMA LayoutEmitted == IInv => CandidateLayoutEmitted
<1>1. ASSUME TypeOK, DefinitionsApart PROVE CandidateLayoutEmitted
  <2> SUFFICES ASSUME phase = "loaded", NEW order \in EmissionOrders, NEW pad_rdata \in BOOLEAN,
                      NEW n \in DOMAIN order,
                      order[n] \in Candidates(order[n]), LaidOut(order[n], pad_rdata)
               PROVE  PlacedAt(order, n, pad_rdata) = At(order[n])
    BY DEF CandidateLayoutEmitted
  <2> QED BY <1>1, CandidateLands DEF LaidOut
<1>2. IInv => TypeOK /\ DefinitionsApart
  BY DEF IInv
<1> QED BY <1>1, <1>2

\* README.md, "Manifest format": a layout is rejected only if it emits a
\* different offset.  A definition with a candidate offset is placed at it
\* (`add_data_definition`), in any order of `definitions_in_emission_order`
\* and with or without --pad-empty-rdata, if the candidates of its section are
\* a layout of it.
THEOREM CandidateLayoutEmittedHolds == Spec => []CandidateLayoutEmitted
BY LayoutEmitted, LoadingInductive, PTL
=============================================================================
