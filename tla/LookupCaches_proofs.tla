------------------------- MODULE LookupCaches_proofs -------------------------
(***************************************************************************)
(* Proofs about LookupCaches, for every number of machines, files, objects *)
(* and callers, and any days an entry lasts: the tables answer what was    *)
(* true (AnswersCorrect), and cleaning them up changes no answer           *)
(* (CleanupCorrect).                                                       *)
(*                                                                         *)
(* A caller stores the hash of what it has read under the stat it took     *)
(* before, and the file may have been edited in between.  What saves the   *)
(* others: whoever takes that stat, took it when the file still had it,    *)
(* and from then on counts every content as one the file had (CallOk,      *)
(* PairOk); nobody takes it later, as every edit gives a new stat.         *)
(***************************************************************************)
EXTENDS LookupCaches, TLAPS

Contents == Machines \X Nat

\* A caller that has taken the stats of some files.
Looking == {"get", "read", "put"}

IsCall(c) ==
  c = [pc |-> c.pc, machine |-> c.machine, stats |-> c.stats, known |-> c.known,
       during |-> c.during, object |-> c.object]

\* The stats that were given are below e, the one a file has stands for its
\* content, and so does a hash that is stored under it.
TableOk(d, h, e) ==
  /\ d \in [Machines -> [Files -> [stat : 0 .. e, content : Contents]]]
  /\ DOMAIN h \subseteq Machines \X Files \X (0 .. e)
  /\ \A m \in Machines, f \in Files, s \in 0 .. e : <<m, f, s>> \in DOMAIN h =>
       /\ h[<<m, f, s>>].hash \in Contents
       /\ h[<<m, f, s>>].expires_at \in 0 .. MaxTime + ttl_days
       /\ s = d[m][f].stat => h[<<m, f, s>>].hash = d[m][f].content

\* What a caller finds, or has found, under the stat of a file is a content the
\* file has had since; what it stores under the stat a file has is its content.
CallOk(c, d, h, e) ==
  /\ IsCall(c)
  /\ c.pc \in Looking =>
       /\ c.machine \in Machines /\ DOMAIN c.stats \subseteq Files
       /\ DOMAIN c.during = DOMAIN c.stats /\ DOMAIN c.known \subseteq DOMAIN c.stats
       /\ \A f \in DOMAIN c.stats :
            /\ c.stats[f] \in 0 .. e
            /\ d[c.machine][f].content \in c.during[f]
            /\ <<c.machine, f, c.stats[f]>> \in DOMAIN h =>
                 h[<<c.machine, f, c.stats[f]>>].hash \in c.during[f]
  /\ c.pc \in {"get", "read"} =>
       \A f \in DOMAIN c.known : c.known[f] = NoHash \/ c.known[f] \in c.during[f]
  /\ c.pc = "put" =>
       \A f \in DOMAIN c.known :
         /\ c.known[f] \in Contents
         /\ c.stats[f] = d[c.machine][f].stat => c.known[f] = d[c.machine][f].content

\* What a caller is about to store is right for the other one.
PairOk(c, b) ==
  c.pc = "put" /\ b.pc \in Looking /\ c.machine = b.machine =>
    \A f \in DOMAIN c.known : f \in DOMAIN b.stats /\ c.stats[f] = b.stats[f] =>
      c.known[f] \in b.during[f]

HashInv ==
  /\ clock \in 0 .. MaxTime /\ edits \in 0 .. MaxEdits
  /\ TableOk(disk, hashes, edits)
  /\ lookups = [w \in Workers |-> lookups[w]]
  /\ \A w \in Workers : CallOk(lookups[w], disk, hashes, edits)
  /\ \A v, w \in Workers : PairOk(lookups[v], lookups[w])

\* Who is about to mark an object has seen it today.
ObjectInv ==
  /\ \A o \in DOMAIN present : present[o] \in 0 .. clock
  /\ \A o \in DOMAIN seen : o \in DOMAIN present /\ seen[o] \in 0 .. present[o]
  /\ \A o \in bucket : o \in DOMAIN present /\ present[o] = clock
  /\ \A w \in Workers : lookups[w].pc = "mark" =>
       lookups[w].object \in DOMAIN present /\ present[lookups[w].object] = clock

-----------------------------------------------------------------------------
(* Tables and calls *)

\* Drop takes out the given keys and leaves the rest.
LEMMA DropFacts ==
  ASSUME NEW f, NEW S
  PROVE  /\ \A x : x \in DOMAIN Drop(f, S) <=> x \in DOMAIN f /\ x \notin S
         /\ \A x \in DOMAIN Drop(f, S) : Drop(f, S)[x] = f[x]
BY DEF Drop, Restrict

\* A table with fewer entries is as good.
LEMMA FewerHashes ==
  ASSUME NEW d, NEW h, NEW e, NEW S
  PROVE  /\ TableOk(d, h, e) => TableOk(d, Drop(h, S), e)
         /\ \A c : CallOk(c, d, h, e) => CallOk(c, d, Drop(h, S), e)
<1> DEFINE g == Drop(h, S)
<1>1. /\ \A x : x \in DOMAIN g => x \in DOMAIN h
      /\ \A x \in DOMAIN g : g[x] = h[x]
  BY DropFacts
<1> HIDE DEF g
<1>2. TableOk(d, h, e) => TableOk(d, g, e)
  BY <1>1 DEF TableOk
<1>3. \A c : CallOk(c, d, h, e) => CallOk(c, d, g, e)
  BY <1>1 DEF CallOk
<1> QED
  BY <1>2, <1>3 DEF g

\* A content is a hash, and no hash is none.
LEMMA ContentIsHash == \A x \in Contents : x # NoHash
BY DEF Contents, NoHash

\* A worker that does nothing is in order, whoever else works.
LEMMA RestIsOk ==
  /\ IsCall(Resting) /\ Resting.pc = "idle"
  /\ \A p, o : LET c == [Resting EXCEPT !.pc = p, !.object = o] IN
                 IsCall(c) /\ c.pc = p /\ c.object = o
  /\ \A p : LET c == [Resting EXCEPT !.pc = p] IN IsCall(c) /\ c.pc = p
<1>1. PICK m, b : Resting = [pc |-> "idle", machine |-> m, stats |-> <<>>, known |-> <<>>,
                               during |-> <<>>, object |-> b]
  BY DEF Resting
<1>2. IsCall(Resting) /\ Resting.pc = "idle"
  BY <1>1 DEF IsCall
<1>3. ASSUME NEW p
      PROVE  LET c == [Resting EXCEPT !.pc = p] IN IsCall(c) /\ c.pc = p
  BY <1>1 DEF IsCall
<1>4. ASSUME NEW p, NEW o
      PROVE  LET c == [Resting EXCEPT !.pc = p, !.object = o] IN
             IsCall(c) /\ c.pc = p /\ c.object = o
  <2>1. PICK r : r = [Resting EXCEPT !.pc = p]
    OBVIOUS
  <2>2. r = [pc |-> p, machine |-> m, stats |-> <<>>, known |-> <<>>, during |-> <<>>, object |-> b]
    BY <1>1, <2>1
  <2>3. LET c == [r EXCEPT !.object = o] IN IsCall(c) /\ c.pc = p /\ c.object = o
    BY <2>2 DEF IsCall
  <2> QED
    BY <2>1, <2>3
<1> QED
  BY <1>2, <1>3, <1>4

\* Whatever a call that is about no file goes with.
LEMMA OtherCallIsOk ==
  ASSUME NEW c, IsCall(c), c.pc \notin Looking
  PROVE  /\ \A d, h, e : CallOk(c, d, h, e)
         /\ \A b : PairOk(c, b) /\ PairOk(b, c)
BY DEF CallOk, PairOk, Looking

\* A step of one worker: its new call has to be in order, with every other one.
LEMMA OneMoves ==
  ASSUME HashInv, NEW w \in Workers, NEW r, lookups' = [lookups EXCEPT ![w] = r],
         UNCHANGED <<clock, disk, hashes, edits>>,
         CallOk(r, disk, hashes, edits), PairOk(r, r),
         \A v \in Workers : PairOk(lookups[v], r) /\ PairOk(r, lookups[v])
  PROVE  HashInv'
<1>1. /\ lookups' = [v \in Workers |-> lookups'[v]] /\ lookups'[w] = r
      /\ \A v \in Workers : v # w => lookups'[v] = lookups[v]
  BY DEF HashInv
<1>2. \A v \in Workers : CallOk(lookups'[v], disk, hashes, edits)
  BY <1>1 DEF HashInv
<1>3. \A u, v \in Workers : PairOk(lookups'[u], lookups'[v])
  BY <1>1 DEF HashInv
<1> QED
  BY <1>1, <1>2, <1>3 DEF HashInv

\* A step to a call that is about no file.
LEMMA OneTurns ==
  ASSUME HashInv, NEW w \in Workers, NEW r, lookups' = [lookups EXCEPT ![w] = r],
         UNCHANGED <<clock, disk, hashes, edits>>, IsCall(r), r.pc \notin Looking
  PROVE  HashInv'
BY OneMoves, OtherCallIsOk

\* A step that leaves files, stats and calls.
LEMMA HashesUnmoved ==
  ASSUME HashInv, UNCHANGED <<clock, disk, hashes, lookups, edits>>
  PROVE  HashInv'
BY DEF HashInv

-----------------------------------------------------------------------------
(* The steps about files *)

\* An edit gives a new stat and a new content, which everybody who has looked at
\* the file counts as one of its.
LEMMA EditKeeps ==
  ASSUME LookupAssumption, ~EditsKeepStat, HashInv, NEW m \in Machines, NEW f \in Files, Edit(m, f)
  PROVE  HashInv'
<1>1. PICK e \in Nat : e = edits + 1
  BY DEF HashInv, LookupAssumption
<1> DEFINE c == <<m, e>>
           Seen(b) == IF b.machine = m /\ f \in DOMAIN b.during
                        THEN [b EXCEPT !.during[f] = @ \cup {c}] ELSE b
<1>2. /\ edits' = e /\ e \in 0 .. MaxEdits /\ \A s \in 0 .. edits : s \in 0 .. e /\ s # e
      /\ disk' = [disk EXCEPT ![m][f] = [stat |-> e, content |-> c]]
      /\ lookups' = [w \in Workers |-> Seen(lookups[w])]
      /\ clock' = clock /\ hashes' = hashes
  BY <1>1 DEF Edit, HashInv, LookupAssumption
<1>3. /\ disk'[m][f].stat = e /\ disk'[m][f].content = c /\ c \in Contents
      /\ \A n \in Machines, g \in Files : n # m \/ g # f => disk'[n][g] = disk[n][g]
      /\ disk' \in [Machines -> [Files -> [stat : 0 .. e, content : Contents]]]
  <2>1. disk \in [Machines -> [Files -> [stat : 0 .. e, content : Contents]]]
    BY <1>2 DEF HashInv, TableOk
  <2>2. c \in Contents
    BY <1>1 DEF Contents
  <2> HIDE DEF c
  <2> QED
    BY <1>2, <2>1, <2>2
<1>4. TableOk(disk', hashes', edits')
  BY <1>2, <1>3 DEF HashInv, TableOk
<1> HIDE DEF c
<1>5. ASSUME NEW w \in Workers
      PROVE  /\ CallOk(Seen(lookups[w]), disk', hashes', edits')
             /\ \A v \in Workers : PairOk(Seen(lookups[v]), Seen(lookups[w]))
  <2> DEFINE b == lookups[w]
             r == Seen(b)
  <2>1. CallOk(b, disk, hashes, edits)
    BY DEF HashInv
  <2>2. /\ r.pc = b.pc /\ r.machine = b.machine /\ r.stats = b.stats /\ r.known = b.known
        /\ IsCall(r) /\ DOMAIN r.during = DOMAIN b.during
        /\ \A g \in DOMAIN b.during : b.during[g] \subseteq r.during[g]
        /\ b.machine = m /\ f \in DOMAIN b.during => c \in r.during[f]
    BY <2>1 DEF CallOk, IsCall
  <2> HIDE DEF r, b
  <2>3. ASSUME NEW g \in DOMAIN b.stats, b.pc \in Looking
        PROVE  disk'[b.machine][g].content \in r.during[g]
    <3>1. b.machine \in Machines /\ g \in Files /\ g \in DOMAIN b.during
      BY <2>1, <2>3 DEF CallOk
    <3>2. CASE b.machine = m /\ g = f
      BY <1>3, <2>2, <3>1, <3>2
    <3>3. CASE ~(b.machine = m /\ g = f)
      BY <1>3, <2>1, <2>2, <2>3, <3>1, <3>3 DEF CallOk
    <3> QED
      BY <3>2, <3>3
  <2>4. ASSUME b.pc = "put", NEW g \in DOMAIN b.known
        PROVE  /\ b.known[g] \in Contents
               /\ b.stats[g] = disk'[b.machine][g].stat => b.known[g] = disk'[b.machine][g].content
    <3>1. /\ b.machine \in Machines /\ g \in Files /\ b.stats[g] \in 0 .. edits
          /\ b.known[g] \in Contents
          /\ b.stats[g] = disk[b.machine][g].stat => b.known[g] = disk[b.machine][g].content
      BY <2>1, <2>4 DEF CallOk, Looking
    <3>2. CASE b.machine = m /\ g = f
      BY <1>2, <1>3, <3>1, <3>2
    <3>3. CASE ~(b.machine = m /\ g = f)
      BY <1>3, <3>1, <3>3
    <3> QED
      BY <3>2, <3>3
  <2>5. CallOk(r, disk', hashes', edits')
    <3>1. ASSUME r.pc \in Looking
          PROVE  /\ r.machine \in Machines /\ DOMAIN r.stats \subseteq Files
                 /\ DOMAIN r.during = DOMAIN r.stats /\ DOMAIN r.known \subseteq DOMAIN r.stats
                 /\ \A g \in DOMAIN r.stats :
                      /\ r.stats[g] \in 0 .. e
                      /\ disk'[r.machine][g].content \in r.during[g]
                      /\ <<r.machine, g, r.stats[g]>> \in DOMAIN hashes =>
                           hashes[<<r.machine, g, r.stats[g]>>].hash \in r.during[g]
      <4>1. /\ b.machine \in Machines /\ DOMAIN b.stats \subseteq Files
            /\ DOMAIN b.during = DOMAIN b.stats /\ DOMAIN b.known \subseteq DOMAIN b.stats
            /\ \A g \in DOMAIN b.stats :
                 /\ b.stats[g] \in 0 .. edits
                 /\ <<b.machine, g, b.stats[g]>> \in DOMAIN hashes =>
                      hashes[<<b.machine, g, b.stats[g]>>].hash \in b.during[g]
        BY <2>1, <2>2, <3>1 DEF CallOk
      <4> QED
        BY <1>2, <2>2, <2>3, <3>1, <4>1
    <3>2. r.pc \in {"get", "read"} =>
            \A g \in DOMAIN r.known : r.known[g] = NoHash \/ r.known[g] \in r.during[g]
      <4>1. r.pc \in {"get", "read"} =>
              /\ DOMAIN b.known \subseteq DOMAIN b.during
              /\ \A g \in DOMAIN b.known : b.known[g] = NoHash \/ b.known[g] \in b.during[g]
        BY <2>1, <2>2 DEF CallOk, Looking
      <4> QED
        BY <2>2, <4>1
    <3> QED
      BY <1>2, <2>2, <2>4, <3>1, <3>2 DEF CallOk
  <2>6. ASSUME NEW v \in Workers PROVE PairOk(Seen(lookups[v]), r)
    <3> DEFINE a == lookups[v]
               q == Seen(a)
    <3>1. CallOk(a, disk, hashes, edits) /\ PairOk(a, b)
      BY DEF HashInv, b
    <3>2. q.pc = a.pc /\ q.machine = a.machine /\ q.stats = a.stats /\ q.known = a.known
      BY <3>1 DEF CallOk, IsCall
    <3> HIDE DEF q, a
    <3>3. PairOk(q, r)
      BY <2>1, <2>2, <3>1, <3>2 DEF PairOk, CallOk
    <3> QED
      BY <3>3 DEF q, a
  <2> QED
    BY <2>5, <2>6 DEF r, b
<1>6. \A w \in Workers : lookups'[w] = Seen(lookups[w])
  BY <1>2
<1>7. lookups' = [w \in Workers |-> lookups'[w]]
  BY <1>2
<1> HIDE DEF Seen
<1>8. /\ \A w \in Workers : CallOk(lookups'[w], disk', hashes', edits')
      /\ \A v, w \in Workers : PairOk(lookups'[v], lookups'[w])
  BY <1>5, <1>6
<1> QED
  BY <1>2, <1>4, <1>7, <1>8 DEF HashInv

\* A look at files.
LookOf(m, x, y) == [Resting EXCEPT !.pc = "get", !.machine = m, !.stats = x, !.during = y]

\* It is the call of a worker that has taken the stats x of files of machine m, whose
\* contents are y.
LEMMA NewLook ==
  ASSUME NEW m, NEW x, NEW y
  PROVE  LET r == LookOf(m, x, y) IN
         /\ IsCall(r) /\ r.pc = "get" /\ r.machine = m /\ r.known = <<>>
         /\ r.stats = x /\ r.during = y
<1>1. PICK n, b : Resting = [pc |-> "idle", machine |-> n, stats |-> <<>>, known |-> <<>>,
                             during |-> <<>>, object |-> b]
  BY DEF Resting
<1>4. PICK r1 : r1 = [Resting EXCEPT !.pc = "get"]
  OBVIOUS
<1>5. r1 = [pc |-> "get", machine |-> n, stats |-> <<>>, known |-> <<>>, during |-> <<>>, object |-> b]
  BY <1>1, <1>4
<1>6. PICK r2 : r2 = [r1 EXCEPT !.machine = m]
  OBVIOUS
<1>7. r2 = [pc |-> "get", machine |-> m, stats |-> <<>>, known |-> <<>>, during |-> <<>>, object |-> b]
  BY <1>5, <1>6
<1>8. PICK r3 : r3 = [r2 EXCEPT !.stats = x]
  OBVIOUS
<1>9. r3 = [pc |-> "get", machine |-> m, stats |-> x, known |-> <<>>, during |-> <<>>, object |-> b]
  BY <1>7, <1>8
<1>10. PICK r4 : r4 = [r3 EXCEPT !.during = y]
  OBVIOUS
<1>11. r4 = [pc |-> "get", machine |-> m, stats |-> x, known |-> <<>>, during |-> y, object |-> b]
  BY <1>9, <1>10
<1>12. LookOf(m, x, y) = r4
  BY <1>4, <1>6, <1>8, <1>10 DEF LookOf
<1> QED
  BY <1>11, <1>12 DEF IsCall

\* A look at some files: their stats are those they have, and what is stored
\* under them, or is about to be, is their content.
LEMMA StatKeeps ==
  ASSUME HashInv, NEW w \in Workers, NEW m \in Machines, NEW F \in SUBSET Files, Stat(w, m, F)
  PROVE  HashInv'
<1> DEFINE x == [f \in F |-> disk[m][f].stat]
           y == [f \in F |-> {disk[m][f].content}]
           r == LookOf(m, x, y)
<1>1. lookups' = [lookups EXCEPT ![w] = r] /\ UNCHANGED <<clock, disk, hashes, edits>>
  BY DEF Stat, LookOf
<1>2. /\ IsCall(r) /\ r.pc = "get" /\ r.machine = m /\ r.known = <<>>
      /\ r.stats = x /\ r.during = y
  <2> HIDE DEF x, y
  <2> QED
    BY NewLook
<1> HIDE DEF r
<1>3. /\ DOMAIN r.stats = F /\ DOMAIN r.during = F /\ DOMAIN r.known = {}
      /\ \A f \in F : r.stats[f] = disk[m][f].stat /\ r.during[f] = {disk[m][f].content}
  BY <1>2
<1>4. \A f \in F : disk[m][f].stat \in 0 .. edits
  BY DEF HashInv, TableOk
<1>5. CallOk(r, disk, hashes, edits)
  <2>1. \A f \in F : <<m, f, r.stats[f]>> \in DOMAIN hashes =>
          hashes[<<m, f, r.stats[f]>>].hash = disk[m][f].content
    BY <1>3, <1>4 DEF HashInv, TableOk
  <2> QED
    BY <1>2, <1>3, <1>4, <2>1 DEF CallOk
<1>6. \A b : PairOk(r, b)
  BY <1>2 DEF PairOk
<1>7. ASSUME NEW v \in Workers PROVE PairOk(lookups[v], r)
  <2>1. CallOk(lookups[v], disk, hashes, edits)
    BY DEF HashInv
  <2> QED
    BY <1>2, <1>3, <2>1 DEF PairOk, CallOk
<1> QED
  BY <1>1, <1>5, <1>6, <1>7, OneMoves

\* A caller asks the table for the hash of a file: it is one the file had.
LEMMA GetHashKeeps ==
  ASSUME HashInv, NEW w \in Workers, GetHash(w)
  PROVE  HashInv'
<1> DEFINE c == lookups[w]
<1>1. CallOk(c, disk, hashes, edits) /\ IsCall(c)
  BY DEF HashInv, CallOk
<1>2. UNCHANGED <<clock, disk, hashes, edits>> /\ c.pc = "get"
  BY DEF GetHash, Going
<1>3. CASE DOMAIN c.known = DOMAIN c.stats
  <2> DEFINE r == [c EXCEPT !.pc = "read"]
  <2>1. lookups' = [lookups EXCEPT ![w] = r]
    BY <1>3 DEF GetHash
  <2> HIDE DEF c
  <2>2. /\ IsCall(r) /\ r.pc = "read" /\ r.machine = c.machine /\ r.stats = c.stats
        /\ r.known = c.known /\ r.during = c.during
    BY <1>1 DEF IsCall
  <2> HIDE DEF r
  <2>3. CallOk(r, disk, hashes, edits)
    BY <1>1, <1>2, <2>2 DEF CallOk, Looking
  <2>4. PairOk(r, r) /\ \A v \in Workers : PairOk(lookups[v], r) /\ PairOk(r, lookups[v])
    <3>1. \A v \in Workers : PairOk(lookups[v], c)
      BY DEF HashInv, c
    <3> QED
      BY <1>2, <2>2, <3>1 DEF PairOk, Looking
  <2> QED
    BY <1>2, <2>1, <2>3, <2>4, OneMoves
<1>4. CASE ~(DOMAIN c.known = DOMAIN c.stats)
  <2>1. PICK f, h : /\ f \in DOMAIN c.stats
                    /\ h \in {HashGet(HashKey(c.machine, f, c.stats[f])), NoHash}
                    /\ lookups' = [lookups EXCEPT ![w].known = Insert(@, f, h)]
    BY <1>4 DEF GetHash
  <2> DEFINE r == [c EXCEPT !.known = Insert(@, f, h)]
  <2>2. lookups' = [lookups EXCEPT ![w] = r]
    BY <2>1
  <2>3. h = NoHash \/ h \in c.during[f]
    BY <1>1, <1>2, <2>1 DEF HashGet, HashKey, CallOk, Looking
  <2>4. f \in DOMAIN c.stats
    BY <2>1
  <2> HIDE DEF c
  <2>5. PICK k : k = Insert(c.known, f, h)
    OBVIOUS
  <2>6. /\ IsCall(r) /\ r.pc = "get" /\ r.machine = c.machine /\ r.stats = c.stats
        /\ r.known = k /\ r.during = c.during
    BY <1>1, <1>2, <2>5 DEF IsCall
  <2>7. /\ \A g : g \in DOMAIN k <=> g \in DOMAIN c.known \/ g = f
        /\ k[f] = h /\ \A g \in DOMAIN c.known : g # f => k[g] = c.known[g]
    BY <2>5 DEF Insert
  <2> HIDE DEF r
  <2>8. CallOk(r, disk, hashes, edits)
    <3>1. /\ DOMAIN r.known \subseteq DOMAIN r.stats
          /\ \A g \in DOMAIN r.known : r.known[g] = NoHash \/ r.known[g] \in r.during[g]
      BY <1>1, <1>2, <2>3, <2>4, <2>6, <2>7 DEF CallOk, Looking
    <3> QED
      BY <1>1, <1>2, <2>6, <3>1 DEF CallOk, Looking
  <2>9. PairOk(r, r) /\ \A v \in Workers : PairOk(lookups[v], r) /\ PairOk(r, lookups[v])
    <3>1. \A v \in Workers : PairOk(lookups[v], c)
      BY DEF HashInv, c
    <3> QED
      BY <1>2, <2>6, <3>1 DEF PairOk, Looking
  <2> QED
    BY <1>2, <2>2, <2>8, <2>9, OneMoves
<1> QED
  BY <1>3, <1>4

\* A caller reads the files whose hash is not known: whoever looks at one of them
\* counts its content of now.
LEMMA ReadFileKeeps ==
  ASSUME HashInv, NEW w \in Workers, ReadFile(w)
  PROVE  HashInv'
<1> DEFINE c == lookups[w]
<1>1. CallOk(c, disk, hashes, edits) /\ IsCall(c)
  BY DEF HashInv, CallOk
<1>2. UNCHANGED <<clock, disk, hashes, edits>> /\ c.pc = "read"
  BY DEF ReadFile, Going
<1>3. CASE Missing(c) = {}
  BY <1>2, <1>3, OneTurns, RestIsOk DEF ReadFile, Looking
<1>4. CASE Missing(c) # {}
  <2> DEFINE k == [f \in Missing(c) |-> disk[c.machine][f].content]
             r == [c EXCEPT !.pc = "put", !.known = k]
  <2>1. lookups' = [lookups EXCEPT ![w] = r]
    <3>1. lookups' = [lookups EXCEPT ![w].pc = "put", ![w].known = k]
      BY <1>4 DEF ReadFile
    <3> QED
      BY <3>1 DEF HashInv
  <2>2. Missing(c) \subseteq DOMAIN c.known
    BY DEF Missing
  <2> HIDE DEF c
  <2>3. DOMAIN k = Missing(c) /\ \A f \in Missing(c) : k[f] = disk[c.machine][f].content
    OBVIOUS
  <2> HIDE DEF k
  <2>4. /\ IsCall(r) /\ r.pc = "put" /\ r.machine = c.machine /\ r.stats = c.stats
        /\ r.known = k /\ r.during = c.during
    <3>1. PICK q : q = [c EXCEPT !.pc = "put"]
      OBVIOUS
    <3>2. q = [pc |-> "put", machine |-> c.machine, stats |-> c.stats, known |-> c.known,
               during |-> c.during, object |-> c.object]
      BY <1>1, <3>1 DEF IsCall
    <3>3. r = [q EXCEPT !.known = k]
      BY <3>1
    <3> QED
      BY <3>2, <3>3 DEF IsCall
  <2> HIDE DEF r
  <2>5. /\ c.machine \in Machines /\ DOMAIN c.stats \subseteq Files /\ Missing(c) \subseteq DOMAIN c.stats
        /\ \A f \in Missing(c) : k[f] \in Contents
    <3>1. c.machine \in Machines /\ DOMAIN c.stats \subseteq Files /\ Missing(c) \subseteq DOMAIN c.stats
      BY <1>1, <1>2, <2>2 DEF CallOk, Looking
    <3> QED
      BY <2>3, <3>1 DEF HashInv, TableOk
  <2>6. CallOk(r, disk, hashes, edits)
    BY <1>1, <1>2, <2>3, <2>4, <2>5 DEF CallOk, Looking
  <2>7. ASSUME NEW b, CallOk(b, disk, hashes, edits) PROVE PairOk(r, b)
    BY <2>3, <2>4, <2>5, <2>7 DEF PairOk, CallOk
  <2>8. \A v \in Workers : PairOk(lookups[v], r)
    <3>1. \A v \in Workers : PairOk(lookups[v], c)
      BY DEF HashInv, c
    <3> QED
      BY <1>2, <2>4, <3>1 DEF PairOk, Looking
  <2>9. PairOk(r, r) /\ \A v \in Workers : PairOk(r, lookups[v])
    BY <2>6, <2>7 DEF HashInv
  <2> QED
    BY <1>2, <2>1, <2>6, <2>8, <2>9, OneMoves
<1> QED
  BY <1>3, <1>4

\* A caller stores what it has read.  Whoever looks under one of these stats
\* counts it, and so will whoever looks now.
LEMMA PutHashesKeeps ==
  ASSUME LookupAssumption, HashInv, NEW w \in Workers, PutHashes(w)
  PROVE  HashInv'
<1> DEFINE c == lookups[w]
<1>1. CallOk(c, disk, hashes, edits)
  BY DEF HashInv
<1>2. UNCHANGED <<clock, disk, edits>> /\ c.pc = "put" /\ lookups' = [lookups EXCEPT ![w] = Resting]
  BY DEF PutHashes, Going
<1>3. PICK F \in SUBSET DOMAIN c.known :
        hashes' = [k \in DOMAIN hashes \cup {HashKey(c.machine, f, c.stats[f]) : f \in F} |->
                     IF k \in {HashKey(c.machine, f, c.stats[f]) : f \in F}
                       THEN HashEntry(c.known[k[2]]) ELSE hashes[k]]
  BY DEF PutHashes
<1>4. \A v \in Workers : PairOk(c, lookups[v])
  BY DEF HashInv
<1>5. \A v \in Workers : v # w => lookups'[v] = lookups[v]
  BY <1>2 DEF HashInv
<1>6. /\ lookups'[w] = Resting /\ lookups' = [v \in Workers |-> lookups'[v]]
  BY <1>2 DEF HashInv
<1> HIDE DEF c
<1> DEFINE new == {<<c.machine, f, c.stats[f]>> : f \in F}
<1>7. /\ c.machine \in Machines /\ F \subseteq Files /\ F \subseteq DOMAIN c.stats
      /\ \A f \in F : c.stats[f] \in 0 .. edits /\ c.known[f] \in Contents
      /\ \A f \in F : c.stats[f] = disk[c.machine][f].stat => c.known[f] = disk[c.machine][f].content
  BY <1>1, <1>2, <1>3 DEF CallOk, Looking
<1>8. /\ \A k : k \in DOMAIN hashes' <=> k \in DOMAIN hashes \/ k \in new
      /\ \A k \in DOMAIN hashes : k \notin new => hashes'[k] = hashes[k]
      /\ \A k \in new : hashes'[k] = HashEntry(c.known[k[2]])
  BY <1>3 DEF HashKey
<1>9. \A m, f, s : <<m, f, s>> \in new <=> f \in F /\ m = c.machine /\ s = c.stats[f]
  OBVIOUS
<1>10. \A k \in new : k \in Machines \X Files \X (0 .. edits)
  BY <1>7
<1> HIDE DEF new
<1>11. ASSUME NEW f, NEW s, <<c.machine, f, s>> \in new
       PROVE  /\ f \in F /\ s = c.stats[f]
              /\ hashes'[<<c.machine, f, s>>].hash = c.known[f]
              /\ hashes'[<<c.machine, f, s>>].expires_at = clock + ttl_days
  <2>1. f \in F /\ s = c.stats[f]
    BY <1>9, <1>11
  <2>2. hashes'[<<c.machine, f, s>>] = HashEntry(c.known[f])
    BY <1>8, <1>11
  <2> QED
    BY <2>1, <2>2 DEF HashEntry
<1>12. \A m, f, s : <<m, f, s>> \in DOMAIN hashes' =>
         \/ m = c.machine /\ <<c.machine, f, s>> \in new
         \/ <<m, f, s>> \in DOMAIN hashes /\ hashes'[<<m, f, s>>] = hashes[<<m, f, s>>]
  BY <1>8, <1>9
<1>13. TableOk(disk', hashes', edits')
  <2>1. \A m \in Machines, f \in Files, s \in 0 .. edits : <<m, f, s>> \in DOMAIN hashes' =>
          /\ hashes'[<<m, f, s>>].hash \in Contents
          /\ hashes'[<<m, f, s>>].expires_at \in 0 .. MaxTime + ttl_days
          /\ s = disk[m][f].stat => hashes'[<<m, f, s>>].hash = disk[m][f].content
    <3> SUFFICES ASSUME NEW m \in Machines, NEW f \in Files, NEW s \in 0 .. edits,
                        <<m, f, s>> \in DOMAIN hashes'
                 PROVE  /\ hashes'[<<m, f, s>>].hash \in Contents
                        /\ hashes'[<<m, f, s>>].expires_at \in 0 .. MaxTime + ttl_days
                        /\ s = disk[m][f].stat => hashes'[<<m, f, s>>].hash = disk[m][f].content
      OBVIOUS
    <3>1. CASE <<m, f, s>> \in DOMAIN hashes /\ hashes'[<<m, f, s>>] = hashes[<<m, f, s>>]
      BY <3>1 DEF HashInv, TableOk
    <3>2. CASE m = c.machine /\ <<c.machine, f, s>> \in new
      <4>1. clock + ttl_days \in 0 .. MaxTime + ttl_days
        BY DEF LookupAssumption, HashInv
      <4> QED
        BY <1>7, <1>11, <3>2, <4>1
    <3> QED
      BY <1>12, <3>1, <3>2
  <2>2. DOMAIN hashes' \subseteq Machines \X Files \X (0 .. edits)
    BY <1>8, <1>10 DEF HashInv, TableOk
  <2> QED
    BY <1>2, <2>1, <2>2 DEF HashInv, TableOk
<1>14. ASSUME NEW v \in Workers, v # w PROVE CallOk(lookups[v], disk, hashes', edits)
  <2> DEFINE b == lookups[v]
  <2>1. CallOk(b, disk, hashes, edits) /\ PairOk(c, b)
    BY <1>4 DEF HashInv
  <2> HIDE DEF b
  <2>2. ASSUME b.pc \in Looking, NEW f \in DOMAIN b.stats,
               <<b.machine, f, b.stats[f]>> \in DOMAIN hashes'
        PROVE  hashes'[<<b.machine, f, b.stats[f]>>].hash \in b.during[f]
    <3>1. CASE /\ <<b.machine, f, b.stats[f]>> \in DOMAIN hashes
               /\ hashes'[<<b.machine, f, b.stats[f]>>] = hashes[<<b.machine, f, b.stats[f]>>]
      BY <2>1, <2>2, <3>1 DEF CallOk
    <3>2. CASE b.machine = c.machine /\ <<c.machine, f, b.stats[f]>> \in new
      <4>1. f \in F /\ b.stats[f] = c.stats[f] /\ hashes'[<<c.machine, f, b.stats[f]>>].hash = c.known[f]
        BY <1>11, <3>2
      <4>2. f \in DOMAIN c.known
        BY <1>3, <4>1
      <4>3. c.known[f] \in b.during[f]
        BY <1>2, <2>1, <2>2, <3>2, <4>1, <4>2 DEF PairOk, c
      <4> QED
        BY <3>2, <4>1, <4>3
    <3> QED
      BY <1>12, <2>2, <3>1, <3>2
  <2>3. CallOk(b, disk, hashes', edits)
    BY <2>1, <2>2 DEF CallOk
  <2> QED
    BY <2>3 DEF b
<1>15. Resting.pc \notin Looking /\ IsCall(Resting)
  BY RestIsOk DEF Looking
<1>16. \A v \in Workers : CallOk(lookups'[v], disk', hashes', edits')
  BY <1>2, <1>5, <1>6, <1>14, <1>15, OtherCallIsOk
<1>17. \A u, v \in Workers : PairOk(lookups'[u], lookups'[v])
  BY <1>5, <1>6, <1>15, OtherCallIsOk DEF HashInv
<1> QED
  BY <1>2, <1>6, <1>13, <1>16, <1>17 DEF HashInv

\* Entries of the table of hashes are taken out.
LEMMA RemovingKeeps ==
  ASSUME HashInv, NEW S, hashes' = Drop(hashes, S), UNCHANGED <<clock, disk, lookups, edits>>
  PROVE  HashInv'
<1>1. TableOk(disk, hashes', edits)
  BY FewerHashes DEF HashInv
<1>2. \A w \in Workers : CallOk(lookups[w], disk, hashes', edits)
  BY FewerHashes DEF HashInv
<1> QED
  BY <1>1, <1>2 DEF HashInv

\* All of them are.
LEMMA ClearingKeeps ==
  ASSUME HashInv, hashes' = <<>>, UNCHANGED <<clock, disk, lookups, edits>>
  PROVE  HashInv'
<1>1. \A k : k \notin DOMAIN hashes'
  OBVIOUS
<1>2. TableOk(disk, hashes', edits)
  BY <1>1 DEF HashInv, TableOk
<1>3. \A w \in Workers : CallOk(lookups[w], disk, hashes', edits)
  BY <1>1 DEF HashInv, CallOk
<1> QED
  BY <1>2, <1>3 DEF HashInv

\* A day passes.
LEMMA TickKeepsHashes ==
  ASSUME LookupAssumption, HashInv, Tick
  PROVE  HashInv'
<1>1. clock' \in 0 .. MaxTime /\ UNCHANGED <<disk, hashes, lookups, edits>>
  BY DEF Tick, HashInv, LookupAssumption
<1> QED
  BY <1>1 DEF HashInv

\* The tables are empty at first.
LEMMA InitHashInv ==
  ASSUME LookupAssumption, HashInit
  PROVE  HashInv
<1>1. /\ clock = 0 /\ edits = 0 /\ hashes = <<>> /\ lookups = [w \in Workers |-> Resting]
      /\ disk = [m \in Machines |-> [f \in Files |-> [stat |-> 0, content |-> <<m, 0>>]]]
  BY DEF HashInit
<1>2. clock \in 0 .. MaxTime /\ edits \in 0 .. MaxEdits
  BY <1>1 DEF LookupAssumption
<1>3. \A k : k \notin DOMAIN hashes
  BY <1>1
<1>4. disk \in [Machines -> [Files -> [stat : 0 .. edits, content : Contents]]]
  <2>1. \A m \in Machines : <<m, 0>> \in Contents
    BY DEF Contents
  <2> QED
    BY <1>1, <2>1
<1>5. TableOk(disk, hashes, edits)
  BY <1>3, <1>4 DEF TableOk
<1>6. \A w \in Workers : lookups[w] = Resting
  BY <1>1
<1>7. /\ \A w \in Workers : CallOk(lookups[w], disk, hashes, edits)
      /\ \A v, w \in Workers : PairOk(lookups[v], lookups[w])
  BY <1>6, RestIsOk, OtherCallIsOk DEF Looking
<1> QED
  BY <1>1, <1>2, <1>5, <1>7 DEF HashInv

\* The steps about objects leave the hashes.
LEMMA ObjectStepKeepsHashes ==
  ASSUME LookupAssumption, HashInv, ObjectNext
  PROVE  HashInv'
<1>1. ASSUME NEW w \in Workers, NEW o \in Objects, AskObject(w, o) PROVE HashInv'
  <2> DEFINE r == IF Known(o) THEN Resting ELSE [Resting EXCEPT !.pc = "head", !.object = o]
  <2>1. IsCall(r) /\ r.pc \notin Looking
    BY RestIsOk DEF Looking
  <2>2. lookups' = [lookups EXCEPT ![w] = r] /\ UNCHANGED <<clock, disk, hashes, edits>>
    BY <1>1 DEF AskObject
  <2> HIDE DEF r
  <2> QED
    BY <2>1, <2>2, OneTurns
<1>2. ASSUME NEW w \in Workers, NEW o \in Objects, PutObject(w, o) PROVE HashInv'
  <2>1. UNCHANGED <<clock, disk, hashes, edits>>
    BY <1>2 DEF PutObject
  <2>2. CASE UNCHANGED lookups
    BY <2>1, <2>2, HashesUnmoved
  <2>3. CASE lookups' = [lookups EXCEPT ![w] = [Resting EXCEPT !.pc = "mark", !.object = o]]
    <3> DEFINE r == [Resting EXCEPT !.pc = "mark", !.object = o]
    <3>1. IsCall(r) /\ r.pc \notin Looking
      BY RestIsOk DEF Looking
    <3> HIDE DEF r
    <3> QED
      BY <2>1, <2>3, <3>1, OneTurns DEF r
  <2> QED
    BY <1>2, <2>2, <2>3 DEF PutObject
<1>3. ASSUME NEW w \in Workers, NEW o \in Objects, BeginStore(w, o) PROVE HashInv'
  <2> DEFINE r == [Resting EXCEPT !.pc = "fill", !.object = o]
  <2>1. IsCall(r) /\ r.pc \notin Looking
    BY RestIsOk DEF Looking
  <2>2. lookups' = [lookups EXCEPT ![w] = r] /\ UNCHANGED <<clock, disk, hashes, edits>>
    BY <1>3 DEF BeginStore
  <2> HIDE DEF r
  <2> QED
    BY <2>1, <2>2, OneTurns
<1>4. ASSUME NEW w \in Workers, HeadObject(w) PROVE HashInv'
  <2> DEFINE c == lookups[w]
             r == IF c.object \in bucket THEN [c EXCEPT !.pc = "mark"] ELSE Resting
  <2>1. lookups' = [lookups EXCEPT ![w] = r] /\ UNCHANGED <<clock, disk, hashes, edits>>
    BY <1>4 DEF HeadObject
  <2>2. IsCall(c)
    BY DEF HashInv, CallOk
  <2> HIDE DEF c
  <2>3. IsCall(r) /\ r.pc \notin Looking
    BY <2>2, RestIsOk DEF IsCall, Looking
  <2> HIDE DEF r
  <2> QED
    BY <2>1, <2>3, OneTurns
<1>5. ASSUME NEW w \in Workers, MarkUploaded(w) \/ EndStore(w) PROVE HashInv'
  <2>1. lookups' = [lookups EXCEPT ![w] = Resting] /\ UNCHANGED <<clock, disk, hashes, edits>>
    BY <1>5 DEF MarkUploaded, EndStore
  <2> QED
    BY <2>1, OneTurns, RestIsOk DEF Looking
<1>6. ASSUME NEW o \in Objects, Expunge(o) \/ RemoveSeen(o) PROVE HashInv'
  BY <1>6, HashesUnmoved DEF Expunge, RemoveSeen
<1>7. CASE ResetSeen \/ CleanupSeen
  BY <1>7, HashesUnmoved DEF ResetSeen, CleanupSeen
<1> QED
  BY <1>1, <1>2, <1>3, <1>4, <1>5, <1>6, <1>7, TickKeepsHashes DEF ObjectNext

\* Every step keeps the invariant of the hashes.
LEMMA HashInvKept ==
  ASSUME LookupAssumption, ~EditsKeepStat, HashInv, [LookupNext]_lookupVars
  PROVE  HashInv'
<1>1. CASE \E m \in Machines, f \in Files : Edit(m, f)
  BY <1>1, EditKeeps
<1>2. ASSUME NEW w \in Workers, NEW m \in Machines, NEW F \in SUBSET Files, Stat(w, m, F)
      PROVE  HashInv'
  BY <1>2, StatKeeps
<1>3. ASSUME NEW w \in Workers, GetHash(w) \/ ReadFile(w) \/ PutHashes(w) PROVE HashInv'
  BY <1>3, GetHashKeeps, ReadFileKeeps, PutHashesKeeps
<1>4. ASSUME NEW k, DeleteHash(k) PROVE HashInv'
  BY <1>4, RemovingKeeps DEF DeleteHash
<1>5. CASE ClearHashes
  BY <1>5, ClearingKeeps DEF ClearHashes
<1>6. CASE CleanupHashes
  BY <1>6, RemovingKeeps DEF CleanupHashes
<1>7. CASE UNCHANGED lookupVars
  BY <1>7, HashesUnmoved DEF lookupVars
<1> QED
  BY <1>1, <1>2, <1>3, <1>4, <1>5, <1>6, <1>7, TickKeepsHashes, ObjectStepKeepsHashes
  DEF LookupNext, HashNext

-----------------------------------------------------------------------------
(* The steps about objects *)

\* A step of one worker that leaves the bucket, the table and the day.
LEMMA OneTurnsToObject ==
  ASSUME HashInv, ObjectInv, NEW w \in Workers, NEW r, lookups' = [lookups EXCEPT ![w] = r],
         UNCHANGED <<clock, seen, bucket, present>>,
         r.pc = "mark" => r.object \in DOMAIN present /\ present[r.object] = clock
  PROVE  ObjectInv'
<1>1. \A v \in Workers : lookups'[v] = IF v = w THEN r ELSE lookups[v]
  BY DEF HashInv
<1> QED
  BY <1>1 DEF ObjectInv

\* The steps about files mark no object.
LEMMA HashStepKeepsObjects ==
  ASSUME LookupAssumption, HashInv, ObjectInv, HashNext, ~Tick
  PROVE  ObjectInv'
<1>1. ASSUME NEW m \in Machines, NEW f \in Files, Edit(m, f) PROVE ObjectInv'
  <2>1. UNCHANGED <<clock, seen, bucket, present>>
    BY <1>1 DEF Edit
  <2>2. ASSUME NEW v \in Workers
        PROVE  lookups'[v].pc = lookups[v].pc /\ lookups'[v].object = lookups[v].object
    <3> DEFINE c == lookups[v]
    <3>1. PICK d : lookups'[v] = IF c.machine = m /\ f \in DOMAIN c.during
                                   THEN [c EXCEPT !.during = d] ELSE c
      BY <1>1 DEF Edit
    <3>2. IsCall(c)
      BY DEF HashInv, CallOk
    <3> HIDE DEF c
    <3>3. lookups'[v].pc = c.pc /\ lookups'[v].object = c.object
      BY <3>1, <3>2 DEF IsCall
    <3> QED
      BY <3>3 DEF c
  <2> QED
    BY <2>1, <2>2 DEF ObjectInv
<1>2. ASSUME NEW w \in Workers, NEW m \in Machines, NEW F \in SUBSET Files, Stat(w, m, F)
      PROVE  ObjectInv'
  <2>1. UNCHANGED <<clock, seen, bucket, present>>
    BY <1>2 DEF Stat
  <2>2. PICK r : lookups' = [lookups EXCEPT ![w] = r] /\ r.pc # "mark"
    <3> DEFINE x == [f \in F |-> disk[m][f].stat]
               y == [f \in F |-> {disk[m][f].content}]
               r == LookOf(m, x, y)
    <3>1. lookups' = [lookups EXCEPT ![w] = r]
      BY <1>2 DEF Stat, LookOf
    <3> HIDE DEF x, y
    <3>2. r.pc # "mark"
      BY NewLook
    <3> HIDE DEF r
    <3> QED
      BY <3>1, <3>2
  <2> QED
    BY <2>1, <2>2, OneTurnsToObject
<1>3. ASSUME NEW w \in Workers, GetHash(w) PROVE ObjectInv'
  <2> DEFINE c == lookups[w]
  <2>1. UNCHANGED <<clock, seen, bucket, present>> /\ c.pc = "get" /\ IsCall(c)
    BY <1>3 DEF GetHash, Going, HashInv, CallOk
  <2>2. \/ lookups' = [lookups EXCEPT ![w].pc = "read"]
        \/ \E k : lookups' = [lookups EXCEPT ![w].known = k]
    BY <1>3 DEF GetHash
  <2>3. \/ lookups' = [lookups EXCEPT ![w] = [c EXCEPT !.pc = "read"]]
        \/ \E k : lookups' = [lookups EXCEPT ![w] = [c EXCEPT !.known = k]]
    BY <2>2
  <2> HIDE DEF c
  <2>4. PICK r : lookups' = [lookups EXCEPT ![w] = r] /\ r.pc # "mark"
    BY <2>1, <2>3 DEF IsCall
  <2> QED
    BY <2>1, <2>4, OneTurnsToObject
<1>4. ASSUME NEW w \in Workers, ReadFile(w) PROVE ObjectInv'
  <2> DEFINE c == lookups[w]
  <2>1. UNCHANGED <<clock, seen, bucket, present>> /\ IsCall(c)
    BY <1>4 DEF ReadFile, HashInv, CallOk
  <2>2. \/ lookups' = [lookups EXCEPT ![w] = Resting]
        \/ \E k : lookups' = [lookups EXCEPT ![w] = [c EXCEPT !.pc = "put", !.known = k]]
    BY <1>4 DEF ReadFile
  <2> HIDE DEF c
  <2>3. ASSUME NEW k PROVE [c EXCEPT !.pc = "put", !.known = k].pc = "put"
    <3>1. PICK b : b = [c EXCEPT !.pc = "put"]
      OBVIOUS
    <3>2. IsCall(b) /\ b.pc = "put"
      BY <2>1, <3>1 DEF IsCall
    <3>3. [b EXCEPT !.known = k].pc = "put"
      BY <3>2 DEF IsCall
    <3> QED
      BY <3>1, <3>3
  <2>4. PICK r : lookups' = [lookups EXCEPT ![w] = r] /\ r.pc # "mark"
    <3>1. CASE lookups' = [lookups EXCEPT ![w] = Resting]
      BY <3>1, RestIsOk
    <3>2. ASSUME NEW k, lookups' = [lookups EXCEPT ![w] = [c EXCEPT !.pc = "put", !.known = k]]
          PROVE  \E r : lookups' = [lookups EXCEPT ![w] = r] /\ r.pc # "mark"
      <4> DEFINE r == [c EXCEPT !.pc = "put", !.known = k]
      <4>1. lookups' = [lookups EXCEPT ![w] = r] /\ r.pc # "mark"
        BY <2>3, <3>2
      <4> HIDE DEF r
      <4> QED
        BY <4>1
    <3> QED
      BY <2>2, <3>1, <3>2
  <2> QED
    BY <2>1, <2>4, OneTurnsToObject
<1>5. ASSUME NEW w \in Workers, PutHashes(w) PROVE ObjectInv'
  BY <1>5, RestIsOk, OneTurnsToObject DEF PutHashes
<1>6. CASE (\E k \in DOMAIN hashes : DeleteHash(k)) \/ ClearHashes \/ CleanupHashes
  BY <1>6 DEF DeleteHash, ClearHashes, CleanupHashes, ObjectInv
<1> QED
  BY <1>1, <1>2, <1>3, <1>4, <1>5, <1>6 DEF HashNext

\* A day passes, which no worker does between the answer of the bucket and its mark.
LEMMA TickKeepsObjects ==
  ASSUME HashInv, ObjectInv, Tick
  PROVE  ObjectInv'
<1>1. /\ clock \in Nat /\ clock' = clock + 1 /\ UNCHANGED <<seen, bucket, lookups>>
      /\ DOMAIN present' = DOMAIN present
      /\ \A o \in DOMAIN present : present'[o] = IF o \in bucket THEN clock + 1 ELSE present[o]
      /\ \A w \in Workers : lookups[w].pc # "mark"
  BY DEF Tick, HashInv
<1>2. \A o \in DOMAIN present' : present'[o] \in 0 .. clock' /\ present'[o] >= present[o]
  BY <1>1 DEF ObjectInv
<1>3. \A o \in DOMAIN seen' : o \in DOMAIN present' /\ seen'[o] \in 0 .. present'[o]
  BY <1>1, <1>2 DEF ObjectInv
<1>4. \A o \in bucket' : o \in DOMAIN present' /\ present'[o] = clock'
  BY <1>1 DEF ObjectInv
<1> QED
  BY <1>1, <1>2, <1>3, <1>4 DEF ObjectInv

\* Entries of the table of objects are taken out.
LEMMA ForgettingKeeps ==
  ASSUME ObjectInv, NEW S, seen' = Drop(seen, S) \/ seen' = <<>>,
         UNCHANGED <<clock, bucket, present, lookups>>
  PROVE  ObjectInv'
<1>1. \A o \in DOMAIN seen' : o \in DOMAIN seen /\ seen'[o] = seen[o]
  BY DropFacts
<1> QED
  BY <1>1 DEF ObjectInv

\* A worker stores an object: it has been in the bucket today.
LEMMA PutObjectKeeps ==
  ASSUME HashInv, ObjectInv, NEW w \in Workers, NEW o \in Objects, PutObject(w, o)
  PROVE  ObjectInv'
<1>1. UNCHANGED <<clock, seen>> /\ clock \in Nat
  BY DEF PutObject, HashInv
<1>2. CASE UNCHANGED <<bucket, present, lookups>>
  BY <1>1, <1>2 DEF ObjectInv
<1>3. CASE /\ bucket' = bucket \cup {o} /\ present' = Insert(present, o, clock)
           /\ lookups' = [lookups EXCEPT ![w] = [Resting EXCEPT !.pc = "mark", !.object = o]]
  <2> DEFINE r == [Resting EXCEPT !.pc = "mark", !.object = o]
  <2>1. r.object = o
    BY RestIsOk
  <2> HIDE DEF r
  <2>2. \A v \in Workers : lookups'[v] = IF v = w THEN r ELSE lookups[v]
    BY <1>3 DEF HashInv, r
  <2>3. /\ DOMAIN present' = DOMAIN present \cup {o}
        /\ \A p \in DOMAIN present' : present'[p] = IF p = o THEN clock ELSE present[p]
    BY <1>3 DEF Insert
  <2>4. \A p \in DOMAIN present' : present'[p] \in 0 .. clock
    BY <1>1, <2>3 DEF ObjectInv
  <2>5. \A p \in DOMAIN seen : p \in DOMAIN present' /\ seen[p] \in 0 .. present'[p]
    BY <1>1, <2>3 DEF ObjectInv
  <2>6. \A p \in bucket' : p \in DOMAIN present' /\ present'[p] = clock
    BY <1>3, <2>3 DEF ObjectInv
  <2>7. \A v \in Workers : lookups'[v].pc = "mark" =>
          lookups'[v].object \in DOMAIN present' /\ present'[lookups'[v].object] = clock
    BY <2>1, <2>2, <2>3 DEF ObjectInv
  <2> QED
    BY <1>1, <2>4, <2>5, <2>6, <2>7 DEF ObjectInv
<1> QED
  BY <1>2, <1>3 DEF PutObject

\* It marks the object, which was there when the bucket answered.
LEMMA MarkKeeps ==
  ASSUME HashInv, ObjectInv, NEW w \in Workers, MarkUploaded(w)
  PROVE  ObjectInv'
<1> DEFINE o == lookups[w].object
<1>1. UNCHANGED <<clock, bucket, present>> /\ clock \in Nat /\ seen' \in {Insert(seen, o, clock), seen}
  BY DEF MarkUploaded, HashInv
<1>2. o \in DOMAIN present /\ present[o] = clock
  BY DEF MarkUploaded, Going, ObjectInv
<1>3. \A v \in Workers : lookups'[v] = IF v = w THEN Resting ELSE lookups[v]
  BY DEF MarkUploaded, HashInv
<1> HIDE DEF o
<1>4. \A p \in DOMAIN seen' : \/ p = o /\ seen'[p] = clock
                              \/ p \in DOMAIN seen /\ seen'[p] = seen[p]
  BY <1>1 DEF Insert
<1>5. \A p \in DOMAIN seen' : p \in DOMAIN present' /\ seen'[p] \in 0 .. present'[p]
  BY <1>1, <1>2, <1>4 DEF ObjectInv
<1> QED
  BY <1>1, <1>3, <1>5, RestIsOk DEF ObjectInv

\* The steps about objects.
LEMMA ObjectStepKeepsObjects ==
  ASSUME HashInv, ObjectInv, ObjectNext
  PROVE  ObjectInv'
<1>1. ASSUME NEW w \in Workers, NEW o \in Objects, AskObject(w, o) PROVE ObjectInv'
  <2> DEFINE r == IF Known(o) THEN Resting ELSE [Resting EXCEPT !.pc = "head", !.object = o]
  <2>1. r.pc # "mark"
    BY RestIsOk
  <2>2. lookups' = [lookups EXCEPT ![w] = r] /\ UNCHANGED <<clock, seen, bucket, present>>
    BY <1>1 DEF AskObject
  <2> HIDE DEF r
  <2> QED
    BY <2>1, <2>2, OneTurnsToObject
<1>2. ASSUME NEW w \in Workers, NEW o \in Objects, BeginStore(w, o) PROVE ObjectInv'
  <2> DEFINE r == [Resting EXCEPT !.pc = "fill", !.object = o]
  <2>1. r.pc # "mark"
    BY RestIsOk
  <2>2. lookups' = [lookups EXCEPT ![w] = r] /\ UNCHANGED <<clock, seen, bucket, present>>
    BY <1>2 DEF BeginStore
  <2> HIDE DEF r
  <2> QED
    BY <2>1, <2>2, OneTurnsToObject
<1>3. ASSUME NEW w \in Workers, HeadObject(w) PROVE ObjectInv'
  <2> DEFINE c == lookups[w]
             r == IF c.object \in bucket THEN [c EXCEPT !.pc = "mark"] ELSE Resting
  <2>1. lookups' = [lookups EXCEPT ![w] = r] /\ UNCHANGED <<clock, seen, bucket, present>>
    BY <1>3 DEF HeadObject
  <2>2. IsCall(c)
    BY DEF HashInv, CallOk
  <2> HIDE DEF c
  <2>3. r.pc = "mark" => r.object \in DOMAIN present /\ present[r.object] = clock
    <3>1. [c EXCEPT !.pc = "mark"].object = c.object
      BY <2>2 DEF IsCall
    <3>2. \A o \in bucket : o \in DOMAIN present /\ present[o] = clock
      BY DEF ObjectInv
    <3> QED
      BY <3>1, <3>2, RestIsOk
  <2> HIDE DEF r
  <2> QED
    BY <2>1, <2>3, OneTurnsToObject
<1>4. ASSUME NEW w \in Workers, EndStore(w) PROVE ObjectInv'
  BY <1>4, OneTurnsToObject, RestIsOk DEF EndStore
<1>5. ASSUME NEW o \in Objects, Expunge(o) PROVE ObjectInv'
  BY <1>5 DEF Expunge, ObjectInv
<1>6. ASSUME NEW o \in Objects, RemoveSeen(o) PROVE ObjectInv'
  BY <1>6, ForgettingKeeps DEF RemoveSeen
<1>7. CASE ResetSeen \/ CleanupSeen
  BY <1>7, ForgettingKeeps DEF ResetSeen, CleanupSeen
<1> QED
  BY <1>1, <1>2, <1>3, <1>4, <1>5, <1>6, <1>7, TickKeepsObjects, PutObjectKeeps, MarkKeeps
  DEF ObjectNext

\* Every step keeps the invariant of the objects.
LEMMA ObjectInvKept ==
  ASSUME LookupAssumption, HashInv, ObjectInv, [LookupNext]_lookupVars
  PROVE  ObjectInv'
<1>1. CASE UNCHANGED lookupVars
  BY <1>1 DEF lookupVars, ObjectInv
<1>2. CASE HashNext /\ ~Tick
  BY <1>2, HashStepKeepsObjects
<1> QED
  BY <1>1, <1>2, ObjectStepKeepsObjects, TickKeepsObjects DEF LookupNext

\* Nothing has been stored at first.
LEMMA InitObjectInv ==
  ASSUME LookupInit
  PROVE  ObjectInv
<1>1. /\ seen = <<>> /\ present = <<>> /\ bucket = {}
      /\ \A w \in Workers : lookups[w] = Resting
  BY DEF LookupInit, HashInit, ObjectInit
<1>2. \A o : o \notin DOMAIN seen /\ o \notin DOMAIN present
  BY <1>1
<1> QED
  BY <1>1, <1>2, RestIsOk DEF ObjectInv

-----------------------------------------------------------------------------
(* The theorems *)

\* The inductive invariant: what is stored, or about to be, under the stat a file
\* has is its content, and what is known of an object was so.
LEMMA LookupInvariant ==
  LookupAssumption /\ ~EditsKeepStat => (LookupSpec => [](HashInv /\ ObjectInv))
<1> SUFFICES ASSUME LookupAssumption, ~EditsKeepStat
             PROVE  LookupSpec => [](HashInv /\ ObjectInv)
  OBVIOUS
<1>1. LookupInit => HashInv /\ ObjectInv
  BY InitHashInv, InitObjectInv DEF LookupInit
<1>2. HashInv /\ ObjectInv /\ [LookupNext]_lookupVars => (HashInv /\ ObjectInv)'
  BY HashInvKept, ObjectInvKept
<1> QED
  BY <1>1, <1>2, PTL DEF LookupSpec

\* The answers follow from it.
LEMMA AnswersFollow ==
  ASSUME LookupAssumption, HashInv, ObjectInv
  PROVE  AnswersWereTrue
<1>1. CachedHashIsOfFile
  <2> SUFFICES ASSUME NEW w \in Workers, lookups[w].pc \in {"get", "read"},
                      NEW f \in DOMAIN lookups[w].known \ Missing(lookups[w])
               PROVE  lookups[w].known[f] \in lookups[w].during[f]
    BY DEF CachedHashIsOfFile
  <2>1. CallOk(lookups[w], disk, hashes, edits)
    BY DEF HashInv
  <2> QED
    BY <2>1 DEF CallOk, Missing
<1>2. KnownWasThere
  <2> SUFFICES ASSUME NEW o \in Objects, Known(o)
               PROVE  o \in DOMAIN present /\ present[o] + entry_expiry_days >= clock
    BY DEF KnownWasThere
  <2>1. /\ o \in DOMAIN seen /\ o \in DOMAIN present
        /\ seen[o] \in 0 .. present[o] /\ present[o] \in 0 .. clock
    BY DEF Known, ObjectInv
  <2>2. ~(seen[o] + entry_expiry_days < clock)
    BY DEF Known, ObjectExpired
  <2>3. clock \in Nat /\ entry_expiry_days \in Nat
    BY DEF HashInv, LookupAssumption
  <2> QED
    BY <2>1, <2>2, <2>3
<1> QED
  BY <1>1, <1>2 DEF AnswersWereTrue

\* What the two tables answer was true: a hash that is found for a file is that of
\* a content the file had, on the asker's machine, between the look and the
\* answer; and an object that is known was in the bucket not longer ago than
\* entries last (hash_cache.rs: get; s3_check_cache.rs: exists).  It needs that
\* an edit changes the size or the time of the file.
THEOREM AnswersCorrect ==
  LookupAssumption /\ ~EditsKeepStat => (LookupSpec => []AnswersWereTrue)
<1> SUFFICES ASSUME LookupAssumption, ~EditsKeepStat PROVE LookupSpec => []AnswersWereTrue
  OBVIOUS
<1>1. LookupSpec => [](HashInv /\ ObjectInv)
  BY LookupInvariant
<1>2. HashInv /\ ObjectInv => AnswersWereTrue
  BY AnswersFollow
<1> QED
  BY <1>1, <1>2, PTL

\* Days are numbers, whatever an edit keeps.
DaysOk == clock \in Nat /\ \A k \in DOMAIN hashes : hashes[k].expires_at \in Int

\* No step takes this away.
LEMMA DaysKept ==
  ASSUME LookupAssumption, DaysOk, [LookupNext]_lookupVars
  PROVE  DaysOk'
<1>1. ASSUME NEW S, hashes' = Drop(hashes, S) \/ hashes' = <<>>, clock' = clock PROVE DaysOk'
  <2>1. \A k \in DOMAIN hashes' : k \in DOMAIN hashes /\ hashes'[k] = hashes[k]
    BY <1>1, DropFacts
  <2> QED
    BY <1>1, <2>1 DEF DaysOk
<1>2. ASSUME NEW w \in Workers, PutHashes(w) PROVE DaysOk'
  <2>1. PICK keys : hashes' = [k \in DOMAIN hashes \cup keys |->
                        IF k \in keys THEN HashEntry(lookups[w].known[k[2]]) ELSE hashes[k]]
    BY <1>2 DEF PutHashes
  <2>2. \A h : HashEntry(h).expires_at \in Int
    BY DEF HashEntry, DaysOk, LookupAssumption
  <2>3. \A k \in DOMAIN hashes' : hashes'[k].expires_at \in Int
    BY <2>1, <2>2 DEF DaysOk
  <2> QED
    BY <1>2, <2>3 DEF PutHashes, DaysOk
<1>3. CASE \/ \E k \in DOMAIN hashes : DeleteHash(k)
           \/ ClearHashes \/ CleanupHashes
  BY <1>1, <1>3 DEF DeleteHash, ClearHashes, CleanupHashes
<1>4. CASE \/ \E m \in Machines, f \in Files : Edit(m, f)
           \/ \E w \in Workers : \/ \E m \in Machines, F \in SUBSET Files \ {{}} : Stat(w, m, F)
                                 \/ GetHash(w) \/ ReadFile(w)
  BY <1>4 DEF Edit, Stat, GetHash, ReadFile, DaysOk
<1>5. CASE Tick
  BY <1>5 DEF Tick, DaysOk
<1>6. CASE \/ \E w \in Workers : \/ \E o \in Objects : AskObject(w, o) \/ PutObject(w, o) \/ BeginStore(w, o)
                                 \/ HeadObject(w) \/ MarkUploaded(w) \/ EndStore(w)
           \/ \E o \in Objects : Expunge(o) \/ RemoveSeen(o)
           \/ ResetSeen \/ CleanupSeen
  BY <1>6 DEF AskObject, PutObject, BeginStore, HeadObject, MarkUploaded, EndStore, Expunge,
              RemoveSeen, ResetSeen, CleanupSeen, DaysOk
<1>7. CASE UNCHANGED lookupVars
  BY <1>7 DEF lookupVars, DaysOk
<1> QED
  BY <1>2, <1>3, <1>4, <1>5, <1>6, <1>7 DEF LookupNext, HashNext, ObjectNext

\* Cleaning up the table of hashes takes only what has expired.
LEMMA CleanupHashesIsUnseen ==
  ASSUME DaysOk, CleanupHashes
  PROVE  \A k \in DOMAIN hashes : (HashGet(k))' = HashGet(k)
<1> SUFFICES ASSUME NEW k \in DOMAIN hashes PROVE (HashGet(k))' = HashGet(k)
  OBVIOUS
<1>1. /\ clock' = clock
      /\ k \in DOMAIN hashes' <=> k \notin ExpiredHashes
      /\ k \in DOMAIN hashes' => hashes'[k] = hashes[k]
  BY DropFacts DEF CleanupHashes
<1>2. clock \in Int /\ hashes[k].expires_at \in Int
  BY DEF DaysOk
<1>3. k \notin ExpiredHashes <=> ~(hashes[k].expires_at < clock)
  BY DEF ExpiredHashes
<1> QED
  BY <1>1, <1>2, <1>3 DEF HashGet

\* And cleaning up the table of objects.
LEMMA CleanupSeenIsUnseen ==
  ASSUME CleanupSeen
  PROVE  \A o \in Objects : (Known(o))' = Known(o)
<1> SUFFICES ASSUME NEW o \in Objects PROVE (Known(o))' = Known(o)
  OBVIOUS
<1>1. /\ clock' = clock
      /\ o \in DOMAIN seen' <=> o \in DOMAIN seen /\ o \notin ExpiredObjects
      /\ o \in DOMAIN seen' => seen'[o] = seen[o]
  BY DropFacts DEF CleanupSeen
<1>2. o \in DOMAIN seen => (o \in ExpiredObjects <=> ObjectExpired(o))
  BY DEF ExpiredObjects
<1> QED
  BY <1>1, <1>2 DEF Known, ObjectExpired

\* Cleaning up is not seen: what the tables answered before, they answer after it
\* (hash_cache.rs, s3_check_cache.rs: cleanup_expired).
THEOREM CleanupCorrect == LookupAssumption => (LookupSpec => CleanupIsUnseen)
<1> SUFFICES ASSUME LookupAssumption PROVE LookupSpec => CleanupIsUnseen
  OBVIOUS
<1> DEFINE Unseen == /\ \A k \in DOMAIN hashes : (HashGet(k))' = HashGet(k)
                     /\ \A o \in Objects : (Known(o))' = Known(o)
<1>1. ASSUME DaysOk, CleanupHashes PROVE Unseen
  <2>1. \A k \in DOMAIN hashes : (HashGet(k))' = HashGet(k)
    BY <1>1, CleanupHashesIsUnseen
  <2>2. \A o \in Objects : (Known(o))' = Known(o)
    BY <1>1 DEF CleanupHashes, Known, ObjectExpired
  <2> QED
    BY <2>1, <2>2
<1>2. ASSUME CleanupSeen PROVE Unseen
  <2>1. \A k \in DOMAIN hashes : (HashGet(k))' = HashGet(k)
    BY <1>2 DEF CleanupSeen, HashGet
  <2>2. \A o \in Objects : (Known(o))' = Known(o)
    BY <1>2, CleanupSeenIsUnseen
  <2> QED
    BY <2>1, <2>2
<1>3. LookupInit => DaysOk
  <2>1. LookupInit => clock = 0 /\ hashes = <<>>
    BY DEF LookupInit, HashInit
  <2> QED
    BY <2>1 DEF DaysOk
<1>4. DaysOk /\ [LookupNext]_lookupVars => DaysOk'
  BY DaysKept
<1>5. DaysOk /\ [LookupNext]_lookupVars => [CleanupHashes \/ CleanupSeen => Unseen]_lookupVars
  BY <1>1, <1>2
<1> QED
  BY <1>3, <1>4, <1>5, PTL DEF LookupSpec, CleanupIsUnseen

=============================================================================
