---------------------------- MODULE HttpClientProofs ----------------------------
(****************************************************************************)
(* Theorems about HttpClient, for responses of any length, any chunks and   *)
(* any segments.                                                            *)
(****************************************************************************)
EXTENDS HttpClient, OrdinalsProofs, SequenceTheorems

--------------------------------------------------------------------------------
(* What the parts of a response look like put together.                     *)

\* The first n parts put together, for each n.
Joined(parts, g) ==
    /\ g[0] = <<>>
    /\ \A n \in 1 .. Len(parts) : g[n] = g[n - 1] \o parts[n]

\* FlattenSeq puts the parts together one after the other.
LEMMA Flattening ==
    ASSUME NEW S, NEW parts \in Seq(Seq(S))
    PROVE  \E g \in [0 .. Len(parts) -> Seq(S)] :
                Joined(parts, g) /\ FlattenSeq(parts) = g[Len(parts)]
<1>. DEFINE N == Len(parts)
            Upto(m, f) == f = [i \in 1 .. m |-> IF i = 1 THEN parts[i] ELSE f[i - 1] \o parts[i]]
            Runs(m) == \E f : Upto(m, f)
<1>0. N \in Nat /\ \A i \in 1 .. N : parts[i] \in Seq(S)
  OBVIOUS
<1>1. Runs(0)
  <2>1. Upto(0, [i \in 1 .. 0 |-> <<>>])
    BY SMTT(20)
  <2>. QED BY <2>1
<1>2. ASSUME NEW m \in Nat, Runs(m) PROVE Runs(m + 1)
  <2>1. PICK f : Upto(m, f)
    BY <1>2
  <2>. DEFINE g == [i \in 1 .. m + 1 |->
                        IF i = m + 1 THEN IF i = 1 THEN parts[i] ELSE f[m] \o parts[i]
                        ELSE f[i]]
              h == [i \in 1 .. m + 1 |-> IF i = 1 THEN parts[i] ELSE g[i - 1] \o parts[i]]
  <2>2. ASSUME NEW i \in 1 .. m + 1 PROVE g[i] = h[i]
    <3>1. CASE i = m + 1
      <4>1. i # 1 => g[i - 1] = f[m]
        BY <3>1
      <4>. QED BY <3>1, <4>1
    <3>2. CASE i # m + 1
      <4>1. i \in 1 .. m /\ g[i] = f[i]
        BY <3>2
      <4>2. f[i] = IF i = 1 THEN parts[i] ELSE f[i - 1] \o parts[i]
        BY <2>1, <4>1
      <4>3. i # 1 => g[i - 1] = f[i - 1]
        BY <4>1
      <4>. QED BY <4>1, <4>2, <4>3
    <3>. QED BY <3>1, <3>2
  <2>3. g = h
    <3>1. g = [i \in 1 .. m + 1 |-> g[i]] /\ h = [i \in 1 .. m + 1 |-> h[i]]
      OBVIOUS
    <3>. HIDE DEF g, h
    <3>. QED BY <2>2, <3>1
  <2>. QED BY <2>3
<1>3. Runs(N)
  <2>. DEFINE Bad == {m \in Nat : ~Runs(m)}
  <2>. HIDE DEF Runs
  <2>. SUFFICES ASSUME N \in Bad PROVE FALSE
    BY <1>0
  <2>1. PICK m \in Bad : \A q \in Bad : m <= q
    BY LeastNat
  <2>2. m \in Nat /\ m # 0 /\ m - 1 \in Nat /\ m - 1 \notin Bad
    BY <1>1, <2>1
  <2>. QED BY <1>2, <2>1, <2>2
<1>. DEFINE flat == CHOOSE f : Upto(N, f)
<1>4. Upto(N, flat)
  <2>. HIDE DEF Upto
  <2>. QED BY <1>3
<1>5. FlattenSeq(parts) = IF N = 0 THEN parts ELSE flat[N]
  BY DEF FlattenSeq
<1>. DEFINE g == [n \in 0 .. N |-> IF n = 0 THEN <<>> ELSE flat[n]]
<1>6. \A i \in 1 .. N : flat[i] = IF i = 1 THEN parts[i] ELSE flat[i - 1] \o parts[i]
  BY <1>4
<1>. HIDE DEF flat, N
<1>7. /\ g[0] = <<>>
      /\ \A n \in 1 .. N : g[n] = g[n - 1] \o parts[n]
  <2>1. g[0] = <<>>
    BY <1>0
  <2>2. \A n \in 1 .. N : g[n] = flat[n]
    BY <1>0
  <2>. HIDE DEF g
  <2>3. ASSUME NEW n \in 1 .. N PROVE g[n] = g[n - 1] \o parts[n]
    <3>1. CASE n = 1
      <4>1. flat[n] = parts[n] /\ parts[n] \in Seq(S) /\ n - 1 = 0
        BY <1>0, <1>6, <3>1
      <4>2. <<>> \o parts[n] = parts[n]
        BY <4>1
      <4>. QED BY <2>1, <2>2, <4>1, <4>2
    <3>2. CASE n # 1
      <4>1. n - 1 \in 1 .. N
        BY <1>0, <3>2
      <4>. QED BY <1>6, <2>2, <3>2, <4>1
    <3>. QED BY <3>1, <3>2
  <2>. QED BY <2>1, <2>3
<1>8. \A n \in 0 .. N : g[n] \in Seq(S)
  <2>. DEFINE Bad == {m \in 0 .. N : g[m] \notin Seq(S)}
  <2>. HIDE DEF g
  <2>. SUFFICES ASSUME Bad # {} PROVE FALSE
    OBVIOUS
  <2>0. Bad \subseteq Nat /\ 0 \notin Bad
    <3>1. <<>> \in Seq(S)
      OBVIOUS
    <3>2. Bad \subseteq Nat
      BY <1>0
    <3>3. 0 \notin Bad
      BY <1>7, <3>1
    <3>. QED BY <3>2, <3>3
  <2>1. PICK m \in Bad : \A q \in Bad : m <= q
    BY <2>0, LeastNat
  <2>2. m # 0
    BY <2>0
  <2>3. m \in 1 .. N /\ m - 1 \in 0 .. N /\ m - 1 \notin Bad
    BY <1>0, <2>1, <2>2
  <2>4. g[m - 1] \in Seq(S) /\ parts[m] \in Seq(S)
    BY <1>0, <2>3
  <2>5. g[m - 1] \o parts[m] \in Seq(S)
    BY <2>4
  <2>. QED BY <1>7, <2>1, <2>3, <2>5
<1>9. FlattenSeq(parts) = g[N]
  <2>1. CASE N = 0
    BY <1>5, <2>1 DEF N
  <2>2. CASE N # 0
    BY <1>0, <1>5, <2>2
  <2>. QED BY <2>1, <2>2
<1>10. g \in [0 .. N -> Seq(S)]
  <2>1. DOMAIN g = 0 .. N /\ g = [n \in 0 .. N |-> g[n]]
    OBVIOUS
  <2>. HIDE DEF g
  <2>. QED BY <1>8, <2>1
<1>. HIDE DEF g
<1>. QED BY <1>7, <1>9, <1>10 DEF Joined, N

\* The n-th place of two sequences put together.
LEMMA Concatenated ==
    ASSUME NEW S, NEW a \in Seq(S), NEW b \in Seq(S)
    PROVE  /\ a \o b \in Seq(S)
           /\ Len(a \o b) = Len(a) + Len(b) /\ Len(a) \in Nat /\ Len(b) \in Nat
           /\ \A i \in 1 .. Len(a) : (a \o b)[i] = a[i]
           /\ \A i \in 1 .. Len(b) : (a \o b)[Len(a) + i] = b[i]
<1>1. /\ a \o b \in Seq(S) /\ Len(a \o b) = Len(a) + Len(b)
      /\ Len(a) \in Nat /\ Len(b) \in Nat
  OBVIOUS
<1>2. \A i \in 1 .. Len(a) + Len(b) :
            (a \o b)[i] = IF i <= Len(a) THEN a[i] ELSE b[i - Len(a)]
  BY ConcatProperties
<1>3. ASSUME NEW i \in 1 .. Len(a) PROVE (a \o b)[i] = a[i]
  BY <1>1, <1>2
<1>4. ASSUME NEW i \in 1 .. Len(b) PROVE (a \o b)[Len(a) + i] = b[i]
  <2>1. Len(a) + i \in 1 .. Len(a) + Len(b) /\ ~(Len(a) + i <= Len(a))
        /\ (Len(a) + i) - Len(a) = i
    BY <1>1
  <2>. QED BY <1>2, <2>1
<1>. QED BY <1>1, <1>3, <1>4

\* Each part stands where the parts before it end.
Stand(parts, g, k, j) ==
    /\ Len(g[k]) = Len(g[k - 1]) + Len(parts[k])
    /\ Len(g[k]) <= Len(g[j])
    /\ \A i \in 1 .. Len(parts[k]) : g[j][Len(g[k - 1]) + i] = parts[k][i]

\* Part k stands after the parts before it, in every concatenation that has it.
LEMMA PartsStand ==
    ASSUME NEW S, NEW parts \in Seq(Seq(S)), NEW g \in [0 .. Len(parts) -> Seq(S)],
           Joined(parts, g), NEW k \in 1 .. Len(parts), NEW j \in k .. Len(parts)
    PROVE  Stand(parts, g, k, j)
<1>. DEFINE N == Len(parts)
            part == parts[k]
            from == Len(g[k - 1])
            Stands(n) == /\ from + Len(part) <= Len(g[n])
                         /\ \A i \in 1 .. Len(part) : g[n][from + i] = part[i]
<1>0. /\ N \in Nat /\ \A n \in 0 .. N : g[n] \in Seq(S) /\ Len(g[n]) \in Nat
      /\ \A n \in 1 .. N : parts[n] \in Seq(S) /\ Len(parts[n]) \in Nat
  <2>1. N \in Nat
    OBVIOUS
  <2>2. \A n \in 0 .. N : g[n] \in Seq(S)
    OBVIOUS
  <2>3. \A n \in 1 .. N : parts[n] \in Seq(S)
    OBVIOUS
  <2>4. \A s \in Seq(S) : Len(s) \in Nat
    OBVIOUS
  <2>. QED BY <2>1, <2>2, <2>3, <2>4
<1>1. \A n \in 1 .. N : n - 1 \in 0 .. N /\ g[n] = g[n - 1] \o parts[n]
  <2>1. \A n \in 1 .. N : n - 1 \in 0 .. N
    BY <1>0
  <2>2. \A n \in 1 .. N : g[n] = g[n - 1] \o parts[n]
    BY DEF Joined
  <2>. QED BY <2>1, <2>2
<1>2. /\ k \in 1 .. N /\ j \in k .. N /\ part \in Seq(S) /\ Len(part) \in Nat
      /\ from \in Nat /\ g[k] = g[k - 1] \o part /\ g[k - 1] \in Seq(S)
  BY <1>0, <1>1
<1>. HIDE DEF N, part
<1>3. Len(g[k]) = from + Len(part) /\ Stands(k)
  BY <1>2, Concatenated
<1>. HIDE DEF from
<1>4. ASSUME NEW n \in k + 1 .. N, Stands(n - 1) PROVE Stands(n)
  <2>1. /\ n \in 1 .. N /\ g[n] = g[n - 1] \o parts[n]
        /\ g[n - 1] \in Seq(S) /\ parts[n] \in Seq(S)
    <3>1. n \in 1 .. N /\ n - 1 \in 0 .. N
      BY <1>0, <1>2
    <3>. QED BY <1>0, <1>1, <3>1
  <2>2. /\ Len(g[n]) = Len(g[n - 1]) + Len(parts[n])
        /\ Len(g[n - 1]) \in Nat /\ Len(parts[n]) \in Nat
        /\ \A i \in 1 .. Len(g[n - 1]) : g[n][i] = g[n - 1][i]
    <3>. DEFINE a == g[n - 1]
                b == parts[n]
    <3>1. a \in Seq(S) /\ b \in Seq(S) /\ g[n] = a \o b
      BY <2>1
    <3>. HIDE DEF a, b
    <3>2. /\ Len(a \o b) = Len(a) + Len(b) /\ Len(a) \in Nat /\ Len(b) \in Nat
          /\ \A i \in 1 .. Len(a) : (a \o b)[i] = a[i]
      BY <3>1, Concatenated
    <3>. QED BY <3>1, <3>2 DEF a, b
  <2>3. \A i \in 1 .. Len(part) : from + i \in 1 .. Len(g[n - 1])
    BY <1>2, <1>4, <2>2
  <2>4. from + Len(part) <= Len(g[n])
    <3>1. from + Len(part) <= Len(g[n - 1])
      BY <1>4
    <3>. DEFINE before == Len(g[n - 1])
                more == Len(parts[n])
                after == Len(g[n])
                end == from + Len(part)
    <3>2. after = before + more /\ before \in Nat /\ more \in Nat /\ end <= before
      BY <2>2, <3>1
    <3>3. end \in Nat
      BY <1>2
    <3>. HIDE DEF before, more, after, end
    <3>4. end <= after
      BY <3>2, <3>3
    <3>. QED BY <3>4 DEF after, end
  <2>5. ASSUME NEW i \in 1 .. Len(part) PROVE g[n][from + i] = part[i]
    <3>1. g[n][from + i] = g[n - 1][from + i]
      BY <2>2, <2>3
    <3>2. g[n - 1][from + i] = part[i]
      BY <1>4
    <3>. QED BY <3>1, <3>2
  <2>. QED BY <2>4, <2>5
<1>5. Stands(j)
  <2>. DEFINE Bad == {n \in k .. N : ~Stands(n)}
  <2>. HIDE DEF Stands
  <2>. SUFFICES ASSUME j \in Bad PROVE FALSE
    BY <1>2
  <2>0. Bad \subseteq Nat
    BY <1>2
  <2>1. PICK n \in Bad : \A q \in Bad : n <= q
    BY <2>0, LeastNat
  <2>2. n \in k + 1 .. N /\ n - 1 \in k .. N /\ n - 1 \notin Bad
    BY <1>0, <1>2, <1>3, <2>1
  <2>. QED BY <1>4, <2>1, <2>2
<1>. QED BY <1>3, <1>5 DEF from, part, Stand

--------------------------------------------------------------------------------
(* The wire.                                                                *)

Unit == {"status", "chunked", "length", "none", "size", "junk", "data", "crlf"} \X Nat

\* Chunk k of a chunked response begins after place p[k - 1]; g[k] is the data of the
\* first k chunks.
Layout(r, p, g) ==
    LET content == Content(r)
        N == Len(r.chunks)
    IN  /\ p \in [0 .. N -> Nat] /\ g \in [0 .. N -> Seq(Data)]
        /\ content \in Seq(Unit) /\ Len(content) = p[N] + 3
        /\ p[0] = 0 /\ g[0] = <<>> /\ g[N] = FlattenSeq(r.chunks)
        /\ \A k \in 1 .. N :
            LET chunk == r.chunks[k]
            IN  /\ chunk \in Seq(Data) /\ Len(chunk) \in Nat \ {0}
                /\ p[k] = p[k - 1] + Len(chunk) + 3 /\ p[k] <= p[N]
                /\ g[k] = g[k - 1] \o chunk
                /\ content[p[k - 1] + 1] = <<"size", Len(chunk)>>
                /\ content[p[k - 1] + 2] = CRLF
                /\ \A i \in 1 .. Len(chunk) : content[p[k - 1] + 2 + i] = chunk[i]
        /\ content[p[N] + 1] = <<IF r.malformed THEN "junk" ELSE "size", 0>>
        /\ content[p[N] + 2] = CRLF

\* A response consists of chunks with data in them.
LEMMA ChunksTyped ==
    ASSUME NEW r \in Response
    PROVE  r.chunks \in Seq(Seq(Data) \ {<<>>}) /\ r.chunks \in Seq(Seq(Data))
<1>1. r.chunks \in BoundedSeq(Chunk, MaxChunks)
  BY DEF Response
<1>2. PICK n \in 0 .. MaxChunks : r.chunks \in [1 .. n -> Chunk]
  BY <1>1 DEF BoundedSeq, SeqOf
<1>3. n \in Nat /\ Chunk \subseteq Seq(Data) \ {<<>>}
  BY HttpClientAssumption DEF HttpClientAssumption
<1>. QED BY <1>2, <1>3

\* A chunk on the wire: its size, a CRLF, its data, a CRLF.
LEMMA ChunkUnits ==
    ASSUME NEW c \in Seq(Data)
    PROVE  /\ ChunkOnWire(c) \in Seq(Unit) /\ Len(ChunkOnWire(c)) = Len(c) + 3
           /\ ChunkOnWire(c)[1] = <<"size", Len(c)>> /\ ChunkOnWire(c)[2] = CRLF
           /\ \A i \in 1 .. Len(c) : ChunkOnWire(c)[2 + i] = c[i]
<1>1. Len(c) \in Nat /\ c \in Seq(Unit) /\ CRLF \in Unit /\ <<"size", Len(c)>> \in Unit
  BY DEF Data, CRLF, Unit
<1>. DEFINE head == <<<<"size", Len(c)>>, CRLF>>
<1>2. head \in Seq(Unit) /\ Len(head) = 2 /\ head[1] = <<"size", Len(c)>> /\ head[2] = CRLF
  BY <1>1
<1>. HIDE DEF head
<1>3. /\ head \o c \in Seq(Unit) /\ Len(head \o c) = 2 + Len(c)
      /\ \A i \in 1 .. 2 : (head \o c)[i] = head[i]
      /\ \A i \in 1 .. Len(c) : (head \o c)[2 + i] = c[i]
  <2>1. /\ head \o c \in Seq(Unit) /\ Len(head \o c) = Len(head) + Len(c)
        /\ \A i \in 1 .. Len(head) : (head \o c)[i] = head[i]
        /\ \A i \in 1 .. Len(c) : (head \o c)[Len(head) + i] = c[i]
    <3>1. head \in Seq(Unit) /\ c \in Seq(Unit)
      BY <1>1, <1>2
    <3>. QED BY <3>1, Concatenated
  <2>. QED BY <1>2, <2>1
<1>4. <<CRLF>> \in Seq(Unit) /\ Len(<<CRLF>>) = 1
  BY <1>1
<1>5. /\ (head \o c) \o <<CRLF>> \in Seq(Unit)
      /\ Len((head \o c) \o <<CRLF>>) = 2 + Len(c) + 1
      /\ \A i \in 1 .. 2 + Len(c) : ((head \o c) \o <<CRLF>>)[i] = (head \o c)[i]
  BY <1>3, <1>4, Concatenated
<1>6. ChunkOnWire(c) = (head \o c) \o <<CRLF>>
  BY DEF ChunkOnWire, head
<1>. QED BY <1>1, <1>2, <1>3, <1>5, <1>6

\* Where everything is in a chunked response.
LEMMA LaidOut ==
    ASSUME NEW r \in Response, r.framing = "chunked"
    PROVE  \E p, g : Layout(r, p, g)
<1>. DEFINE N == Len(r.chunks)
            parts == [i \in DOMAIN r.chunks |-> ChunkOnWire(r.chunks[i])]
            content == Content(r)
<1>1. /\ N \in Nat /\ DOMAIN r.chunks = 1 .. N
      /\ \A k \in 1 .. N : r.chunks[k] \in Seq(Data) /\ Len(r.chunks[k]) \in Nat \ {0}
  <2>1. r.chunks \in Seq(Seq(Data) \ {<<>>})
    BY ChunksTyped
  <2>2. \A k \in 1 .. N : r.chunks[k] \in Seq(Data) /\ r.chunks[k] # <<>>
    BY <2>1
  <2>3. \A c \in Seq(Data) : c # <<>> => Len(c) \in Nat \ {0}
    BY EmptySeq
  <2>. QED BY <2>1, <2>2, <2>3
<1>2. PICK g \in [0 .. N -> Seq(Data)] : Joined(r.chunks, g) /\ FlattenSeq(r.chunks) = g[N]
  BY ChunksTyped, Flattening
<1>3. parts \in Seq(Seq(Unit)) /\ Len(parts) = N
      /\ \A k \in 1 .. N : parts[k] = ChunkOnWire(r.chunks[k])
  BY <1>1, ChunkUnits
<1>. HIDE DEF parts
<1>4. PICK f \in [0 .. N -> Seq(Unit)] : Joined(parts, f) /\ FlattenSeq(parts) = f[N]
  BY <1>3, Flattening
<1>. DEFINE p == [k \in 0 .. N |-> Len(f[k])]
<1>5. /\ p \in [0 .. N -> Nat] /\ \A k \in 0 .. N : p[k] = Len(f[k]) /\ f[k] \in Seq(Unit)
      /\ p[0] = 0 /\ g[0] = <<>>
  <2>. HIDE DEF N
  <2>1. \A s \in Seq(Unit) : Len(s) \in Nat
    OBVIOUS
  <2>2. \A k \in 0 .. N : f[k] \in Seq(Unit) /\ Len(f[k]) \in Nat
    BY <1>4, <2>1
  <2>3. f[0] = <<>> /\ g[0] = <<>>
    BY <1>2, <1>4 DEF Joined
  <2>4. Len(<<>>) = 0
    OBVIOUS
  <2>5. 0 \in 0 .. N
    BY <1>1
  <2>. QED BY <2>2, <2>3, <2>4, <2>5
<1>. HIDE DEF N
<1>6. /\ f[N] \in Seq(Unit) /\ LastChunk(r) \in Seq(Unit) /\ Len(LastChunk(r)) = 3
      /\ LastChunk(r)[1] = <<IF r.malformed THEN "junk" ELSE "size", 0>>
      /\ LastChunk(r)[2] = CRLF
      /\ content = f[N] \o LastChunk(r)
  <2>1. f[N] \in Seq(Unit)
    BY <1>1, <1>5
  <2>2. <<IF r.malformed THEN "junk" ELSE "size", 0>> \in Unit /\ CRLF \in Unit
    BY DEF Unit, CRLF
  <2>3. LastChunk(r) = <<<<IF r.malformed THEN "junk" ELSE "size", 0>>, CRLF, CRLF>>
    BY DEF LastChunk
  <2>4. content = f[N] \o LastChunk(r)
    BY <1>4 DEF Content, parts
  <2>. QED BY <2>1, <2>2, <2>3, <2>4
<1>. HIDE DEF content, p
<1>7. /\ content \in Seq(Unit) /\ Len(content) = p[N] + 3
      /\ \A i \in 1 .. p[N] : content[i] = f[N][i]
      /\ \A i \in 1 .. 3 : content[p[N] + i] = LastChunk(r)[i]
  <2>. DEFINE a == f[N]
              b == LastChunk(r)
  <2>1. p[N] = Len(a) /\ a \in Seq(Unit) /\ b \in Seq(Unit) /\ Len(b) = 3 /\ content = a \o b
    BY <1>1, <1>5, <1>6
  <2>. HIDE DEF a, b
  <2>2. /\ a \o b \in Seq(Unit) /\ Len(a \o b) = Len(a) + Len(b)
        /\ \A i \in 1 .. Len(a) : (a \o b)[i] = a[i]
        /\ \A i \in 1 .. Len(b) : (a \o b)[Len(a) + i] = b[i]
    <3>1. a \in Seq(Unit) /\ b \in Seq(Unit)
      BY <2>1
    <3>. QED BY <3>1, Concatenated
  <2>. QED BY <2>1, <2>2 DEF a, b
<1>8. ASSUME NEW k \in 1 .. N
      PROVE  LET chunk == r.chunks[k]
             IN  /\ chunk \in Seq(Data) /\ Len(chunk) \in Nat \ {0}
                 /\ p[k] = p[k - 1] + Len(chunk) + 3 /\ p[k] <= p[N]
                 /\ g[k] = g[k - 1] \o chunk
                 /\ content[p[k - 1] + 1] = <<"size", Len(chunk)>>
                 /\ content[p[k - 1] + 2] = CRLF
                 /\ \A i \in 1 .. Len(chunk) : content[p[k - 1] + 2 + i] = chunk[i]
  <2>. DEFINE chunk == r.chunks[k]
  <2>1. chunk \in Seq(Data) /\ Len(chunk) \in Nat \ {0} /\ g[k] = g[k - 1] \o chunk
    BY <1>1, <1>2 DEF Joined, N
  <2>2. /\ k - 1 \in 0 .. N /\ k \in 0 .. N /\ N \in 0 .. N /\ N \in k .. N
        /\ p[k] = Len(f[k]) /\ p[k - 1] = Len(f[k - 1]) /\ p[N] = Len(f[N])
        /\ p[k] \in Nat /\ p[k - 1] \in Nat /\ p[N] \in Nat
    <3>1. k - 1 \in 0 .. N /\ k \in 0 .. N /\ N \in 0 .. N /\ N \in k .. N
      BY <1>1
    <3>. QED BY <1>5, <3>1
  <2>3. /\ p[k] = p[k - 1] + Len(parts[k]) /\ p[k] <= p[N]
        /\ \A i \in 1 .. Len(parts[k]) : f[N][p[k - 1] + i] = parts[k][i]
    <3>. DEFINE M == Len(parts)
    <3>0. parts \in Seq(Seq(Unit)) /\ f \in [0 .. M -> Seq(Unit)] /\ Joined(parts, f)
      BY <1>3, <1>4
    <3>1. N = M
      BY <1>3
    <3>2. k \in 1 .. M /\ M \in k .. M
      BY <2>2, <3>1
    <3>3. Stand(parts, f, k, M)
      BY <3>0, <3>2, PartsStand
    <3>. HIDE DEF M
    <3>. QED BY <2>2, <3>1, <3>3 DEF Stand
  <2>4. /\ Len(parts[k]) = Len(chunk) + 3
        /\ parts[k][1] = <<"size", Len(chunk)>> /\ parts[k][2] = CRLF
        /\ \A i \in 1 .. Len(chunk) : parts[k][2 + i] = chunk[i]
    <3>1. parts[k] = ChunkOnWire(chunk)
      BY <1>3
    <3>. HIDE DEF chunk
    <3>. QED BY <2>1, <3>1, ChunkUnits
  <2>. HIDE DEF chunk
  <2>5. \A i \in 1 .. Len(chunk) + 3 : content[p[k - 1] + i] = parts[k][i]
    <3>1. \A i \in 1 .. Len(chunk) + 3 : p[k - 1] + i \in 1 .. p[N]
      BY <2>1, <2>2, <2>3, <2>4
    <3>. QED BY <1>7, <2>3, <2>4, <3>1
  <2>6. content[p[k - 1] + 1] = <<"size", Len(chunk)>> /\ content[p[k - 1] + 2] = CRLF
    <3>1. 1 \in 1 .. Len(chunk) + 3 /\ 2 \in 1 .. Len(chunk) + 3
      BY <2>1
    <3>. QED BY <2>4, <2>5, <3>1
  <2>7. ASSUME NEW i \in 1 .. Len(chunk) PROVE content[p[k - 1] + 2 + i] = chunk[i]
    <3>1. 2 + i \in 1 .. Len(chunk) + 3 /\ p[k - 1] + (2 + i) = p[k - 1] + 2 + i
      BY <2>1, <2>2
    <3>2. content[p[k - 1] + (2 + i)] = parts[k][2 + i]
      BY <2>5, <3>1
    <3>. QED BY <2>4, <3>1, <3>2
  <2>8. p[k] = p[k - 1] + Len(chunk) + 3
    BY <2>1, <2>2, <2>3, <2>4
  <2>. QED BY <2>1, <2>3, <2>6, <2>7, <2>8 DEF chunk
<1>9. /\ content[p[N] + 1] = <<IF r.malformed THEN "junk" ELSE "size", 0>>
      /\ content[p[N] + 2] = CRLF
  <2>1. content[p[N] + 1] = LastChunk(r)[1] /\ content[p[N] + 2] = LastChunk(r)[2]
    BY <1>7
  <2>. QED BY <1>6, <2>1
<1>10. Layout(r, p, g)
  BY <1>2, <1>5, <1>7, <1>8, <1>9 DEF Layout, content, N
<1>. QED BY <1>10

--------------------------------------------------------------------------------
(* The loop of decode_chunked_body.                                         *)

Begun == [pos |-> 1, out |-> <<>>, end |-> "none"]

\* One pass of the definition of Decoding over f.
Pass(bytes, f) ==
    [n \in 0 .. Len(bytes) |-> IF n = 0 THEN Begun ELSE DecodeChunk(bytes, f[n - 1])]

\* The loop runs for as many passes as there are units.
LEMMA DecodingDefined ==
    ASSUME NEW S, NEW bytes \in Seq(S)
    PROVE  Decoding(bytes) = Pass(bytes, Decoding(bytes))
<1>. DEFINE Upto(m, f) == f = [n \in 0 .. m |->
                                IF n = 0 THEN Begun ELSE DecodeChunk(bytes, f[n - 1])]
            Runs(m) == \E f : Upto(m, f)
<1>0. Len(bytes) \in Nat
  OBVIOUS
<1>1. Runs(0)
  <2>1. Upto(0, [n \in 0 .. 0 |-> Begun])
    BY SMTT(20)
  <2>. QED BY <2>1
<1>2. ASSUME NEW m \in Nat, Runs(m) PROVE Runs(m + 1)
  <2>1. PICK f : Upto(m, f)
    BY <1>2
  <2>. DEFINE g == [n \in 0 .. m + 1 |->
                        IF n = m + 1 THEN DecodeChunk(bytes, f[m]) ELSE f[n]]
              h == [n \in 0 .. m + 1 |->
                        IF n = 0 THEN Begun ELSE DecodeChunk(bytes, g[n - 1])]
  <2>2. ASSUME NEW n \in 0 .. m + 1 PROVE g[n] = h[n]
    <3>1. CASE n = m + 1
      <4>1. g[n] = DecodeChunk(bytes, f[m]) /\ g[n - 1] = f[m]
        BY <3>1
      <4>2. h[n] = DecodeChunk(bytes, g[n - 1])
        BY <3>1
      <4>. QED BY <3>1, <4>1, <4>2
    <3>2. CASE n = 0
      BY <2>1, <3>2
    <3>3. CASE n \in 1 .. m
      <4>1. g[n] = f[n] /\ g[n - 1] = f[n - 1]
        BY <3>3
      <4>2. f[n] = DecodeChunk(bytes, f[n - 1])
        BY <2>1, <3>3
      <4>3. h[n] = DecodeChunk(bytes, g[n - 1])
        BY <3>3
      <4>. QED BY <4>1, <4>2, <4>3
    <3>. QED BY <3>1, <3>2, <3>3
  <2>3. g = h
    <3>1. g = [n \in 0 .. m + 1 |-> g[n]] /\ h = [n \in 0 .. m + 1 |-> h[n]]
      OBVIOUS
    <3>. HIDE DEF g, h
    <3>. QED BY <2>2, <3>1
  <2>. QED BY <2>3
<1>3. Runs(Len(bytes))
  <2>. DEFINE Bad == {m \in Nat : ~Runs(m)}
  <2>. HIDE DEF Runs
  <2>. SUFFICES ASSUME Len(bytes) \in Bad PROVE FALSE
    BY <1>0
  <2>1. PICK m \in Bad : \A q \in Bad : m <= q
    BY LeastNat
  <2>2. m \in Nat /\ m # 0 /\ m - 1 \in Nat /\ m - 1 \notin Bad
    BY <1>1, <2>1
  <2>. QED BY <1>2, <2>1, <2>2
<1>4. Decoding(bytes) = CHOOSE f : Upto(Len(bytes), f)
  BY DEF Decoding, Begun
<1>5. Upto(Len(bytes), Decoding(bytes))
  <2>. HIDE DEF Upto
  <2>. QED BY <1>3, <1>4
<1>. QED BY <1>5 DEF Pass

\* Where a needle is found, it stands.
LEMMA Found ==
    ASSUME NEW bytes \in Seq(Unit), NEW from \in Nat \ {0},
           NEW i \in find_subslice(bytes, <<CRLF>>, from)
    PROVE  i \in from .. Len(bytes)
BY DEF find_subslice

\* A CRLF right after a unit that is none is the first.
LEMMA FoundNext ==
    ASSUME NEW bytes \in Seq(Unit), NEW from \in Nat \ {0}, from + 1 <= Len(bytes),
           bytes[from] # CRLF, bytes[from + 1] = CRLF
    PROVE  find_subslice(bytes, <<CRLF>>, from) = {from + 1}
<1>0. Len(bytes) \in Nat /\ Len(<<CRLF>>) = 1
  OBVIOUS
<1>1. ASSUME NEW i \in from .. Len(bytes) PROVE SubSeq(bytes, i, i) = <<bytes[i]>>
  <2>1. i \in 1 .. Len(bytes) /\ bytes[i] \in Unit
    BY <1>0
  <2>2. <<bytes[i]>> \in Seq(Unit) /\ Len(<<bytes[i]>>) = 1 /\ <<bytes[i]>>[1] = bytes[i]
    BY <2>1
  <2>3. i \in Int /\ i - i + 1 = 1 /\ \A j \in i .. i : bytes[j] \in Unit
    BY <2>1
  <2>4. /\ SubSeq(bytes, i, i) \in Seq(Unit) /\ Len(SubSeq(bytes, i, i)) = 1
        /\ \A j \in 1 .. 1 : SubSeq(bytes, i, i)[j] = bytes[i + j - 1]
    BY <2>1, <2>3, SubSeqProperties
  <2>5. SubSeq(bytes, i, i)[1] = bytes[i]
    <3>1. 1 \in 1 .. 1 /\ i + 1 - 1 = i
      BY <2>1
    <3>. QED BY <2>4, <3>1
  <2>. DEFINE a == SubSeq(bytes, i, i)
              b == <<bytes[i]>>
  <2>6. a \in Seq(Unit) /\ b \in Seq(Unit) /\ Len(a) = 1 /\ Len(b) = 1 /\ a[1] = b[1]
    BY <2>2, <2>4, <2>5
  <2>. HIDE DEF a, b
  <2>7. Len(a) = Len(b) /\ \A j \in 1 .. Len(a) : a[j] = b[j]
    BY <2>6
  <2>8. a = b
    BY <2>6, <2>7, SeqEqual
  <2>. QED BY <2>8 DEF a, b
<1>. DEFINE found == {i \in from .. Len(bytes) :
                        /\ i + Len(<<CRLF>>) - 1 <= Len(bytes)
                        /\ SubSeq(bytes, i, i + Len(<<CRLF>>) - 1) = <<CRLF>>}
<1>2. found = {i \in from .. Len(bytes) : bytes[i] = CRLF}
  <2>1. ASSUME NEW i \in from .. Len(bytes)
        PROVE  i + Len(<<CRLF>>) - 1 = i
    BY <1>0
  <2>2. \A i \in from .. Len(bytes) : <<bytes[i]>> = <<CRLF>> <=> bytes[i] = CRLF
    OBVIOUS
  <2>3. \A i \in from .. Len(bytes) : i <= Len(bytes)
    BY <1>0
  <2>. QED BY <1>1, <2>1, <2>2, <2>3
<1>3. from + 1 \in found /\ from \notin found
  BY <1>0, <1>2
<1>4. \A i \in found : i \in Nat /\ from <= i
  BY <1>0
<1>5. find_subslice(bytes, <<CRLF>>, from) = {i \in found : \A j \in found : i <= j}
  BY DEF find_subslice
<1>. HIDE DEF found
<1>6. \A i \in found : from + 1 <= i
  BY <1>3, <1>4
<1>. QED BY <1>3, <1>4, <1>5, <1>6

\* The ways a pass can end.
LEMMA PassEnds ==
    ASSUME NEW bytes, NEW q, NEW out
    PROVE  LET next == DecodeChunk(bytes, [pos |-> q, out |-> out, end |-> "none"])
               size == bytes[q][2]
               sized == find_subslice(bytes, <<CRLF>>, q) = {q + 1} /\ bytes[q][1] = "size"
           IN  \/ ~sized /\ next.end = "error"
               \/ sized /\ size = 0 /\ next.end = "ok" /\ next.out = out
               \/ sized /\ size # 0 /\ q + size + 2 > Len(bytes) /\ next.end = "error"
               \/ /\ sized /\ size # 0 /\ ~(q + size + 2 > Len(bytes))
                  /\ next = [pos |-> q + size + 3,
                             out |-> out \o SubSeq(bytes, q + 2, q + size + 1), end |-> "none"]
BY DEF DecodeChunk

\* What the client holds of a response.
Begins(content, bytes) ==
    /\ bytes \in Seq(Unit) /\ Len(bytes) \in Nat /\ Len(bytes) <= Len(content)
    /\ \A i \in 1 .. Len(bytes) : bytes[i] = content[i]

\* From q on, content is a chunk with its size line.
HasChunk(content, q, l, chunk) ==
    /\ q \in Nat \ {0} /\ l \in Nat \ {0} /\ chunk \in Seq(Data) /\ l = Len(chunk)
    /\ q + l + 2 <= Len(content) /\ content[q] = <<"size", l>> /\ content[q + 1] = CRLF
    /\ \A i \in 1 .. l : content[q + 1 + i] = chunk[i]

\* The pass puts the chunk out, or ends with an error on what is not whole.
PutsOut(content, bytes, q, l, chunk, out) ==
    LET next == DecodeChunk(bytes, [pos |-> q, out |-> out, end |-> "none"])
    IN  \/ next.end = "error" /\ bytes # content
        \/ next = [pos |-> q + l + 3, out |-> out \o chunk, end |-> "none"]

\* A pass over a chunk puts it out, or not all of it is there.
LEMMA PassOfChunk ==
    ASSUME NEW content \in Seq(Unit), NEW bytes, Begins(content, bytes), NEW q, NEW l,
           NEW chunk, HasChunk(content, q, l, chunk), NEW out
    PROVE  PutsOut(content, bytes, q, l, chunk, out)
<1>0. /\ q \in Nat \ {0} /\ l \in Nat \ {0} /\ chunk \in Seq(Data) /\ l = Len(chunk)
      /\ q + l + 2 <= Len(content) /\ content[q] = <<"size", l>> /\ content[q + 1] = CRLF
      /\ \A i \in 1 .. l : content[q + 1 + i] = chunk[i]
  BY DEF HasChunk
<1>. DEFINE next == DecodeChunk(bytes, [pos |-> q, out |-> out, end |-> "none"])
            size == bytes[q][2]
            sized == find_subslice(bytes, <<CRLF>>, q) = {q + 1} /\ bytes[q][1] = "size"
<1>1. \/ ~sized /\ next.end = "error"
      \/ sized /\ size = 0 /\ next.end = "ok" /\ next.out = out
      \/ sized /\ size # 0 /\ q + size + 2 > Len(bytes) /\ next.end = "error"
      \/ /\ sized /\ size # 0 /\ ~(q + size + 2 > Len(bytes))
         /\ next = [pos |-> q + size + 3,
                    out |-> out \o SubSeq(bytes, q + 2, q + size + 1), end |-> "none"]
  BY PassEnds
<1>. HIDE DEF next
<1>2. /\ bytes \in Seq(Unit) /\ Len(bytes) \in Nat /\ Len(bytes) <= Len(content)
      /\ \A i \in 1 .. Len(bytes) : bytes[i] = content[i]
  BY DEF Begins
<1>3. content[q] # CRLF /\ content[q][1] = "size" /\ content[q][2] = l
  BY <1>0 DEF CRLF
<1>4. ASSUME bytes = content PROVE sized
  <2>1. q + 1 <= Len(bytes) /\ bytes[q] # CRLF /\ bytes[q + 1] = CRLF
    <3>1. q + 1 <= Len(content)
      BY <1>0
    <3>. QED BY <1>0, <1>3, <1>4, <3>1
  <2>2. find_subslice(bytes, <<CRLF>>, q) = {q + 1}
    BY <1>0, <1>2, <2>1, FoundNext
  <2>. QED BY <1>3, <1>4, <2>2
<1>5. ASSUME sized PROVE size = l
  <2>1. q + 1 \in find_subslice(bytes, <<CRLF>>, q)
    BY <1>5
  <2>2. q + 1 \in q .. Len(bytes)
    BY <1>0, <1>2, <2>1, Found
  <2>3. q \in 1 .. Len(bytes)
    BY <1>0, <1>2, <2>2
  <2>. QED BY <1>2, <1>3, <2>3
<1>. HIDE DEF size
<1>6. ASSUME ~(q + l + 2 > Len(bytes))
      PROVE  SubSeq(bytes, q + 2, q + l + 1) = chunk
  <2>. DEFINE page == SubSeq(bytes, q + 2, q + l + 1)
  <2>1. /\ q + 2 \in Int /\ q + l + 1 \in Int /\ q + l + 1 - (q + 2) + 1 = l
        /\ q + 2 <= q + l + 2 /\ l \in Nat
    BY <1>0
  <2>2. \A i \in q + 2 .. q + l + 1 : bytes[i] \in Unit
    <3>1. \A i \in q + 2 .. q + l + 1 : i \in 1 .. Len(bytes)
      BY <1>0, <1>2, <1>6
    <3>. QED BY <1>2, <3>1
  <2>3. \A i \in 1 .. l : q + 1 + i \in 1 .. Len(bytes) /\ q + 2 + i - 1 = q + 1 + i
    BY <1>0, <1>2, <1>6
  <2>4. page \in Seq(Unit) /\ Len(page) = l /\ \A i \in 1 .. l : page[i] = bytes[q + 2 + i - 1]
    BY <1>0, <1>2, <2>1, <2>2, SubSeqProperties
  <2>. HIDE DEF page
  <2>5. \A i \in 1 .. l : page[i] = chunk[i]
    BY <1>0, <1>2, <2>3, <2>4
  <2>6. chunk \in Seq(Unit)
    <3>1. Data \subseteq Unit
      BY DEF Data, Unit, CRLF
    <3>. QED BY <1>0, <3>1
  <2>7. page = chunk
    <3>1. Len(page) = Len(chunk) /\ \A i \in 1 .. Len(page) : page[i] = chunk[i]
      BY <1>0, <2>4, <2>5
    <3>. QED BY <2>4, <2>6, <3>1, SeqEqual
  <2>. QED BY <2>7 DEF page
<1>7. bytes = content => ~(q + l + 2 > Len(bytes))
  BY <1>0, <1>2
<1>. HIDE DEF sized
<1>8. \/ next.end = "error" /\ bytes # content
      \/ next = [pos |-> q + l + 3, out |-> out \o chunk, end |-> "none"]
  BY <1>0, <1>1, <1>4, <1>5, <1>6, <1>7
<1>. QED BY <1>8 DEF next, PutsOut

\* A pass over the last size line ends the loop; a line that is no number does not, nor
\* one that is not there.
LEMMA PassOfEnd ==
    ASSUME NEW content \in Seq(Unit), NEW bytes, Begins(content, bytes), NEW q \in Nat \ {0},
           q + 1 <= Len(content), NEW word \in {"size", "junk"}, content[q] = <<word, 0>>,
           content[q + 1] = CRLF, NEW out
    PROVE  LET next == DecodeChunk(bytes, [pos |-> q, out |-> out, end |-> "none"])
           IN  \/ next.end = "error" /\ (bytes # content \/ word # "size")
               \/ next.end = "ok" /\ word = "size" /\ next.out = out
<1>. DEFINE next == DecodeChunk(bytes, [pos |-> q, out |-> out, end |-> "none"])
            size == bytes[q][2]
            sized == find_subslice(bytes, <<CRLF>>, q) = {q + 1} /\ bytes[q][1] = "size"
<1>1. \/ ~sized /\ next.end = "error"
      \/ sized /\ size = 0 /\ next.end = "ok" /\ next.out = out
      \/ sized /\ size # 0
  BY PassEnds
<1>. HIDE DEF next
<1>2. /\ bytes \in Seq(Unit) /\ Len(bytes) \in Nat /\ Len(bytes) <= Len(content)
      /\ \A i \in 1 .. Len(bytes) : bytes[i] = content[i]
  BY DEF Begins
<1>3. content[q] # CRLF /\ content[q][1] = word /\ content[q][2] = 0
  BY DEF CRLF
<1>4. ASSUME bytes = content, word = "size" PROVE sized
  <2>1. q + 1 <= Len(bytes) /\ bytes[q] # CRLF /\ bytes[q + 1] = CRLF
    BY <1>2, <1>3, <1>4
  <2>2. find_subslice(bytes, <<CRLF>>, q) = {q + 1}
    BY <1>2, <2>1, FoundNext
  <2>. QED BY <1>3, <1>4, <2>2
<1>5. ASSUME sized PROVE size = 0 /\ word = "size"
  <2>1. q + 1 \in find_subslice(bytes, <<CRLF>>, q)
    BY <1>5
  <2>2. q + 1 \in q .. Len(bytes)
    BY <1>2, <2>1, Found
  <2>3. q \in 1 .. Len(bytes)
    BY <1>2, <2>2
  <2>. QED BY <1>2, <1>3, <1>5, <2>3
<1>. HIDE DEF sized, size
<1>6. \/ next.end = "error" /\ (bytes # content \/ word # "size")
      \/ next.end = "ok" /\ word = "size" /\ next.out = out
  BY <1>1, <1>4, <1>5
<1>. QED BY <1>6 DEF next

\* Where the loop stands after n passes over what is held: it has put out the first n
\* chunks, or it has come to the end of a well-formed response, or not all is there.
Stage(r, p, g, bytes, n) ==
    LET at == Decoding(bytes)[n]
        N == Len(r.chunks)
    IN  /\ at.end \in {"none", "ok", "error"}
        /\ at.end = "none" =>
            n <= N /\ at = [pos |-> p[n] + 1, out |-> g[n], end |-> "none"]
        /\ at.end = "ok" => ~r.malformed /\ at.out = g[N]
        /\ bytes = Content(r) /\ ~r.malformed => at.end # "error"

\* Before the first pass nothing has been put out.
LEMMA StageBegins ==
    ASSUME NEW r \in Response, r.framing = "chunked", NEW p, NEW g, Layout(r, p, g),
           NEW bytes \in Seq(Unit)
    PROVE  Stage(r, p, g, bytes, 0)
<1>1. Decoding(bytes)[0] = Begun
  BY DecodingDefined DEF Pass
<1>2. Len(r.chunks) \in Nat
  BY ChunksTyped
<1>. QED BY <1>1, <1>2 DEF Stage, Begun, Layout

\* A pass goes on from where the one before it stood.
LEMMA StageStep ==
    ASSUME NEW r \in Response, r.framing = "chunked", NEW p, NEW g, Layout(r, p, g),
           NEW bytes, Begins(Content(r), bytes), NEW n \in Nat, n + 1 <= Len(bytes),
           Stage(r, p, g, bytes, n)
    PROVE  Stage(r, p, g, bytes, n + 1)
<1>. DEFINE content == Content(r)
            N == Len(r.chunks)
            at == Decoding(bytes)[n]
            next == Decoding(bytes)[n + 1]
<1>1. N \in Nat /\ bytes \in Seq(Unit) /\ Len(bytes) \in Nat
  BY ChunksTyped DEF Begins
<1>2. next = DecodeChunk(bytes, at)
  <2>1. n + 1 \in 0 .. Len(bytes) /\ n + 1 # 0 /\ (n + 1) - 1 = n
    BY <1>1
  <2>2. Decoding(bytes) = Pass(bytes, Decoding(bytes))
    BY <1>1, DecodingDefined
  <2>3. Pass(bytes, Decoding(bytes))[n + 1] = DecodeChunk(bytes, Decoding(bytes)[(n + 1) - 1])
    BY <2>1 DEF Pass
  <2>. QED BY <2>1, <2>2, <2>3
<1>3. CASE at.end # "none"
  <2>1. next = at
    BY <1>2, <1>3 DEF DecodeChunk
  <2>. QED BY <1>3, <2>1 DEF Stage
<1>4. CASE at.end = "none"
  <2>1. n <= N /\ at = [pos |-> p[n] + 1, out |-> g[n], end |-> "none"]
    BY <1>4 DEF Stage
  <2>2. /\ content \in Seq(Unit) /\ Len(content) = p[N] + 3 /\ p[n] \in Nat /\ p[N] \in Nat
    BY <1>1, <2>1 DEF Layout
  <2>3. CASE n # N
    <3>. DEFINE k == n + 1
                chunk == r.chunks[k]
                l == Len(chunk)
                q == p[n] + 1
    <3>1. k \in 1 .. N /\ k - 1 = n
      BY <1>1, <2>1, <2>3
    <3>2. /\ chunk \in Seq(Data) /\ l \in Nat \ {0}
          /\ p[k] = p[k - 1] + l + 3 /\ p[k] <= p[N]
          /\ g[k] = g[k - 1] \o chunk
          /\ content[p[k - 1] + 1] = <<"size", l>> /\ content[p[k - 1] + 2] = CRLF
          /\ \A i \in 1 .. l : content[p[k - 1] + 2 + i] = chunk[i]
      BY <3>1 DEF Layout
    <3>3. /\ q \in Nat \ {0} /\ q + l + 2 <= Len(content) /\ content[q] = <<"size", l>>
          /\ content[q + 1] = CRLF /\ \A i \in 1 .. l : content[q + 1 + i] = chunk[i]
          /\ p[k] + 1 = q + l + 3
      <4>. HIDE DEF k, chunk, l, content, N
      <4>1. p[k - 1] = p[n]
        BY <3>1
      <4>2. q + 1 = p[n] + 2 /\ \A i \in 1 .. l : q + 1 + i = p[n] + 2 + i
        BY <2>2, <3>2
      <4>3. q \in Nat \ {0} /\ p[k] + 1 = q + l + 3 /\ q + l + 2 <= Len(content)
        <5>. DEFINE a == p[n]
                    b == p[k]
                    e == p[N]
                    total == Len(content)
        <5>1. /\ a \in Nat /\ e \in Nat /\ total = e + 3 /\ b = a + l + 3 /\ b <= e
              /\ l \in Nat \ {0} /\ q = a + 1
          BY <2>2, <3>2, <4>1
        <5>. HIDE DEF a, b, e, total, q
        <5>2. q \in Nat \ {0} /\ b + 1 = q + l + 3 /\ q + l + 2 <= total
          BY <5>1
        <5>. QED BY <5>2 DEF b, total
      <4>. QED BY <3>2, <4>1, <4>2, <4>3
    <3>7. l = Len(chunk)
      OBVIOUS
    <3>. HIDE DEF q, l, chunk, content
    <3>4. \/ next.end = "error" /\ bytes # content
          \/ next = [pos |-> q + l + 3, out |-> g[n] \o chunk, end |-> "none"]
      <4>1. next = DecodeChunk(bytes, [pos |-> q, out |-> g[n], end |-> "none"])
        BY <1>2, <2>1 DEF q
      <4>. DEFINE out == g[n]
      <4>2. HasChunk(content, q, l, chunk)
        BY <3>2, <3>3, <3>7 DEF HasChunk
      <4>3. Begins(content, bytes)
        BY DEF content
      <4>. HIDE DEF out, next
      <4>4. PutsOut(content, bytes, q, l, chunk, out)
        BY <2>2, <4>2, <4>3, PassOfChunk
      <4>. QED BY <4>1, <4>4 DEF PutsOut, out
    <3>5. \/ next.end = "error" /\ bytes # content
          \/ k <= N /\ next = [pos |-> p[k] + 1, out |-> g[k], end |-> "none"]
      <4>. HIDE DEF next, k, N
      <4>1. g[k] = g[n] \o chunk
        BY <3>1, <3>2
      <4>2. k <= N
        BY <1>1, <3>1
      <4>. QED BY <3>3, <3>4, <4>1, <4>2
    <3>. HIDE DEF next, k
    <3>6. /\ next.end \in {"none", "ok", "error"}
          /\ next.end = "none" => k <= N /\ next = [pos |-> p[k] + 1, out |-> g[k], end |-> "none"]
          /\ next.end # "ok"
          /\ bytes = content => next.end # "error"
      BY <3>5
    <3>. QED BY <3>6 DEF Stage, next, content, k
  <2>4. CASE n = N
    <3>. DEFINE q == p[N] + 1
                word == IF r.malformed THEN "junk" ELSE "size"
    <3>1. content[q] = <<word, 0>> /\ content[p[N] + 2] = CRLF
      BY DEF Layout
    <3>2. q \in Nat \ {0} /\ q + 1 <= Len(content) /\ content[q + 1] = CRLF
      <4>1. q + 1 = p[N] + 2
        BY <2>2
      <4>. QED BY <2>2, <3>1, <4>1
    <3>3. word \in {"size", "junk"} /\ (word = "size" <=> ~r.malformed)
      OBVIOUS
    <3>. HIDE DEF q, word, content
    <3>4. \/ next.end = "error" /\ (bytes # content \/ word # "size")
          \/ next.end = "ok" /\ word = "size" /\ next.out = g[N]
      <4>1. next = DecodeChunk(bytes, [pos |-> q, out |-> g[N], end |-> "none"])
        BY <1>2, <2>1, <2>4 DEF q
      <4>. DEFINE out == g[N]
                  to == DecodeChunk(bytes, [pos |-> q, out |-> out, end |-> "none"])
      <4>. HIDE DEF out, next
      <4>2. /\ content \in Seq(Unit) /\ Begins(content, bytes) /\ q \in Nat \ {0}
            /\ q + 1 <= Len(content) /\ word \in {"size", "junk"}
            /\ content[q] = <<word, 0>> /\ content[q + 1] = CRLF
        BY <2>2, <3>1, <3>2, <3>3 DEF content
      <4>3. \/ to.end = "error" /\ (bytes # content \/ word # "size")
            \/ to.end = "ok" /\ word = "size" /\ to.out = out
        BY <4>2, PassOfEnd
      <4>4. to = next
        BY <4>1 DEF out
      <4>. HIDE DEF to
      <4>. QED BY <4>3, <4>4 DEF out
    <3>. HIDE DEF next
    <3>5. /\ next.end \in {"ok", "error"}
          /\ next.end = "ok" => ~r.malformed /\ next.out = g[N]
          /\ bytes = content /\ ~r.malformed => next.end # "error"
      BY <3>3, <3>4
    <3>. QED BY <3>5 DEF Stage, next, content
  <2>. QED BY <2>3, <2>4
<1>. QED BY <1>3, <1>4

\* A chunk takes at least a unit.
LEMMA ChunksTakeUnits ==
    ASSUME NEW r \in Response, NEW p, NEW g, Layout(r, p, g)
    PROVE  Len(r.chunks) <= p[Len(r.chunks)]
<1>. DEFINE N == Len(r.chunks)
            Bad == {k \in 0 .. N : ~(k <= p[k])}
<1>1. N \in Nat /\ Bad \subseteq Nat
  BY ChunksTyped
<1>2. /\ p[0] = 0 /\ \A k \in 0 .. N : p[k] \in Nat
      /\ \A k \in 1 .. N : Len(r.chunks[k]) \in Nat /\ p[k] = p[k - 1] + Len(r.chunks[k]) + 3
  BY DEF Layout
<1>3. Bad = {}
  <2>. SUFFICES ASSUME Bad # {} PROVE FALSE
    OBVIOUS
  <2>1. PICK k \in Bad : \A q \in Bad : k <= q
    BY <1>1, LeastNat
  <2>. HIDE DEF N
  <2>2. k \in 1 .. N /\ k - 1 \in 0 .. N /\ k - 1 \notin Bad
    BY <1>1, <1>2, <2>1
  <2>3. k - 1 <= p[k - 1]
    BY <2>2
  <2>4. p[k] = p[k - 1] + Len(r.chunks[k]) + 3 /\ p[k - 1] \in Nat /\ Len(r.chunks[k]) \in Nat
    BY <1>2, <2>2
  <2>5. k <= p[k]
    BY <2>2, <2>3, <2>4
  <2>. QED BY <2>1, <2>5
<1>. QED BY <1>1, <1>3

\* What a chunked response is decoded to is what was sent, and all of it, wherever the
\* reads have cut it; and it is decoded as soon as it is there.
LEMMA DecodedIsSent ==
    ASSUME NEW r \in Response, r.framing = "chunked", NEW bytes, Begins(Content(r), bytes)
    PROVE  /\ \A body \in decode_chunked_body(bytes) :
                ~r.malformed /\ body = FlattenSeq(r.chunks)
           /\ bytes = Content(r) /\ ~r.malformed => decode_chunked_body(bytes) # {}
<1>. DEFINE L == Len(bytes)
            N == Len(r.chunks)
<1>1. PICK p, g : Layout(r, p, g)
  BY LaidOut
<1>2. L \in Nat /\ bytes \in Seq(Unit) /\ N \in Nat
  BY ChunksTyped DEF Begins
<1>3. Stage(r, p, g, bytes, L)
  <2>. DEFINE Bad == {n \in 0 .. L : ~Stage(r, p, g, bytes, n)}
  <2>. SUFFICES ASSUME L \in Bad PROVE FALSE
    BY <1>2
  <2>1. PICK n \in Bad : \A q \in Bad : n <= q
    <3>1. Bad \subseteq Nat
      BY <1>2
    <3>. HIDE DEF Bad
    <3>. QED BY <3>1, LeastNat
  <2>2. Stage(r, p, g, bytes, 0)
    BY <1>1, <1>2, StageBegins
  <2>3. n \in 1 .. L /\ n - 1 \in 0 .. L /\ n - 1 \notin Bad
    BY <1>2, <2>1, <2>2
  <2>4. n - 1 \in Nat /\ (n - 1) + 1 = n /\ n <= L /\ Stage(r, p, g, bytes, n - 1)
    BY <1>2, <2>3
  <2>5. Stage(r, p, g, bytes, (n - 1) + 1)
    BY <1>1, <2>4, StageStep
  <2>. QED BY <2>1, <2>4, <2>5
<1>. DEFINE last == Decoding(bytes)[L]
<1>4. decode_chunked_body(bytes) = IF last.end = "ok" THEN {last.out} ELSE {}
  BY DEF decode_chunked_body
<1>5. g[N] = FlattenSeq(r.chunks) /\ Len(Content(r)) = p[N] + 3 /\ p[N] \in Nat
  <2>1. g[N] = FlattenSeq(r.chunks) /\ Len(Content(r)) = p[N] + 3
    BY <1>1 DEF Layout
  <2>2. p \in [0 .. N -> Nat] /\ N \in 0 .. N
    BY <1>1, <1>2 DEF Layout
  <2>. QED BY <2>1, <2>2
<1>6. bytes = Content(r) => last.end # "none"
  <2>1. N <= p[N]
    BY <1>1, ChunksTakeUnits
  <2>2. bytes = Content(r) => ~(L <= N)
    BY <1>2, <1>5, <2>1
  <2>. QED BY <1>3, <2>2 DEF Stage
<1>7. /\ last.end = "ok" => ~r.malformed /\ last.out = g[N]
      /\ bytes = Content(r) /\ ~r.malformed => last.end = "ok"
  BY <1>3, <1>6 DEF Stage
<1>. HIDE DEF last
<1>. QED BY <1>4, <1>5, <1>7

--------------------------------------------------------------------------------
(* Prefixes.                                                                *)

\* A prefix is what it starts with.
LEMMA PrefixMeans ==
    ASSUME NEW S, NEW t \in Seq(S), NEW s \in Seq(S)
    PROVE  IsPrefix(s, t) <=> Len(s) <= Len(t) /\ \A i \in 1 .. Len(s) : s[i] = t[i]
<1>. DEFINE n == Len(s)
            a == SubSeq(s, 1, n)
            b == SubSeq(t, 1, n)
<1>0. n \in Nat /\ Len(t) \in Nat
  OBVIOUS
<1>1. CASE ~(n <= Len(t))
  BY <1>1 DEF IsPrefix
<1>2. CASE n <= Len(t)
  <2>1. /\ \A i \in 1 .. n : s[i] \in S /\ t[i] \in S
        /\ 1 \in Int /\ n \in Int /\ n - 1 + 1 = n /\ (1 <= n \/ n = 0)
        /\ \A i \in 1 .. n : 1 + i - 1 = i
    BY <1>0, <1>2
  <2>. HIDE DEF n
  <2>2. a \in Seq(S) /\ Len(a) = n /\ \A i \in 1 .. n : a[i] = s[i]
    BY <2>1, SubSeqProperties
  <2>3. b \in Seq(S) /\ Len(b) = n /\ \A i \in 1 .. n : b[i] = t[i]
    BY <2>1, SubSeqProperties
  <2>4. IsPrefix(s, t) <=> a = b
    BY <1>2 DEF IsPrefix, n
  <2>. HIDE DEF a, b
  <2>5. ASSUME \A i \in 1 .. n : s[i] = t[i] PROVE a = b
    <3>1. Len(a) = Len(b) /\ \A i \in 1 .. Len(a) : a[i] = b[i]
      BY <2>2, <2>3, <2>5
    <3>. QED BY <2>2, <2>3, <3>1, SeqEqual
  <2>6. a = b => \A i \in 1 .. n : s[i] = t[i]
    BY <2>2, <2>3
  <2>. QED BY <1>2, <2>4, <2>5, <2>6 DEF n
<1>. QED BY <1>1, <1>2

\* The first n places of a sequence.
LEMMA FirstPlaces ==
    ASSUME NEW S, NEW t \in Seq(S), NEW n \in 0 .. Len(t)
    PROVE  /\ SubSeq(t, 1, n) \in Seq(S) /\ Len(SubSeq(t, 1, n)) = n
           /\ \A i \in 1 .. n : SubSeq(t, 1, n)[i] = t[i]
<1>1. /\ \A i \in 1 .. n : t[i] \in S
      /\ 1 \in Int /\ n \in Int /\ n - 1 + 1 = n /\ (1 <= n \/ n = 0)
      /\ \A i \in 1 .. n : 1 + i - 1 = i
  OBVIOUS
<1>. QED BY <1>1, SubSeqProperties

--------------------------------------------------------------------------------
(* The response as the client holds it.                                     *)

\* The fields of a response.
LEMMA ResponseFields ==
    ASSUME NEW r \in Response
    PROVE  /\ r.status \in {"ok", "bad"} /\ r.framing \in {"chunked", "length", "none"}
           /\ r.framing = "length" => r.declared \in Nat
           /\ r.framing # "chunked" => r.status = "ok"
<1>1. MaxDeclared \in Nat
  BY HttpClientAssumption DEF HttpClientAssumption
<1>. QED BY <1>1 DEF Response

\* What follows the head is a sequence of units.
LEMMA ContentTyped ==
    ASSUME NEW r \in Response
    PROVE  /\ FlattenSeq(r.chunks) \in Seq(Data) /\ Content(r) \in Seq(Unit)
           /\ r.framing # "chunked" => Content(r) = FlattenSeq(r.chunks)
<1>1. FlattenSeq(r.chunks) \in Seq(Data)
  <2>1. PICK g \in [0 .. Len(r.chunks) -> Seq(Data)] : FlattenSeq(r.chunks) = g[Len(r.chunks)]
    BY ChunksTyped, Flattening
  <2>2. Len(r.chunks) \in 0 .. Len(r.chunks)
    BY ChunksTyped
  <2>. QED BY <2>1, <2>2
<1>2. CASE r.framing = "chunked"
  <2>1. PICK p, g : Layout(r, p, g)
    BY <1>2, LaidOut
  <2>. QED BY <1>1, <1>2, <2>1 DEF Layout
<1>3. CASE r.framing # "chunked"
  <2>1. Data \subseteq Unit
    BY DEF Data, Unit, CRLF
  <2>2. Content(r) = FlattenSeq(r.chunks)
    BY <1>3 DEF Content
  <2>. QED BY <1>1, <2>1, <2>2
<1>. QED BY <1>2, <1>3

\* The status line, the framing header and an empty line come first.
LEMMA WireStands ==
    ASSUME NEW r \in Response
    PROVE  /\ Wire(r) \in Seq(Unit) /\ Len(Wire(r)) = 4 + Len(Content(r))
           /\ Len(Content(r)) \in Nat
           /\ Wire(r)[1] = <<"status", IF r.status = "ok" THEN 1 ELSE 0>>
           /\ Wire(r)[2] = HeaderOf(r) /\ Wire(r)[3] = CRLF /\ Wire(r)[4] = CRLF
           /\ \A i \in 1 .. Len(Content(r)) : Wire(r)[4 + i] = Content(r)[i]
<1>. DEFINE line == <<"status", IF r.status = "ok" THEN 1 ELSE 0>>
            head == <<line, HeaderOf(r), CRLF, CRLF>>
            content == Content(r)
<1>1. content \in Seq(Unit) /\ Len(content) \in Nat
  BY ContentTyped
<1>2. line \in Unit /\ CRLF \in Unit
  BY DEF Unit, CRLF
<1>3. HeaderOf(r) \in Unit
  BY ResponseFields DEF HeaderOf, Unit
<1>. HIDE DEF line
<1>4. /\ head \in Seq(Unit) /\ Len(head) = 4 /\ head[1] = line /\ head[2] = HeaderOf(r)
      /\ head[3] = CRLF /\ head[4] = CRLF
  BY <1>2, <1>3
<1>5. Wire(r) = head \o content
  BY DEF Wire, line
<1>. HIDE DEF head, content
<1>6. /\ head \o content \in Seq(Unit) /\ Len(head \o content) = Len(head) + Len(content)
      /\ \A i \in 1 .. Len(head) : (head \o content)[i] = head[i]
      /\ \A i \in 1 .. Len(content) : (head \o content)[Len(head) + i] = content[i]
  <2>1. head \in Seq(Unit) /\ content \in Seq(Unit)
    BY <1>1, <1>4
  <2>. QED BY <2>1, Concatenated
<1>7. 1 \in 1 .. 4 /\ 2 \in 1 .. 4 /\ 3 \in 1 .. 4 /\ 4 \in 1 .. 4
  OBVIOUS
<1>. QED BY <1>1, <1>4, <1>5, <1>6, <1>7 DEF content, line

\* Where the empty line is found, CRLF stands twice, and the first place is the least.
LEMMA EmptyLine ==
    ASSUME NEW bytes \in Seq(Unit)
    PROVE  LET twice == {i \in 1 .. Len(bytes) : /\ i + 1 <= Len(bytes)
                                                 /\ bytes[i] = CRLF /\ bytes[i + 1] = CRLF}
           IN  find_subslice(bytes, <<CRLF, CRLF>>, 1) = {i \in twice : \A j \in twice : i <= j}
<1>. DEFINE twice == {i \in 1 .. Len(bytes) : /\ i + 1 <= Len(bytes)
                                              /\ bytes[i] = CRLF /\ bytes[i + 1] = CRLF}
            found == {i \in 1 .. Len(bytes) :
                        /\ i + Len(<<CRLF, CRLF>>) - 1 <= Len(bytes)
                        /\ SubSeq(bytes, i, i + Len(<<CRLF, CRLF>>) - 1) = <<CRLF, CRLF>>}
<1>1. Len(bytes) \in Nat /\ Len(<<CRLF, CRLF>>) = 2
  OBVIOUS
<1>2. ASSUME NEW i \in 1 .. Len(bytes), i + 1 <= Len(bytes)
      PROVE  SubSeq(bytes, i, i + 1) = <<CRLF, CRLF>> <=> bytes[i] = CRLF /\ bytes[i + 1] = CRLF
  <2>. DEFINE a == SubSeq(bytes, i, i + 1)
              b == <<bytes[i], bytes[i + 1]>>
  <2>1. /\ i \in Int /\ i + 1 \in Int /\ i <= i + 1 /\ i + 1 - i + 1 = 2
        /\ \A j \in i .. i + 1 : bytes[j] \in Unit
    BY <1>1, <1>2
  <2>2. a \in Seq(Unit) /\ Len(a) = 2 /\ \A j \in 1 .. 2 : a[j] = bytes[i + j - 1]
    <3>. DEFINE k == i + 1
    <3>1. /\ i \in Int /\ k \in Int /\ i <= k /\ k - i + 1 = 2
          /\ \A j \in i .. k : bytes[j] \in Unit
      BY <2>1
    <3>. HIDE DEF k
    <3>2. /\ SubSeq(bytes, i, k) \in Seq(Unit) /\ Len(SubSeq(bytes, i, k)) = 2
          /\ \A j \in 1 .. 2 : SubSeq(bytes, i, k)[j] = bytes[i + j - 1]
      BY <3>1, SubSeqProperties
    <3>. QED BY <3>2 DEF k
  <2>3. b \in Seq(Unit) /\ Len(b) = 2 /\ b[1] = bytes[i] /\ b[2] = bytes[i + 1]
    BY <2>1
  <2>4. \A j \in 1 .. 2 : (j = 1 \/ j = 2) /\ (j = 1 => i + j - 1 = i) /\ (j = 2 => i + j - 1 = i + 1)
    BY <2>1
  <2>. HIDE DEF a, b
  <2>5. Len(a) = Len(b) /\ \A j \in 1 .. Len(a) : a[j] = b[j]
    BY <2>2, <2>3, <2>4
  <2>6. a = b
    BY <2>2, <2>3, <2>5, SeqEqual
  <2>. QED BY <2>6 DEF a, b
<1>3. found = twice
  <2>1. ASSUME NEW i \in 1 .. Len(bytes) PROVE i + Len(<<CRLF, CRLF>>) - 1 = i + 1
    BY <1>1
  <2>. QED BY <1>2, <2>1
<1>4. find_subslice(bytes, <<CRLF, CRLF>>, 1) = {i \in found : \A j \in found : i <= j}
  BY DEF find_subslice
<1>. HIDE DEF found, twice
<1>5. find_subslice(bytes, <<CRLF, CRLF>>, 1) = {i \in twice : \A j \in twice : i <= j}
  BY <1>3, <1>4
<1>. QED BY <1>5 DEF twice

\* The head ends after the fourth unit, and what is held after it begins the content.
LEMMA HeadStands ==
    ASSUME NEW r \in Response, NEW bytes, Begins(Wire(r), bytes)
    PROVE  \/ Len(bytes) < 4 /\ header_end(bytes) = {}
           \/ /\ 4 <= Len(bytes) /\ header_end(bytes) = {4}
              /\ bytes[1][2] # 0 <=> r.status = "ok"
              /\ bytes[2] = HeaderOf(r)
              /\ Begins(Content(r), body_bytes(bytes, 4))
              /\ bytes = Wire(r) => body_bytes(bytes, 4) = Content(r)
<1>. DEFINE wire == Wire(r)
            content == Content(r)
            L == Len(bytes)
            body == body_bytes(bytes, 4)
            twice == {i \in 1 .. L : /\ i + 1 <= L
                                     /\ bytes[i] = CRLF /\ bytes[i + 1] = CRLF}
<1>1. /\ wire \in Seq(Unit) /\ Len(wire) = 4 + Len(content) /\ Len(content) \in Nat
      /\ wire[1] = <<"status", IF r.status = "ok" THEN 1 ELSE 0>>
      /\ wire[2] = HeaderOf(r) /\ wire[3] = CRLF /\ wire[4] = CRLF
      /\ \A i \in 1 .. Len(content) : wire[4 + i] = content[i]
  BY WireStands
<1>2. wire[1] # CRLF /\ wire[2] # CRLF /\ (wire[1][2] # 0 <=> r.status = "ok")
  <2>1. wire[1] # CRLF /\ (wire[1][2] # 0 <=> r.status = "ok")
    BY <1>1 DEF CRLF
  <2>2. HeaderOf(r) # CRLF
    BY ResponseFields DEF HeaderOf, CRLF
  <2>. QED BY <1>1, <2>1, <2>2
<1>3. bytes \in Seq(Unit) /\ L \in Nat /\ L <= Len(wire) /\ \A i \in 1 .. L : bytes[i] = wire[i]
  BY DEF Begins
<1>4. content \in Seq(Unit)
  BY ContentTyped
<1>. HIDE DEF wire, content, L
<1>5. header_end(bytes) = {i + 1 : i \in {j \in twice : \A k \in twice : j <= k}}
  <2>1. find_subslice(bytes, <<CRLF, CRLF>>, 1) = {j \in twice : \A k \in twice : j <= k}
    BY <1>3, EmptyLine DEF L
  <2>. HIDE DEF twice
  <2>. QED BY <2>1 DEF header_end
<1>6. twice \subseteq 3 .. L - 1 /\ (4 <= L => 3 \in twice)
  <2>1. ASSUME NEW i \in twice PROVE i \in 3 .. L - 1
    BY <1>2, <1>3
  <2>2. 4 <= L => 3 \in twice
    BY <1>1, <1>3
  <2>. QED BY <2>1, <2>2
<1>. HIDE DEF twice
<1>7. CASE L < 4
  <2>1. twice = {}
    BY <1>3, <1>6, <1>7
  <2>. QED BY <1>5, <1>7, <2>1 DEF L
<1>8. CASE ~(L < 4)
  <2>1. 4 <= L /\ 3 \in twice /\ \A j \in twice : j \in Nat /\ 3 <= j
    BY <1>3, <1>6, <1>8
  <2>2. {j \in twice : \A k \in twice : j <= k} = {3}
    BY <2>1
  <2>3. header_end(bytes) = {4}
    BY <1>5, <2>2
  <2>4. bytes[1] = wire[1] /\ bytes[2] = wire[2]
    BY <1>3, <2>1
  <2>5. body = SubSeq(bytes, 4 + 1, L)
    BY DEF body_bytes, L
  <2>. HIDE DEF body
  <2>6. body \in Seq(Unit) /\ Len(body) = L - 4 /\ \A i \in 1 .. L - 4 : body[i] = bytes[4 + i]
    <3>1. /\ 4 + 1 \in Int /\ L \in Int /\ \A i \in 4 + 1 .. L : bytes[i] \in Unit
          /\ L - (4 + 1) + 1 = L - 4 /\ (~(4 + 1 <= L) => L - 4 = 0)
          /\ \A i \in 1 .. L - 4 : 4 + 1 + i - 1 = 4 + i
      <4>1. \A i \in 1 .. L : bytes[i] \in Unit
        BY <1>3 DEF L
      <4>2. \A i \in 4 + 1 .. L : i \in 1 .. L
        BY <1>3
      <4>. QED BY <1>3, <2>1, <4>1, <4>2
    <3>2. /\ body \in Seq(Unit) /\ Len(body) = L - 4
          /\ \A i \in 1 .. L - 4 : body[i] = bytes[4 + 1 + i - 1]
      BY <2>5, <3>1, SubSeqProperties
    <3>. QED BY <3>1, <3>2
  <2>7. \A i \in 1 .. L - 4 : body[i] = content[i]
    <3>1. \A i \in 1 .. L - 4 : 4 + i \in 1 .. L /\ i \in 1 .. Len(content)
      BY <1>1, <1>3, <2>1
    <3>. QED BY <1>1, <1>3, <2>6, <3>1
  <2>8. Len(body) \in Nat /\ Len(body) <= Len(content)
    BY <1>1, <1>3, <2>1, <2>6
  <2>9. Begins(content, body)
    BY <2>6, <2>7, <2>8 DEF Begins
  <2>10. bytes = wire => body = content
    <3>1. bytes = wire => Len(body) = Len(content)
      BY <1>1, <1>3, <2>6 DEF L
    <3>2. \A i \in 1 .. Len(body) : body[i] = content[i]
      BY <2>6, <2>7
    <3>. QED BY <1>4, <2>6, <3>1, <3>2, SeqEqual
  <2>. QED BY <1>1, <1>2, <2>1, <2>3, <2>4, <2>9, <2>10 DEF wire, content, body, L
<1>. QED BY <1>7, <1>8

--------------------------------------------------------------------------------
(* The body that the client returns.                                        *)

\* Of a body with a length, what the server means is what was sent of it.
LEMMA LengthFramed ==
    ASSUME NEW r \in Response, r.framing = "length", NEW body, Begins(Content(r), body)
    PROVE  LET cut == SubSeq(body, 1, r.declared)
           IN  /\ Len(body) < r.declared =>
                    /\ body \in Seq(Data) /\ IsPrefix(body, Intended(r))
                    /\ body = Content(r) => body = Intended(r)
               /\ ~(Len(body) < r.declared) => cut \in Seq(Data) /\ cut = Intended(r)
<1>. DEFINE all == FlattenSeq(r.chunks)
            d == r.declared
            L == Len(body)
            cut == SubSeq(body, 1, d)
            intended == IF d < Len(all) THEN SubSeq(all, 1, d) ELSE all
<1>1. all \in Seq(Data) /\ Len(all) \in Nat /\ d \in Nat /\ Content(r) = all
  BY ContentTyped, ResponseFields
<1>2. Intended(r) = intended
  BY DEF Intended
<1>3. L \in Nat /\ L <= Len(all) /\ body \in Seq(Unit) /\ \A i \in 1 .. L : body[i] = all[i]
  BY <1>1 DEF Begins
<1>. HIDE DEF all, d
<1>4. body \in Seq(Data)
  <2>1. \A i \in 1 .. L : body[i] \in Data
    BY <1>1, <1>3
  <2>. QED BY <1>3, <2>1
<1>5. /\ intended \in Seq(Data) /\ Len(intended) = IF d < Len(all) THEN d ELSE Len(all)
      /\ \A i \in 1 .. Len(intended) : intended[i] = all[i]
  <2>1. CASE d < Len(all)
    <3>1. d \in 0 .. Len(all)
      BY <1>1, <2>1
    <3>2. /\ SubSeq(all, 1, d) \in Seq(Data) /\ Len(SubSeq(all, 1, d)) = d
          /\ \A i \in 1 .. d : SubSeq(all, 1, d)[i] = all[i]
      BY <1>1, <3>1, FirstPlaces
    <3>. QED BY <2>1, <3>2
  <2>2. CASE ~(d < Len(all))
    BY <1>1, <2>2
  <2>. QED BY <2>1, <2>2
<1>. HIDE DEF intended
<1>6. CASE L < d
  <2>1. L <= Len(intended) /\ \A i \in 1 .. L : body[i] = intended[i]
    <3>1. L <= Len(intended)
      BY <1>1, <1>3, <1>5, <1>6
    <3>2. \A i \in 1 .. L : i \in 1 .. Len(intended)
      BY <1>1, <1>3, <1>5, <3>1
    <3>. QED BY <1>3, <1>5, <3>1, <3>2
  <2>2. IsPrefix(body, intended)
    BY <1>4, <1>5, <2>1, PrefixMeans
  <2>3. body = all => body = intended
    <3>1. body = all => Len(body) = Len(intended)
      BY <1>1, <1>3, <1>5, <1>6
    <3>2. \A i \in 1 .. Len(body) : body[i] = intended[i]
      BY <2>1
    <3>. QED BY <1>4, <1>5, <3>1, <3>2, SeqEqual
  <2>. QED BY <1>1, <1>2, <1>4, <1>6, <2>2, <2>3 DEF d
<1>7. CASE ~(L < d)
  <2>1. d \in 0 .. L
    BY <1>1, <1>3, <1>7
  <2>2. cut \in Seq(Data) /\ Len(cut) = d /\ \A i \in 1 .. d : cut[i] = body[i]
    BY <1>4, <2>1, FirstPlaces
  <2>. HIDE DEF cut
  <2>3. d <= Len(all) /\ Len(intended) = d
    BY <1>1, <1>3, <1>5, <1>7
  <2>4. \A i \in 1 .. d : cut[i] = intended[i]
    BY <1>3, <1>5, <2>1, <2>2, <2>3
  <2>5. cut = intended
    <3>1. Len(cut) = Len(intended) /\ \A i \in 1 .. Len(cut) : cut[i] = intended[i]
      BY <2>2, <2>3, <2>4
    <3>. QED BY <1>5, <2>2, <3>1, SeqEqual
  <2>. QED BY <1>2, <1>7, <2>2, <2>5 DEF d, cut
<1>. QED BY <1>6, <1>7 DEF d

\* A sequence is a prefix of itself.
LEMMA WholePrefix ==
    ASSUME NEW S, NEW s \in Seq(S)
    PROVE  IsPrefix(s, s)
BY DEF IsPrefix

\* A body is complete only if it is the one that the server means, and it is complete once
\* everything has arrived.
LEMMA CompleteIsIntended ==
    ASSUME NEW r \in Response, NEW body, Begins(Content(r), body)
    PROVE  LET done == Complete(HeaderOf(r), body)
           IN  /\ \A b \in done : /\ b \in Seq(Data) /\ b = Intended(r)
                                  /\ r.framing = "chunked" => ~r.malformed
               /\ \/ r.framing = "chunked" /\ ~r.malformed
                  \/ r.framing = "length" /\ r.declared <= Len(FlattenSeq(r.chunks))
                  => (body = Content(r) => done # {})
<1>. DEFINE done == Complete(HeaderOf(r), body)
<1>0. r.framing \in {"chunked", "length", "none"}
  BY ResponseFields
<1>1. CASE r.framing = "chunked"
  <2>1. done = decode_chunked_body(body)
    BY <1>1 DEF Complete, HeaderOf
  <2>2. Intended(r) = FlattenSeq(r.chunks) /\ FlattenSeq(r.chunks) \in Seq(Data)
    BY <1>1, ContentTyped DEF Intended
  <2>3. /\ \A b \in decode_chunked_body(body) : ~r.malformed /\ b = FlattenSeq(r.chunks)
        /\ body = Content(r) /\ ~r.malformed => decode_chunked_body(body) # {}
    BY <1>1, DecodedIsSent
  <2>. HIDE DEF done
  <2>. QED BY <1>1, <2>1, <2>2, <2>3 DEF done
<1>2. CASE r.framing = "length"
  <2>1. done = IF Len(body) < r.declared THEN {} ELSE {SubSeq(body, 1, r.declared)}
    BY <1>2 DEF Complete, HeaderOf
  <2>. HIDE DEF done
  <2>2. \A b \in done : b \in Seq(Data) /\ b = Intended(r)
    BY <1>2, <2>1, LengthFramed
  <2>3. r.declared <= Len(FlattenSeq(r.chunks)) => (body = Content(r) => done # {})
    <3>1. /\ Content(r) = FlattenSeq(r.chunks) /\ r.declared \in Nat
          /\ Len(FlattenSeq(r.chunks)) \in Nat
      BY <1>2, ContentTyped, ResponseFields
    <3>2. r.declared <= Len(FlattenSeq(r.chunks)) /\ body = Content(r)
            => ~(Len(body) < r.declared)
      BY <3>1
    <3>. QED BY <2>1, <3>2
  <2>. QED BY <1>2, <2>2, <2>3 DEF done
<1>3. CASE r.framing = "none"
  <2>1. done = {}
    BY <1>3 DEF Complete, HeaderOf
  <2>. QED BY <1>3, <2>1
<1>. QED BY <1>0, <1>1, <1>2, <1>3

\* What is returned when the connection ends is a beginning of that body, and all of it if
\* everything has arrived.
LEMMA CutIsAPrefix ==
    ASSUME NEW r \in Response, NEW body, Begins(Content(r), body),
           Complete(HeaderOf(r), body) = {}
    PROVE  \A b \in Cut(HeaderOf(r), body) :
                /\ b \in Seq(Data) /\ IsPrefix(b, Intended(r)) /\ r.framing # "chunked"
                /\ body = Content(r) => b = Intended(r)
<1>0. r.framing \in {"chunked", "length", "none"}
  BY ResponseFields
<1>1. CASE r.framing = "chunked"
  BY <1>1 DEF Cut, HeaderOf
<1>2. CASE r.framing = "length"
  <2>1. Cut(HeaderOf(r), body) = {body}
    BY <1>2 DEF Cut, HeaderOf
  <2>2. Len(body) < r.declared
    BY <1>2 DEF Complete, HeaderOf
  <2>3. /\ body \in Seq(Data) /\ IsPrefix(body, Intended(r))
        /\ body = Content(r) => body = Intended(r)
    BY <1>2, <2>2, LengthFramed
  <2>. QED BY <1>2, <2>1, <2>3
<1>3. CASE r.framing = "none"
  <2>. DEFINE all == FlattenSeq(r.chunks)
  <2>1. Cut(HeaderOf(r), body) = {body}
    BY <1>3 DEF Cut, HeaderOf
  <2>2. all \in Seq(Data) /\ Content(r) = all /\ Intended(r) = all
    BY <1>3, ContentTyped DEF Intended
  <2>. HIDE DEF all
  <2>3. /\ body \in Seq(Unit) /\ Len(body) \in Nat /\ Len(body) <= Len(all)
        /\ \A i \in 1 .. Len(body) : body[i] = all[i]
    BY <2>2 DEF Begins
  <2>4. body \in Seq(Data)
    <3>1. \A i \in 1 .. Len(body) : body[i] \in Data
      BY <2>2, <2>3
    <3>. QED BY <2>3, <3>1
  <2>5. IsPrefix(body, all)
    BY <2>2, <2>3, <2>4, PrefixMeans
  <2>. QED BY <1>3, <2>1, <2>2, <2>4, <2>5
<1>. QED BY <1>0, <1>1, <1>2, <1>3

--------------------------------------------------------------------------------
(* The specification.                                                       *)

\* What is held begins what the server sends, and nothing is decided before the end.
Held ==
    /\ response \in Response
    /\ Begins(Wire(response), raw)
    /\ pc \in {"connecting", "reading", "done"}
    /\ ended \in BOOLEAN
    /\ pc = "connecting" => raw = <<>>
    /\ pc # "done" => reply = NoReply /\ ended = FALSE

\* A reader with a head in hand reads on because the body is not complete.
Waiting ==
    pc = "reading" => \A end \in header_end(raw) :
        raw[1][2] # 0 /\ Complete(raw[2], body_bytes(raw, end)) = {}

Typed(answer) ==
    answer \in [kind : {"none", "ok", "io", "invalid", "eof", "timeout"}, body : Seq(Data)]

\* BodyIsTheServers of an answer.
Answers(r, held, over, answer) ==
    answer.kind = "ok" =>
        /\ r.status = "ok"
        /\ IsPrefix(answer.body, Intended(r))
        /\ r.framing = "chunked" \/ held = Wire(r) \/ ~over => answer.body = Intended(r)
        /\ r.framing = "chunked" => ~r.malformed

IInv == Held /\ Waiting /\ Typed(reply) /\ Answers(response, raw, ended, reply)

\* Nothing read yet begins everything.
LEMMA NothingBegins ==
    ASSUME NEW r \in Response
    PROVE  Begins(Wire(r), <<>>) /\ header_end(<<>>) = {}
<1>1. Len(Wire(r)) = 4 + Len(Content(r)) /\ Len(Content(r)) \in Nat
  BY WireStands
<1>2. <<>> \in Seq(Unit) /\ Len(<<>>) = 0
  OBVIOUS
<1>3. Begins(Wire(r), <<>>)
  BY <1>1, <1>2 DEF Begins
<1>4. header_end(<<>>) = {}
  <2>1. \/ Len(<<>>) < 4 /\ header_end(<<>>) = {}
        \/ 4 <= Len(<<>>)
    BY <1>3, HeadStands
  <2>. QED BY <1>2, <2>1
<1>. QED BY <1>3, <1>4

\* An error is an answer that promises nothing.
LEMMA ErrorsAnswer ==
    ASSUME NEW kind \in {"none", "io", "invalid", "eof", "timeout"}, NEW r, NEW held, NEW over
    PROVE  /\ Typed([kind |-> kind, body |-> <<>>])
           /\ Answers(r, held, over, [kind |-> kind, body |-> <<>>])
BY DEF Typed, Answers

\* Initially nothing is held and nothing is answered.
LEMMA InitInv == Init => IInv
<1>. SUFFICES ASSUME Init PROVE IInv
  OBVIOUS
<1>1. Held
  BY NothingBegins DEF Init, Held
<1>2. Waiting
  BY DEF Init, Waiting
<1>3. Typed(reply) /\ Answers(response, raw, ended, reply)
  BY ErrorsAnswer DEF Init, NoReply
<1>. QED BY <1>1, <1>2, <1>3 DEF IInv

\* Every step keeps the invariant.
LEMMA StepInv == IInv /\ [Next]_vars => IInv'
<1>. SUFFICES ASSUME IInv, [Next]_vars PROVE IInv'
  OBVIOUS
<1>0. /\ response \in Response /\ Begins(Wire(response), raw)
      /\ pc = "connecting" => raw = <<>>
      /\ pc # "done" => reply = NoReply /\ ended = FALSE
      /\ Typed(reply) /\ Answers(response, raw, ended, reply)
  BY DEF IInv, Held
<1>1. CASE Connect
  <2>1. pc = "connecting" /\ raw = <<>> /\ response' = response /\ raw' = raw /\ ended' = FALSE
    BY <1>0, <1>1 DEF Connect
  <2>2. CASE pc' = "reading" /\ reply' = reply
    <3>1. Held'
      BY <1>0, <2>1, <2>2 DEF Held
    <3>2. header_end(raw') = {}
      BY <1>0, <2>1, NothingBegins
    <3>3. Waiting'
      BY <3>2 DEF Waiting
    <3>4. (Typed(reply) /\ Answers(response, raw, ended, reply))'
      BY <1>0, <2>1, <2>2
    <3>. QED BY <3>1, <3>3, <3>4 DEF IInv
  <2>3. CASE Fail("io")
    <3>1. Held'
      BY <1>0, <2>1, <2>3 DEF Held, Fail
    <3>2. Waiting'
      BY <2>3 DEF Waiting, Fail
    <3>3. (Typed(reply) /\ Answers(response, raw, ended, reply))'
      BY <2>3, ErrorsAnswer DEF Fail
    <3>. QED BY <3>1, <3>2, <3>3 DEF IInv
  <2>. QED BY <1>1, <2>2, <2>3 DEF Connect
<1>2. CASE Read
  <2>1. /\ pc = "reading" /\ response' = response /\ ended' = ended
        /\ reply = NoReply /\ ended = FALSE
    BY <1>0, <1>2 DEF Read
  <2>2. PICK n \in Len(raw) + 1 .. Len(Wire(response)) :
            raw' = SubSeq(Wire(response), 1, n) /\ Settle(raw')
    BY <1>2 DEF Read
  <2>3. Begins(Wire(response), raw')
    <3>1. Wire(response) \in Seq(Unit) /\ Len(raw) \in Nat /\ Len(Wire(response)) \in Nat
      BY <1>0, WireStands DEF Begins
    <3>2. n \in 0 .. Len(Wire(response)) /\ n \in Nat /\ n <= Len(Wire(response))
      BY <3>1
    <3>3. raw' \in Seq(Unit) /\ Len(raw') = n /\ \A i \in 1 .. n : raw'[i] = Wire(response)[i]
      BY <2>2, <3>1, <3>2, FirstPlaces
    <3>. QED BY <3>2, <3>3 DEF Begins
  <2>4. \/ header_end(raw') = {}
        \/ /\ header_end(raw') = {4}
           /\ raw'[1][2] # 0 <=> response.status = "ok"
           /\ raw'[2] = HeaderOf(response)
           /\ Begins(Content(response), body_bytes(raw', 4))
    BY <1>0, <2>3, HeadStands
  <2>5. CASE UNCHANGED <<pc, reply>> /\ Waiting'
    <3>1. Held'
      BY <1>0, <2>1, <2>3, <2>5 DEF Held
    <3>2. (Typed(reply) /\ Answers(response, raw, ended, reply))'
      BY <2>1, <2>5, ErrorsAnswer DEF NoReply
    <3>. QED BY <2>5, <3>1, <3>2 DEF IInv
  <2>6. CASE Fail("invalid")
    <3>1. Held'
      BY <1>0, <2>1, <2>3, <2>6 DEF Held, Fail
    <3>2. Waiting'
      BY <2>6 DEF Waiting, Fail
    <3>3. (Typed(reply) /\ Answers(response, raw, ended, reply))'
      BY <2>6, ErrorsAnswer DEF Fail
    <3>. QED BY <3>1, <3>2, <3>3 DEF IInv
  <2>7. ASSUME header_end(raw') = {4}, raw'[1][2] # 0,
               NEW body \in Complete(raw'[2], body_bytes(raw', 4)), Return(body)
        PROVE  IInv'
    <3>1. Held'
      BY <1>0, <2>1, <2>3, <2>7 DEF Held, Return
    <3>2. Waiting'
      BY <2>7 DEF Waiting, Return
    <3>3. /\ response.status = "ok" /\ body \in Complete(HeaderOf(response), body_bytes(raw', 4))
          /\ Begins(Content(response), body_bytes(raw', 4))
      BY <2>4, <2>7
    <3>4. /\ body \in Seq(Data) /\ body = Intended(response)
          /\ response.framing = "chunked" => ~response.malformed
      BY <1>0, <3>3, CompleteIsIntended
    <3>5. reply' = [kind |-> "ok", body |-> body]
      BY <2>7 DEF Return
    <3>6. Typed(reply')
      BY <3>4, <3>5 DEF Typed
    <3>7. Answers(response', raw', ended', reply')
      BY <2>1, <3>3, <3>4, <3>5, WholePrefix DEF Answers
    <3>. QED BY <3>1, <3>2, <3>6, <3>7 DEF IInv
  <2>8. CASE header_end(raw') = {}
    <3>1. UNCHANGED <<pc, reply>>
      BY <2>2, <2>8 DEF Settle
    <3>2. Waiting'
      BY <2>8 DEF Waiting
    <3>. QED BY <2>5, <3>1, <3>2
  <2>9. CASE header_end(raw') = {4}
    <3>. DEFINE done == Complete(raw'[2], body_bytes(raw', 4))
    <3>1. \/ raw'[1][2] = 0 /\ Fail("invalid")
          \/ /\ raw'[1][2] # 0
             /\ \/ done = {} /\ UNCHANGED <<pc, reply>>
                \/ \E body \in done : Return(body)
      BY <2>2, <2>9 DEF Settle
    <3>2. CASE raw'[1][2] # 0 /\ done = {} /\ UNCHANGED <<pc, reply>>
      <4>1. Waiting'
        BY <2>9, <3>2 DEF Waiting
      <4>. QED BY <2>5, <3>2, <4>1
    <3>. QED BY <2>6, <2>7, <2>9, <3>1, <3>2
  <2>. QED BY <2>4, <2>8, <2>9
<1>3. CASE EndOfStream
  <2>1. /\ pc = "reading" /\ response' = response /\ raw' = raw /\ ended' = TRUE
        /\ pc' = "done"
    BY <1>3 DEF EndOfStream, Fail, Return
  <2>2. Held' /\ Waiting'
    BY <1>0, <2>1 DEF Held, Waiting
  <2>3. CASE Fail("eof")
    <3>1. (Typed(reply) /\ Answers(response, raw, ended, reply))'
      BY <2>3, ErrorsAnswer DEF Fail
    <3>. QED BY <2>2, <3>1 DEF IInv
  <2>4. ASSUME NEW end \in header_end(raw),
               NEW b \in Cut(raw[2], body_bytes(raw, end)), Return(b)
        PROVE  IInv'
    <3>1. /\ end = 4 /\ (raw[1][2] # 0 <=> response.status = "ok")
          /\ raw[2] = HeaderOf(response)
          /\ Begins(Content(response), body_bytes(raw, 4))
          /\ raw = Wire(response) => body_bytes(raw, 4) = Content(response)
      BY <1>0, <2>4, HeadStands
    <3>2. raw[1][2] # 0 /\ Complete(raw[2], body_bytes(raw, 4)) = {}
      BY <2>1, <2>4, <3>1 DEF IInv, Waiting
    <3>3. /\ b \in Seq(Data) /\ IsPrefix(b, Intended(response)) /\ response.framing # "chunked"
          /\ body_bytes(raw, 4) = Content(response) => b = Intended(response)
      BY <1>0, <2>4, <3>1, <3>2, CutIsAPrefix
    <3>4. reply' = [kind |-> "ok", body |-> b]
      BY <2>4 DEF Return
    <3>5. Typed(reply')
      BY <3>3, <3>4 DEF Typed
    <3>6. Answers(response', raw', ended', reply')
      BY <2>1, <3>1, <3>2, <3>3, <3>4 DEF Answers
    <3>. QED BY <2>2, <3>5, <3>6 DEF IInv
  <2>. QED BY <1>3, <2>3, <2>4 DEF EndOfStream
<1>4. CASE TimeOut
  <2>1. /\ pc' = "done" /\ reply' = [kind |-> "timeout", body |-> <<>>]
        /\ response' = response /\ raw' = raw /\ ended' = ended
    BY <1>4 DEF TimeOut, Fail
  <2>2. Held' /\ Waiting'
    BY <2>1 DEF IInv, Held, Waiting
  <2>3. (Typed(reply) /\ Answers(response, raw, ended, reply))'
    BY <2>1, ErrorsAnswer
  <2>. QED BY <2>2, <2>3 DEF IInv
<1>5. CASE ReadFails
  <2>1. /\ pc' = "done" /\ reply' = [kind |-> "io", body |-> <<>>]
        /\ response' = response /\ raw' = raw /\ ended' = ended
    BY <1>5 DEF ReadFails, Fail
  <2>2. Held' /\ Waiting'
    BY <2>1 DEF IInv, Held, Waiting
  <2>3. (Typed(reply) /\ Answers(response, raw, ended, reply))'
    BY <2>1, ErrorsAnswer
  <2>. QED BY <2>2, <2>3 DEF IInv
<1>6. CASE UNCHANGED vars
  BY <1>6 DEF IInv, Held, Waiting, vars
<1>. QED BY <1>1, <1>2, <1>3, <1>4, <1>5, <1>6 DEF Next

\* The invariant holds throughout.
LEMMA InvHolds == Spec => []IInv
BY InitInv, StepInv, PTL DEF Spec

\* Every variable keeps its type, and the client holds a beginning of what the server
\* sends.  (request, src/src/http.rs:141-222)
THEOREM TypeCorrect == Spec => []TypeOK
<1>1. IInv => TypeOK
  <2>. SUFFICES ASSUME IInv PROVE TypeOK
    OBVIOUS
  <2>1. Wire(response) \in Seq(Unit)
    BY WireStands DEF IInv, Held
  <2>2. raw \in Seq(Unit) /\ Len(raw) <= Len(Wire(response))
        /\ \A i \in 1 .. Len(raw) : raw[i] = Wire(response)[i]
    BY DEF IInv, Held, Begins
  <2>3. IsPrefix(raw, Wire(response))
    BY <2>1, <2>2, PrefixMeans
  <2>. QED BY <2>3 DEF IInv, Held, Typed, TypeOK
<1>. QED BY <1>1, InvHolds, PTL

\* A body returned as whole is the body that the server meant, whatever the response and
\* however it was cut into segments.  (request and decode_chunked_body,
\* src/src/http.rs:141-255)
THEOREM BodyIsAlwaysTheServers == Spec => []BodyIsTheServers
<1>1. IInv => BodyIsTheServers
  BY DEF IInv, Answers, BodyIsTheServers
<1>. QED BY <1>1, InvHolds, PTL

\* A client that holds a complete response has answered.  (the three body loops,
\* src/src/http.rs:180-213)
THEOREM NeverWaitsWhenComplete == Spec => []NeverWaitsForMore
<1>1. IInv => NeverWaitsForMore
  <2>. SUFFICES ASSUME IInv, raw = Wire(response), response.status = "ok",
                       \/ response.framing = "chunked" /\ ~response.malformed
                       \/ /\ response.framing = "length"
                          /\ response.declared <= Len(FlattenSeq(response.chunks)),
                       pc # "done"
                PROVE  FALSE
    BY DEF NeverWaitsForMore
  <2>1. /\ response \in Response /\ Begins(Wire(response), raw)
        /\ pc \in {"connecting", "reading"} /\ (pc = "connecting" => raw = <<>>)
    BY DEF IInv, Held
  <2>2. ~(Len(raw) < 4)
    BY <2>1, WireStands
  <2>3. /\ header_end(raw) = {4} /\ raw[2] = HeaderOf(response)
        /\ Begins(Content(response), body_bytes(raw, 4))
        /\ body_bytes(raw, 4) = Content(response)
    BY <2>1, <2>2, HeadStands
  <2>4. pc = "reading"
    <3>1. raw = <<>> => Len(raw) < 4
      OBVIOUS
    <3>. QED BY <2>1, <2>2, <3>1
  <2>5. Complete(HeaderOf(response), body_bytes(raw, 4)) = {}
    BY <2>3, <2>4 DEF IInv, Waiting
  <2>6. Complete(HeaderOf(response), body_bytes(raw, 4)) # {}
    BY <2>1, <2>3, CompleteIsIntended
  <2>. QED BY <2>5, <2>6
<1>. QED BY <1>1, InvHolds, PTL
================================================================================
