----------------------------- MODULE TextProofs -----------------------------
(***************************************************************************)
(* Theorems about the administrator protocol, for any texts and answers,   *)
(* any magic strings, any size of a byte and of the size field; and about  *)
(* the pure algorithms, for any inputs of the kind they are called with:   *)
(* sources, commands, directories, headers, addresses, forms and cookies.  *)
(***************************************************************************)
EXTENDS AdminProtocol, Algorithms, WellFoundedInduction, NaturalsInduction, FiniteSetTheorems,
    TLAPS

-----------------------------------------------------------------------------
(* Arithmetic of the size field *)

\* Adding one byte to a size read so far.
LEMMA OneMoreByte ==
    ASSUME NEW n \in Nat, NEW b \in Nat \ {0}, NEW d \in Nat \ {0}
    PROVE  (n \div (b * d)) * b + ((n \div d) % b) = n \div d
<1> DEFINE q == n \div d
           r == q \div b
<1>1. q \in Nat /\ d * q <= n /\ n < d * q + d
  OBVIOUS
<1>2. r \in Nat /\ b * r <= q /\ q < b * r + b /\ q = b * r + (q % b)
  BY <1>1
<1>3. (b * d) \in Nat \ {0}
  OBVIOUS
<1>4. (b * d) * r <= n
  <2>1. d * (b * r) <= d * q
    BY <1>1, <1>2
  <2> QED BY <1>1, <1>2, <2>1
<1>5. n < (b * d) * r + (b * d)
  <2>1. q + 1 <= b * r + b
    BY <1>1, <1>2
  <2>2. d * (q + 1) <= d * (b * r + b)
    BY <1>1, <1>2, <2>1
  <2> QED BY <1>1, <1>2, <2>2
<1>6. n \div (b * d) = r
  <2> DEFINE e == b * d
  <2>1. e \in Nat \ {0} /\ e * r <= n /\ n < e * r + e
    BY <1>3, <1>4, <1>5
  <2> HIDE DEF e, r
  <2>2. n \div e = r
    BY <2>1, <1>2
  <2> QED BY <2>2 DEF e
<1> QED BY <1>2, <1>6

\* A quotient is not larger, and smaller than the base if there is one byte.
LEMMA Quotient ==
    ASSUME NEW n \in Nat, NEW d \in Nat \ {0}
    PROVE  /\ n \div d \in Nat
           /\ n \div d <= n
<1>1. n \div d \in Nat /\ d * (n \div d) <= n
  OBVIOUS
<1>2. (n \div d) <= d * (n \div d)
  BY <1>1
<1> QED BY <1>1, <1>2

\* A quotient is small when what is divided is.
LEMMA QuotientSmall ==
    ASSUME NEW n \in Nat, NEW b \in Nat \ {0}, NEW d \in Nat \ {0}, n < b * d
    PROVE  n \div d < b
<1> DEFINE q == n \div d
<1>1. q \in Nat /\ d * q <= n
  OBVIOUS
<1>2. SUFFICES ASSUME q >= b PROVE FALSE
  BY <1>1
<1>3. d * b <= d * q
  BY <1>1, <1>2
<1> QED BY <1>1, <1>3

\* The weights of the bytes of a size.
LEMMA Weights ==
    /\ \A k \in 0 .. SizeBytes : Weight[k] \in Nat \ {0}
    /\ \A k \in 0 .. SizeBytes - 1 : k + 1 \in 0 .. SizeBytes
    /\ \A n \in Nat : n \div Weight[SizeBytes] = n
<1>1. SizeBytes \in 0 .. SizeBytes /\ Weight[SizeBytes] = 1
  BY SizeAssumption
<1> QED BY <1>1, SizeAssumption

\* What a context has of the size after k bytes of it, and what the next
\* byte makes of it.
LEMMA SizeGrows ==
    ASSUME NEW n \in Nat, n < Weight[0], NEW k \in 0 .. SizeBytes - 1
    PROVE  /\ n \div Weight[0] = 0
           /\ n \div Weight[k + 1] \in Nat
           /\ ((n \div Weight[k]) * Base + ((n \div Weight[k + 1]) % Base))
                    % Weight[0] = n \div Weight[k + 1]
<1>1. /\ Weight[0] \in Nat \ {0} /\ Weight[k] = Base * Weight[k + 1]
      /\ Weight[k + 1] \in Nat \ {0} /\ Base \in Nat \ {0}
  BY Weights, SizeAssumption
<1>2. n \div Weight[0] = 0
  BY <1>1
<1>3. (n \div Weight[k]) * Base + ((n \div Weight[k + 1]) % Base)
            = n \div Weight[k + 1]
  BY <1>1, OneMoreByte
<1>4. n \div Weight[k + 1] \in Nat /\ n \div Weight[k + 1] <= n
  BY <1>1, Quotient
<1> DEFINE x == n \div Weight[k + 1]
           w == Weight[0]
<1>5. x \in Nat /\ w \in Nat \ {0} /\ x < w
  BY <1>1, <1>4
<1> HIDE DEF x, w
<1>6. x % w = x
  BY <1>5
<1> QED BY <1>2, <1>3, <1>4, <1>6 DEF x, w

-----------------------------------------------------------------------------
(* Messages *)

\* Where the elements of two sequences are in their concatenation.
LEMMA Concatenation ==
    ASSUME NEW S, NEW s \in Seq(S), NEW t \in Seq(S)
    PROVE  /\ s \o t \in Seq(S)
           /\ Len(s \o t) = Len(s) + Len(t)
           /\ \A i \in 1 .. Len(s) : (s \o t)[i] = s[i]
           /\ \A j \in 1 .. Len(t) : (s \o t)[Len(s) + j] = t[j]
OBVIOUS

\* The bytes of generate_ac_msg_gen_case(content, ms).
LEMMA MessageBytes ==
    ASSUME NEW ms \in Seq(Byte), NEW content \in Seq(Byte)
    PROVE  LET M == generate_ac_msg_gen_case(content, ms)
           IN  /\ M \in Seq(Byte)
               /\ Len(M) = Len(ms) + SizeBytes + Len(content)
               /\ \A i \in 1 .. Len(ms) : M[i] = ms[i]
               /\ \A k \in 1 .. SizeBytes :
                    M[Len(ms) + k] = (Len(content) \div Weight[k]) % Base
               /\ \A j \in 1 .. Len(content) :
                    M[Len(ms) + SizeBytes + j] = content[j]
<1> DEFINE f == SizeField(Len(content))
<1>1. \A k \in 1 .. SizeBytes : (Len(content) \div Weight[k]) % Base \in Byte
  <2> TAKE k \in 1 .. SizeBytes
  <2>1. Weight[k] \in Nat \ {0} /\ Base \in Nat \ {0} /\ Len(content) \in Nat
    BY Weights, SizeAssumption
  <2>2. Len(content) \div Weight[k] \in Nat
    BY <2>1, Quotient
  <2> HIDE DEF f
  <2> DEFINE x == Len(content) \div Weight[k]
  <2>3. x \in Nat
    BY <2>2
  <2> HIDE DEF x
  <2>4. x % Base \in 0 .. Base - 1
    BY <2>1, <2>3
  <2> QED BY <2>4 DEF x, Byte
<1>2. /\ f \in Seq(Byte) /\ Len(f) = SizeBytes
      /\ \A k \in 1 .. SizeBytes : f[k] = (Len(content) \div Weight[k]) % Base
  <2>1. SizeBytes \in Nat
    BY SizeAssumption
  <2>2. f = [k \in 1 .. SizeBytes |-> (Len(content) \div Weight[k]) % Base]
    BY DEF SizeField
  <2> HIDE DEF f
  <2>3. f \in [1 .. SizeBytes -> Byte]
    BY <1>1, <2>2
  <2>4. f \in Seq(Byte) /\ Len(f) = SizeBytes
    BY <2>1, <2>3
  <2> QED BY <2>2, <2>4
<1> HIDE DEF f
<1>3. generate_ac_msg_gen_case(content, ms) = ms \o f \o content
  BY DEF generate_ac_msg_gen_case, f
<1> DEFINE g == ms \o f
<1>4. /\ g \in Seq(Byte) /\ Len(g) = Len(ms) + SizeBytes
      /\ \A i \in 1 .. Len(ms) : g[i] = ms[i]
      /\ \A k \in 1 .. SizeBytes : g[Len(ms) + k] = f[k]
  <2>1. f \in Seq(Byte) /\ Len(f) = SizeBytes
    BY <1>2
  <2> QED BY <2>1, Concatenation
<1> HIDE DEF g
<1> DEFINE M == g \o content
<1>5. /\ M \in Seq(Byte) /\ Len(M) = Len(g) + Len(content)
      /\ \A i \in 1 .. Len(g) : M[i] = g[i]
      /\ \A j \in 1 .. Len(content) : M[Len(g) + j] = content[j]
  <2>1. g \in Seq(Byte)
    BY <1>4
  <2> QED BY <2>1, Concatenation
<1> HIDE DEF M
<1>6. /\ \A i \in 1 .. Len(ms) : i \in 1 .. Len(g)
      /\ \A k \in 1 .. SizeBytes : Len(ms) + k \in 1 .. Len(g)
  BY <1>4, SizeAssumption
<1>7. /\ \A i \in 1 .. Len(ms) : M[i] = ms[i]
      /\ \A k \in 1 .. SizeBytes : M[Len(ms) + k] = f[k]
  BY <1>4, <1>5, <1>6
<1>8. M = generate_ac_msg_gen_case(content, ms)
  BY <1>3 DEF M, g
<1>9. \A j \in 1 .. Len(content) : M[Len(ms) + SizeBytes + j] = content[j]
  BY <1>4, <1>5
<1> QED BY <1>2, <1>4, <1>5, <1>7, <1>8, <1>9

-----------------------------------------------------------------------------
(* Contexts *)

\* A context that has been fed n bytes of a message: some of the magic
\* string of m bytes, then some of the size b, then some of the body.
TracksMagic(ctx, m, n) ==
    /\ n <= m
    /\ ctx.magic_string_progress = n /\ ctx.body_size_progress = 0
    /\ ctx.b_sz = 0 /\ ctx.body = <<>> /\ ctx.status = 0

TracksSize(ctx, m, b, n) ==
    /\ n > m /\ n <= m + SizeBytes
    /\ ctx.magic_string_progress = m /\ ctx.body_size_progress = n - m
    /\ ctx.b_sz = b \div Weight[n - m] /\ ctx.body = <<>>
    /\ ctx.status = IF n = m + SizeBytes /\ b > MaxBody THEN -1 ELSE 0

TracksBody(ctx, m, content, n) ==
    /\ n > m + SizeBytes
    /\ ctx.magic_string_progress = m /\ ctx.body_size_progress = SizeBytes
    /\ ctx.b_sz = Len(content) /\ Len(content) <= MaxBody
    /\ Len(ctx.body) = n - m - SizeBytes /\ Len(ctx.body) <= Len(content)
    /\ \A i \in 1 .. Len(ctx.body) : ctx.body[i] = content[i]
    /\ ctx.status = IF Len(ctx.body) = Len(content) THEN 1 ELSE 0

Tracks(ctx, ms, content, n) ==
    /\ ctx \in Ctx /\ n \in Nat
    /\ \/ TracksMagic(ctx, Len(ms), n)
       \/ TracksSize(ctx, Len(ms), Len(content), n)
       \/ TracksBody(ctx, Len(ms), content, n)

\* A message is fed byte by byte.
LEMMA FeedTracks ==
    ASSUME NEW ms \in Seq(Byte), NEW content \in Seq(Byte),
           Len(content) < Weight[0],
           NEW n, NEW ctx, Tracks(ctx, ms, content, n), ctx.status = 0,
           n < Len(generate_ac_msg_gen_case(content, ms))
    PROVE  Tracks(feedCharacter(ctx, ms,
                    generate_ac_msg_gen_case(content, ms)[n + 1]),
                  ms, content, n + 1)
<1> DEFINE m == Len(ms)
           b == Len(content)
           ch == generate_ac_msg_gen_case(content, ms)[n + 1]
           next == feedCharacter(ctx, ms, ch)
<1>1. /\ n \in Nat /\ m \in Nat /\ b \in Nat /\ n < m + SizeBytes + b
      /\ n < m => ch = ms[n + 1]
      /\ n >= m /\ n < m + SizeBytes => ch = (b \div Weight[n - m + 1]) % Base
      /\ n >= m + SizeBytes =>
            /\ n + 1 - m - SizeBytes \in 1 .. b
            /\ ch = content[n + 1 - m - SizeBytes]
  <2> DEFINE M == generate_ac_msg_gen_case(content, ms)
  <2>1. /\ Len(M) = m + SizeBytes + b
        /\ \A i \in 1 .. m : M[i] = ms[i]
        /\ \A k \in 1 .. SizeBytes : M[m + k] = (b \div Weight[k]) % Base
        /\ \A j \in 1 .. b : M[m + SizeBytes + j] = content[j]
    BY MessageBytes
  <2> HIDE DEF M
  <2>2. n \in Nat /\ m \in Nat /\ b \in Nat /\ SizeBytes \in Nat /\ n < m + SizeBytes + b
    BY <2>1, SizeAssumption DEF Tracks, M
  <2>3. n < m => M[n + 1] = ms[n + 1]
    BY <2>1, <2>2
  <2>4. ASSUME n >= m, n < m + SizeBytes
        PROVE  M[n + 1] = (b \div Weight[n - m + 1]) % Base
    <3>1. n - m + 1 \in 1 .. SizeBytes /\ m + (n - m + 1) = n + 1
      BY <2>2, <2>4
    <3>2. M[m + (n - m + 1)] = (b \div Weight[n - m + 1]) % Base
      BY <2>1, <3>1
    <3> QED BY <3>1, <3>2
  <2>5. ASSUME n >= m + SizeBytes
        PROVE  /\ n + 1 - m - SizeBytes \in 1 .. b
               /\ M[n + 1] = content[n + 1 - m - SizeBytes]
    <3> DEFINE j == n + 1 - m - SizeBytes
    <3>1. j \in 1 .. b /\ m + SizeBytes + j = n + 1
      BY <2>2, <2>5
    <3> HIDE DEF j
    <3>2. M[m + SizeBytes + j] = content[j]
      BY <2>1, <3>1
    <3> QED BY <3>1, <3>2 DEF j
  <2> QED BY <2>2, <2>3, <2>4, <2>5 DEF M
<1>2. ch \in Byte
  <2> DEFINE M == generate_ac_msg_gen_case(content, ms)
  <2>1. M \in Seq(Byte)
    BY MessageBytes
  <2> HIDE DEF M
  <2>2. n \in Nat /\ n < Len(M)
    BY <1>1 DEF M
  <2>3. M[n + 1] \in Byte
    BY <2>1, <2>2
  <2> QED BY <2>3 DEF M
<1> HIDE DEF ch
<1>num. n \in Nat /\ m \in Nat /\ b \in Nat /\ SizeBytes \in Nat \ {0}
  BY <1>1, SizeAssumption
<1>3. CASE n < m
  <2>1. /\ ctx \in Ctx /\ ctx.magic_string_progress = n
        /\ ctx.body_size_progress = 0
        /\ ctx.b_sz = 0 /\ ctx.body = <<>> /\ ctx.status = 0
    BY <1>1, <1>3, SizeAssumption DEF Tracks, TracksMagic, TracksSize, TracksBody
  <2>2. next = [ctx EXCEPT !.magic_string_progress = n + 1]
    BY <1>1, <1>3, <2>1 DEF feedCharacter, FeedMagic
  <2>3. /\ next \in Ctx /\ next.magic_string_progress = n + 1
        /\ next.body_size_progress = 0
        /\ next.b_sz = 0 /\ next.body = <<>> /\ next.status = 0
    BY SMTT(30), <1>1, <2>1, <2>2 DEF Ctx
  <2> HIDE DEF next
  <2>4. Tracks(next, ms, content, n + 1)
    BY <1>1, <1>3, <2>3 DEF Tracks, TracksMagic
  <2> QED BY <2>4 DEF next, ch
<1>4. CASE n >= m /\ n < m + SizeBytes
  <2> DEFINE k == n - m
  <2>1. /\ k \in 0 .. SizeBytes - 1 /\ n - m + 1 = k + 1 /\ (n + 1) - m = k + 1
        /\ SizeBytes \in Nat
    BY <1>1, <1>4, SizeAssumption
  <2>2. /\ b \div Weight[0] = 0
        /\ b \div Weight[k + 1] \in Nat
        /\ ((b \div Weight[k]) * Base + ((b \div Weight[k + 1]) % Base))
                % Weight[0] = b \div Weight[k + 1]
    BY <1>1, <2>1, SizeGrows
  <2>3. /\ ctx \in Ctx /\ ctx.magic_string_progress = m
        /\ ctx.body_size_progress = k
        /\ ctx.b_sz = b \div Weight[k] /\ ctx.body = <<>> /\ ctx.status = 0
    <3>1. CASE n = m
      BY <1>1, <2>1, <2>2, <3>1 DEF Tracks, TracksMagic, TracksSize, TracksBody
    <3>2. CASE n > m
      BY <1>1, <1>4, <2>1, <3>2 DEF Tracks, TracksMagic, TracksSize, TracksBody
    <3> QED BY <1>1, <1>4, <3>1, <3>2
  <2>4. ch = (b \div Weight[k + 1]) % Base
    BY <1>1, <1>4, <2>1
  <2> DEFINE size == b \div Weight[k + 1]
             st == IF k + 1 = SizeBytes /\ size > MaxBody THEN -1 ELSE 0
  <2>5. (ctx.b_sz * Base + ch) % Weight[0] = size
    BY <2>2, <2>3, <2>4
  <2>6. k + 1 = SizeBytes => size = b
    BY <1>1, Weights
  <2>7. size \in Nat
    BY <2>2
  <2> HIDE DEF size
  <2>8. next = [ctx EXCEPT !.b_sz = size, !.body_size_progress = k + 1,
                           !.status = st]
    <3>1. ~(ctx.magic_string_progress < Len(ms))
      BY <1>num, <2>3
    <3>2. ctx.body_size_progress < SizeBytes
      BY <2>1, <2>3
    <3>3. next = FeedSize(ctx, ch)
      BY <3>1, <3>2 DEF feedCharacter
    <3> HIDE DEF next
    <3>4. FeedSize(ctx, ch) =
            [ctx EXCEPT !.b_sz = size, !.body_size_progress = k + 1, !.status = st]
      BY <2>3, <2>5, Zenon DEF FeedSize
    <3> QED BY <3>3, <3>4
  <2>9. /\ next \in Ctx /\ next.magic_string_progress = m
        /\ next.body_size_progress = k + 1
        /\ next.b_sz = size /\ next.body = <<>> /\ next.status = st
    <3>1. k + 1 \in 0 .. SizeBytes /\ st \in {-1, 0, 1}
      BY <2>1
    <3> QED BY <2>3, <2>7, <2>8, <3>1 DEF Ctx
  <2> HIDE DEF next
  <2>10. st = IF n + 1 = m + SizeBytes /\ b > MaxBody THEN -1 ELSE 0
    BY <1>1, <2>1, <2>6
  <2>11. n + 1 > m /\ n + 1 <= m + SizeBytes /\ n + 1 \in Nat
    BY <1>1, <1>4, <2>1
  <2>12. TracksSize(next, m, b, n + 1)
    BY <2>1, <2>9, <2>10, <2>11 DEF TracksSize, size
  <2>13. Tracks(next, ms, content, n + 1)
    BY <2>9, <2>11, <2>12 DEF Tracks
  <2> QED BY <2>13 DEF next, ch
<1>5. CASE n >= m + SizeBytes
  <2>1. /\ ctx \in Ctx /\ ctx.magic_string_progress = m
        /\ ctx.body_size_progress = SizeBytes /\ ctx.b_sz = b /\ b <= MaxBody
        /\ ctx.body \in Seq(Byte)
        /\ Len(ctx.body) = n - m - SizeBytes
        /\ \A i \in 1 .. Len(ctx.body) : ctx.body[i] = content[i]
    <3>1. CASE n = m + SizeBytes
      <4>1. b \div Weight[SizeBytes] = b /\ n - m = SizeBytes
        BY <1>1, <3>1, Weights, SizeAssumption
      <4>2. ~TracksMagic(ctx, m, n) /\ ~TracksBody(ctx, m, content, n)
        BY <1>1, <3>1, SizeAssumption DEF TracksMagic, TracksBody
      <4>3. TracksSize(ctx, m, b, n) /\ ctx \in Ctx /\ ctx.body \in Seq(Byte)
        BY <4>2 DEF Tracks, Ctx
      <4>4. /\ ctx.magic_string_progress = m /\ ctx.body_size_progress = SizeBytes
            /\ ctx.b_sz = b /\ ctx.body = <<>> /\ ~(b > MaxBody)
        BY <3>1, <4>1, <4>3 DEF TracksSize
      <4> QED BY <1>1, <3>1, <4>3, <4>4, SizeAssumption
    <3>2. CASE n > m + SizeBytes
      <4>1. ~TracksMagic(ctx, m, n) /\ ~TracksSize(ctx, m, b, n)
        BY <1>1, <3>2, SizeAssumption DEF TracksMagic, TracksSize
      <4>2. TracksBody(ctx, m, content, n) /\ ctx \in Ctx /\ ctx.body \in Seq(Byte)
        BY <4>1 DEF Tracks, Ctx
      <4> QED BY <4>2 DEF TracksBody
    <3>3. n = m + SizeBytes \/ n > m + SizeBytes
      BY <1>num, <1>5
    <3> QED BY <3>1, <3>2, <3>3
  <2> DEFINE body == Append(ctx.body, ch)
             st == IF Len(body) = b THEN 1 ELSE 0
  <2>2. SizeBytes \in Nat /\ n + 1 - m - SizeBytes = Len(ctx.body) + 1
    BY <1>1, <2>1, SizeAssumption
  <2>3. /\ body \in Seq(Byte) /\ Len(body) = Len(ctx.body) + 1
        /\ \A i \in 1 .. Len(ctx.body) : body[i] = ctx.body[i]
        /\ body[Len(ctx.body) + 1] = ch
    BY <1>2, <2>1
  <2>4. Len(body) \in 1 .. b /\ body[Len(body)] = content[Len(body)]
    BY <1>1, <1>5, <2>2, <2>3
  <2>5. \A i \in 1 .. Len(body) : body[i] = content[i]
    BY <2>1, <2>3, <2>4
  <2>6. (Len(ctx.body) + 1 >= ctx.b_sz) <=> (Len(body) = b)
    BY <1>1, <2>1, <2>3, <2>4
  <2>7. next = [ctx EXCEPT !.body = body, !.status = st]
    <3>1. ~(ctx.magic_string_progress < Len(ms))
      BY <1>1, <2>1
    <3>2. ~(ctx.body_size_progress < SizeBytes)
      BY <2>1, <2>2
    <3>3. next = FeedBody(ctx, ch)
      BY <3>1, <3>2 DEF feedCharacter
    <3>4. st = IF Len(ctx.body) + 1 >= ctx.b_sz THEN 1 ELSE 0
      BY <2>6
    <3> HIDE DEF next, st
    <3> QED BY <3>3, <3>4 DEF FeedBody
  <2> HIDE DEF body
  <2>8. /\ next \in Ctx /\ next.magic_string_progress = m
        /\ next.body_size_progress = SizeBytes /\ next.b_sz = b
        /\ next.body = body /\ next.status = st
    BY <2>1, <2>3, <2>7 DEF Ctx
  <2> HIDE DEF next
  <2>9. n + 1 > m + SizeBytes /\ n + 1 \in Nat /\ Len(body) = n + 1 - m - SizeBytes
    BY <1>1, <1>5, <2>2, <2>3
  <2>10. TracksBody(next, m, content, n + 1)
    BY <1>num, <2>1, <2>4, <2>5, <2>8, <2>9 DEF TracksBody
  <2>11. Tracks(next, ms, content, n + 1)
    BY <2>8, <2>9, <2>10 DEF Tracks
  <2> QED BY <2>11 DEF next, ch
<1> QED BY <1>1, <1>3, <1>4, <1>5, SizeAssumption

\* A message is recognised with its last byte, if its body is not empty, and
\* what is recognised is the message.
LEMMA WholeMessage ==
    ASSUME NEW ms \in Seq(Byte), NEW content \in Seq(Byte),
           NEW n, NEW ctx, Tracks(ctx, ms, content, n)
    PROVE  /\ ctx.status = 1 => ctx.body = content
           /\ content # <<>> /\ n = Len(generate_ac_msg_gen_case(content, ms))
                => ctx.status # 0
<1> DEFINE m == Len(ms)
           b == Len(content)
<1>1. /\ m \in Nat /\ b \in Nat /\ n \in Nat /\ SizeBytes \in Nat \ {0}
      /\ ctx.body \in Seq(Byte)
  BY SizeAssumption, SMTT(30) DEF Tracks, Ctx
<1>2. ASSUME ctx.status = 1 PROVE ctx.body = content
  <2>1. TracksBody(ctx, m, content, n) /\ Len(ctx.body) = b
    BY <1>2 DEF Tracks, TracksMagic, TracksSize, TracksBody
  <2>2. \A i \in 1 .. b : ctx.body[i] = content[i]
    BY <2>1 DEF TracksBody
  <2> QED BY <1>1, <2>1, <2>2
<1>3. ASSUME content # <<>>, n = Len(generate_ac_msg_gen_case(content, ms))
      PROVE  ctx.status # 0
  <2>1. n = m + SizeBytes + b
    BY <1>3, MessageBytes
  <2>2. b > 0
    BY <1>1, <1>3
  <2>3. TracksBody(ctx, m, content, n)
    BY <1>1, <2>1, <2>2 DEF Tracks, TracksMagic, TracksSize
  <2>4. Len(ctx.body) = b
    BY <1>1, <2>1, <2>3 DEF TracksBody
  <2> QED BY <2>3, <2>4 DEF TracksBody
<1> QED BY <1>2, <1>3

-----------------------------------------------------------------------------
(* The inductive invariant *)

\* Both contexts have been fed what was read, and how far each program has
\* got follows from its context.
Progress ==
    /\ Tracks(srvCtx, admin_to_server_ms, text, readUp)
    /\ Tracks(cliCtx, server_to_admin_ms, Reply(text), readDown)
    /\ srv \in {"queued", "receiving"} => srvCtx.status = 0
    /\ srv \in {"executing", "sending"} => srvCtx.status = 1
    /\ cli \in {"sending", "receiving"} => cliCtx.status = 0

\* The answer follows the transaction, the transaction follows the text.
Order ==
    /\ executed \in {<<>>, <<text>>}
    /\ srv \in {"queued", "receiving", "executing"} => executed = <<>>
    /\ srv = "sending" => executed = <<text>>
    /\ executed = <<>> => sentDown = 0
    /\ output = IF cli = "output" THEN Reply(text) ELSE NoOutput
    /\ cli = "output" => executed = <<text>>

Inv == TypeOK /\ Progress /\ Order

\* The answer and the two magic strings are bytes, and their sizes fit the
\* size field.
LEMMA Constants ==
    ASSUME text \in Texts
    PROVE  /\ admin_to_server_ms \in Seq(Byte) /\ server_to_admin_ms \in Seq(Byte)
           /\ text \in Seq(Byte) /\ Len(text) < Weight[0]
           /\ Reply(text) \in Seq(Byte) /\ Reply(text) # <<>>
           /\ Len(Reply(text)) < Weight[0]
BY TextAssumption

\* Both messages have a length.
LEMMA Lengths ==
    ASSUME text \in Texts
    PROVE  Len(RequestMsg) \in Nat /\ Len(ResponseMsg) \in Nat
<1>1. RequestMsg \in Seq(Byte) /\ ResponseMsg \in Seq(Byte)
  BY Constants, MessageBytes DEF RequestMsg, ResponseMsg
<1> QED BY <1>1

\* The invariant holds at the start: nothing is sent, nothing is read.
LEMMA InitInv == Init => Inv
<1> SUFFICES ASSUME Init PROVE Inv
  OBVIOUS
<1>1. NewCtx \in Ctx
  BY SizeAssumption DEF NewCtx, Ctx
<1>2. ASSUME NEW ms \in Seq(Byte), NEW content \in Seq(Byte)
      PROVE  Tracks(NewCtx, ms, content, 0)
  BY <1>1 DEF Tracks, TracksMagic, NewCtx
<1>3. TypeOK
  BY <1>1, Lengths DEF Init, TypeOK
<1>4. Progress
  BY <1>2, Constants DEF Init, Progress, NewCtx
<1>5. Order
  BY DEF Init, Order
<1> QED BY <1>3, <1>4, <1>5 DEF Inv

\* What is recognised was typed.
LEMMA Recognised ==
    ASSUME Inv
    PROVE  /\ srvCtx.status = 1 => srvCtx.body = text
           /\ cliCtx.status = 1 => cliCtx.body = Reply(text)
BY Constants, WholeMessage DEF Inv, TypeOK, Progress

\* The messages do not change while they are on their way.
LEMMA SameText ==
    ASSUME text' = text
    PROVE  RequestMsg' = RequestMsg /\ ResponseMsg' = ResponseMsg
BY DEF RequestMsg, ResponseMsg, generate_ac_msg_gen_case, SizeField

\* A context goes on tracking a direction in which nothing is read.
LEMMA TracksStays ==
    ASSUME text' = text
    PROVE  /\ srvCtx' = srvCtx /\ readUp' = readUp
                => (Tracks(srvCtx, admin_to_server_ms, text, readUp)
                    => Tracks(srvCtx, admin_to_server_ms, text, readUp)')
           /\ cliCtx' = cliCtx /\ readDown' = readDown
                => (Tracks(cliCtx, server_to_admin_ms, Reply(text), readDown)
                    => Tracks(cliCtx, server_to_admin_ms, Reply(text), readDown)')
BY DEF Tracks, TracksMagic, TracksSize, TracksBody, Ctx

\* Steps that read nothing and execute nothing.
LEMMA QuietSteps ==
    ASSUME Inv,
           UNCHANGED <<text, cliCtx, srvCtx, readUp, readDown, executed, output>>,
           cli' \in {"sending", "receiving", "failed"},
           cli' = cli \/ cli # "output",
           cli' # "failed" => cli # "failed",
           sentUp' \in 0 .. Len(RequestMsg) /\ readUp <= sentUp',
           sentDown' \in 0 .. Len(ResponseMsg) /\ readDown <= sentDown',
           sentDown' = sentDown \/ srv = "sending",
           srv' \in {"queued", "receiving", "executing", "sending", "closed"},
           srv' = srv \/ srv' = "closed" \/ (srv = "queued" /\ srv' = "receiving")
    PROVE  Inv'
<1>1. TypeOK'
  BY SameText DEF Inv, TypeOK, Ctx
<1>2. Progress'
  BY TracksStays DEF Inv, TypeOK, Progress
<1>3. Order'
  <2>1. srv' \in {"queued", "receiving", "executing"} => executed = <<>>
    BY DEF Inv, TypeOK, Order
  <2>2. srv' = "sending" => executed = <<text>>
    BY DEF Inv, Order
  <2>3. executed = <<>> => sentDown' = 0
    <3>1. executed = <<>> => srv # "sending"
      BY DEF Inv, Order
    <3> QED BY <3>1 DEF Inv, Order
  <2>4. output = NoOutput /\ cli' # "output"
    BY DEF Inv, TypeOK, Order
  <2> QED BY <2>1, <2>2, <2>3, <2>4 DEF Inv, Order
<1> QED BY <1>1, <1>2, <1>3 DEF Inv

\* Every step of either side, of the network or of a time limit keeps the
\* invariant.
LEMMA NextInv == Inv /\ [Next]_vars => Inv'
<1> SUFFICES ASSUME Inv, [Next]_vars PROVE Inv'
  OBVIOUS
<1>0. /\ TypeOK /\ Progress /\ Order
      /\ Len(RequestMsg) \in Nat /\ Len(ResponseMsg) \in Nat
      /\ SendChunk \in Nat \ {0} /\ Window \in Nat \ {0}
  BY Lengths, SizeAssumption DEF Inv, TypeOK
<1>1. CASE CliSend
  <2>1. PICK n \in MayWrite(RequestMsg, sentUp, readUp) :
            /\ sentUp' = sentUp + n
            /\ cli' = IF sentUp + n = Len(RequestMsg) THEN "receiving" ELSE "sending"
    BY <1>1 DEF CliSend
  <2>2. sentUp' \in 0 .. Len(RequestMsg) /\ readUp <= sentUp'
    BY <1>0, <2>1 DEF MayWrite, TypeOK
  <2> QED BY <1>0, <1>1, <2>1, <2>2, QuietSteps DEF CliSend, TypeOK, down
<1>2. CASE CliRecv
  <2>1. Tracks(cliCtx, server_to_admin_ms, Reply(text), readDown)'
    <3>1. readDown < Len(ResponseMsg) /\ cliCtx.status = 0
      BY <1>0, <1>2 DEF CliRecv, TypeOK, Progress
    <3>2. Tracks(feedCharacter(cliCtx, server_to_admin_ms, ResponseMsg[readDown + 1]),
                 server_to_admin_ms, Reply(text), readDown + 1)
      BY <1>0, <3>1, Constants, FeedTracks DEF Progress, TypeOK, ResponseMsg
    <3>3. Tracks(cliCtx', server_to_admin_ms, Reply(text), readDown')
      BY <1>2, <3>2 DEF CliRecv
    <3> QED BY <1>2, <3>3 DEF CliRecv, Tracks, TracksMagic, TracksSize, TracksBody, Ctx
  <2>2. cliCtx' \in Ctx
    BY <2>1 DEF Tracks, Ctx
  <2>3. cliCtx'.status \in {-1, 0, 1} /\ cliCtx'.body \in Seq(Byte)
    BY <2>2 DEF Ctx
  <2>4. cliCtx'.status = 1 => cliCtx'.body = Reply(text)
    <3>1. Tracks(cliCtx', server_to_admin_ms, Reply(text), readDown')
      BY <1>2, <2>1 DEF CliRecv, Tracks, TracksMagic, TracksSize, TracksBody, Ctx
    <3> QED BY <1>0, <3>1, Constants, WholeMessage DEF TypeOK
  <2>5. TypeOK'
    <3>1. readDown' \in 0 .. sentDown
      BY <1>0, <1>2 DEF CliRecv, TypeOK
    <3>2. cli' \in {"sending", "receiving", "output", "failed"}
      BY <1>2, <2>3 DEF CliRecv
    <3>3. output' \in Seq(Byte) \cup {NoOutput}
      BY <1>0, <1>2, <2>3 DEF CliRecv, TypeOK
    <3>4. srvCtx' \in Ctx
      BY <1>0, <1>2 DEF CliRecv, TypeOK, Ctx
    <3> QED BY <1>0, <1>2, <2>2, <3>1, <3>2, <3>3, <3>4, SameText
            DEF CliRecv, TypeOK, up
  <2>6. Progress'
    BY <1>0, <1>2, <2>1, <2>3, TracksStays DEF CliRecv, Progress, up
  <2>7. executed = <<text>>
    BY <1>0, <1>2 DEF CliRecv, TypeOK, Order
  <2>8. Order'
    BY <1>0, <1>2, <2>3, <2>4, <2>7 DEF CliRecv, Order, TypeOK, up
  <2> QED BY <2>5, <2>6, <2>8 DEF Inv
<1>3. CASE CliIsCutOff \/ CliBreaks
  BY <1>0, <1>3, QuietSteps DEF CliIsCutOff, CliBreaks, CliGivesUp, TypeOK, up, down
<1>4. CASE StartServing
  BY <1>0, <1>4, QuietSteps DEF StartServing, TypeOK, up, down, Order
<1>5. CASE SrvRecv
  <2>1. Tracks(srvCtx, admin_to_server_ms, text, readUp)'
    <3>1. readUp < Len(RequestMsg) /\ srvCtx.status = 0
      BY <1>0, <1>5 DEF SrvRecv, TypeOK, Progress
    <3>2. Tracks(feedCharacter(srvCtx, admin_to_server_ms, RequestMsg[readUp + 1]),
                 admin_to_server_ms, text, readUp + 1)
      BY <1>0, <3>1, Constants, FeedTracks DEF Progress, TypeOK, RequestMsg
    <3>3. Tracks(srvCtx', admin_to_server_ms, text, readUp')
      BY <1>5, <3>2 DEF SrvRecv
    <3> QED BY <1>5, <3>3 DEF SrvRecv, Tracks, TracksMagic, TracksSize, TracksBody, Ctx
  <2>2. srvCtx' \in Ctx
    BY <2>1 DEF Tracks, Ctx
  <2>3. srvCtx'.status \in {-1, 0, 1}
    BY <2>2 DEF Ctx
  <2>4. TypeOK'
    <3>1. readUp' \in 0 .. sentUp
      BY <1>0, <1>5 DEF SrvRecv, TypeOK
    <3>2. srv' \in {"queued", "receiving", "executing", "sending", "closed"}
      BY <1>5, <2>3 DEF SrvRecv
    <3>3. cliCtx' \in Ctx
      BY <1>0, <1>5 DEF SrvRecv, TypeOK, Ctx
    <3> QED BY <1>0, <1>5, <2>2, <3>1, <3>2, <3>3, SameText
            DEF SrvRecv, TypeOK, down
  <2>5. Progress'
    BY <1>0, <1>5, <2>1, <2>3, TracksStays DEF SrvRecv, Progress, down
  <2>6. Order'
    BY <1>0, <1>5, <2>3 DEF SrvRecv, Order, down
  <2> QED BY <2>4, <2>5, <2>6 DEF Inv
<1>6. CASE SrvRecvFails \/ SrvSendFails \/ SrvBreaks
  <2>1. SrvHangsUp
    BY <1>6 DEF SrvRecvFails, SrvSendFails, SrvBreaks
  <2>2. CASE cli = "output"
    <3>1. TypeOK' /\ Progress'
      BY <1>0, <2>1, SameText, TracksStays
         DEF SrvHangsUp, TypeOK, Ctx, Progress, up, down
    <3>2. Order'
      BY <1>0, <2>1 DEF SrvHangsUp, Order, down
    <3> QED BY <3>1, <3>2 DEF Inv
  <2>3. CASE cli # "output"
    <3>1. TypeOK' /\ Progress'
      BY <1>0, <2>1, SameText, TracksStays
         DEF SrvHangsUp, TypeOK, Ctx, Progress, up, down
    <3>2. Order'
      BY <1>0, <2>1 DEF SrvHangsUp, Order, down
    <3> QED BY <3>1, <3>2 DEF Inv
  <2> QED BY <2>2, <2>3
<1>7. CASE Execute
  <2>1. executed' = <<text>>
    <3>1. executed = <<>> /\ srvCtx.body = text
      BY <1>0, <1>7, Recognised DEF Execute, Progress, Order
    <3> QED BY <1>7, <3>1 DEF Execute
  <2>2. TypeOK'
    <3>1. executed' \in Seq(Seq(Byte))
      BY <1>0, <2>1, Constants DEF TypeOK
    <3> QED BY <1>0, <1>7, <3>1, SameText DEF Execute, TypeOK, Ctx, up, down
  <2>3. Progress'
    BY <1>0, <1>7, TracksStays DEF Execute, Progress, up, down
  <2>4. Order'
    BY <1>0, <1>7, <2>1 DEF Execute, Order, up, down
  <2> QED BY <2>2, <2>3, <2>4 DEF Inv
<1>8. CASE SrvSend
  <2>1. PICK n \in MayWrite(ResponseMsg, sentDown, readDown) :
            /\ sentDown' = sentDown + n
            /\ srv' = IF sentDown + n = Len(ResponseMsg) THEN "closed" ELSE "sending"
    BY <1>8 DEF SrvSend
  <2>2. sentDown' \in 0 .. Len(ResponseMsg) /\ readDown <= sentDown'
    BY <1>0, <2>1 DEF MayWrite, TypeOK
  <2>3. TypeOK'
    BY <1>0, <1>8, <2>1, <2>2, SameText DEF SrvSend, TypeOK, Ctx, up
  <2>4. Progress'
    BY <1>0, <1>8, <2>1, TracksStays DEF SrvSend, Progress, up
  <2>5. Order'
    <3>1. executed = <<text>>
      BY <1>0, <1>8 DEF SrvSend, Order
    <3>2. srv' \in {"sending", "closed"}
      BY <2>1
    <3>3. UNCHANGED <<text, cli, executed, output>>
      BY <1>8 DEF SrvSend
    <3>4. <<text>> # <<>>
      OBVIOUS
    <3> QED BY <1>0, <3>1, <3>2, <3>3, <3>4 DEF Order
  <2> QED BY <2>3, <2>4, <2>5 DEF Inv
<1>9. CASE UNCHANGED vars
  <2>1. TypeOK'
    BY <1>0, <1>9, SameText DEF vars, up, down, TypeOK, Ctx
  <2>2. Progress' /\ Order'
    BY <1>0, <1>9, TracksStays DEF vars, up, down, Progress, Order
  <2> QED BY <2>1, <2>2 DEF Inv
<1> QED BY <1>1, <1>2, <1>3, <1>4, <1>5, <1>6, <1>7, <1>8, <1>9
        DEF Next, CliNext, SrvNext, Finished

-----------------------------------------------------------------------------
(* Theorems *)

\* The invariant of the exchange.
LEMMA Invariance == Spec => []Inv
BY InitInv, NextInv, PTL DEF Spec

\* The counters of both directions stay within the messages, whatever is
\* sent in whatever chunks.
THEOREM Typing == Spec => []TypeOK
<1>1. Inv => TypeOK
  BY DEF Inv
<1> QED BY <1>1, Invariance, PTL

\* No text but the empty one leaves the server waiting when it has read it
\* all, whatever its length and the width of the size field.
THEOREM TextsAreRecognised == Spec => []ReadsTextToTheEnd
<1>1. Inv => ReadsTextToTheEnd
  <2> SUFFICES ASSUME Inv, text # <<>>, readUp = Len(RequestMsg)
               PROVE  srvCtx.status # 0
    BY DEF ReadsTextToTheEnd, ReadsToTheEnd
  <2> QED BY Constants, WholeMessage DEF Inv, TypeOK, Progress, RequestMsg
<1> QED BY <1>1, Invariance, PTL

\* One run of the tool is one remote call, wherever it breaks.
THEOREM OneCall == Spec => ExchangeIsOneCall
<1>1. Init => Call!Init
  BY DEF Init, Call!Init
<1>2. Inv /\ [Next]_vars => [Call!Next]_(Call!vars)
  <2> SUFFICES ASSUME Inv, [Next]_vars
               PROVE  Call!Next \/ UNCHANGED Call!vars
    OBVIOUS
  <2> USE DEF Call!Next, Call!vars
  <2>1. CASE CliRecv
    <3>1. CASE cli' = "output"
      <4>1. cliCtx'.status = 1 /\ output' = Reply(text)
        <5>1. cliCtx'.status = 1
          BY <2>1, <3>1 DEF CliRecv
        <5>2. Inv'
          BY NextInv
        <5> QED BY <3>1, <5>1, <5>2, <2>1 DEF CliRecv, Inv, Order
      <4>2. executed = <<text>>
        <5>1. Inv'
          BY NextInv
        <5> QED BY <2>1, <3>1, <5>1 DEF CliRecv, Inv, Order
      <4>3. Call!Return
        BY <2>1, <3>1, <4>1, <4>2 DEF CliRecv, Call!Return, Inv, Order
      <4> QED BY <4>3
    <3>2. CASE cli' # "output"
      <4>1. cli' = "failed" \/ (cli' = "receiving" /\ output' = output)
        BY <2>1, <3>2 DEF CliRecv
      <4>2. output = NoOutput /\ output' = output
        BY <2>1, <3>2, <4>1 DEF CliRecv, Inv, Order
      <4> QED BY <2>1, <4>1, <4>2 DEF CliRecv, Call!Fail
    <3> QED BY <3>1, <3>2
  <2>2. CASE CliIsCutOff \/ CliBreaks
    <3>1. cli \in {"sending", "receiving"} /\ output = NoOutput
      BY <2>2 DEF CliIsCutOff, CliBreaks, Inv, Order
    <3>2. Call!Fail
      BY <2>2, <3>1 DEF CliIsCutOff, CliBreaks, CliGivesUp, Call!Fail
    <3> QED BY <3>2
  <2>3. CASE Execute
    <3>1. executed = <<>> /\ srvCtx.body = text
      BY <2>3, Recognised DEF Execute, Inv, Progress, Order
    <3>2. Call!Execute
      BY <2>3, <3>1 DEF Execute, Call!Execute
    <3> QED BY <3>2
  <2>4. CASE CliSend
    BY <2>4 DEF CliSend
  <2>5. CASE StartServing \/ SrvRecv \/ SrvSend
    BY <2>5 DEF StartServing, SrvRecv, SrvSend
  <2>6. CASE SrvRecvFails \/ SrvSendFails \/ SrvBreaks
    BY <2>6 DEF SrvRecvFails, SrvSendFails, SrvBreaks, SrvHangsUp
  <2>7. CASE UNCHANGED vars
    BY <2>7 DEF vars
  <2> QED BY <2>1, <2>2, <2>3, <2>4, <2>5, <2>6, <2>7
          DEF Next, CliNext, SrvNext, Finished
<1> QED BY <1>1, <1>2, Invariance, PTL DEF Spec, Call!Spec, ExchangeIsOneCall

-----------------------------------------------------------------------------
(* Numbers and recursion *)

\* A set of natural numbers that is not empty has a least element.
LEMMA Least ==
    ASSUME NEW T \in SUBSET Nat, T # {}
    PROVE  \E x \in T : \A y \in T : x <= y
<1>1. OpToRel(<, Nat) = {ss \in Nat \X Nat : ss[1] < ss[2]}
    BY DEF OpToRel
<1>2. IsWellFoundedOn({ss \in Nat \X Nat : ss[1] < ss[2]}, Nat)
    BY <1>1, NatLessThanWellFounded
<1>3. PICK x \in T : \A y \in T : <<y, x>> \notin {ss \in Nat \X Nat : ss[1] < ss[2]}
    BY <1>2, WFMin
<1>4. ASSUME NEW y \in T PROVE x <= y
  <2>1. <<y, x>> \in Nat \X Nat /\ <<y, x>>[1] = y /\ <<y, x>>[2] = x
    OBVIOUS
  <2>2. ~(y < x)
    BY <1>3, <2>1
  <2> QED
    BY <2>2
<1> QED
    BY <1>4

\* Induction, as a fact about sets.
LEMMA Inductive ==
    ASSUME NEW S \in SUBSET Nat, 0 \in S, \A n \in S : n + 1 \in S
    PROVE  S = Nat
<1> SUFFICES ASSUME Nat \ S # {} PROVE FALSE
    OBVIOUS
<1>1. PICK x \in Nat \ S : \A y \in Nat \ S : x <= y
    BY Least
<1>2. x - 1 \in Nat
    BY <1>1
<1>3. x - 1 \in S
    BY <1>1, <1>2
<1> QED
    BY <1>2, <1>3, x = (x - 1) + 1

\* ... up to a bound.
LEMMA InductiveTo ==
    ASSUME NEW N \in Nat, NEW S, 0 \in S, \A n \in 0 .. N - 1 : n \in S => n + 1 \in S
    PROVE  \A n \in 0 .. N : n \in S
<1> DEFINE T == {n \in Nat : n <= N => n \in S}
<1>1. T = Nat
  <2>1. T \in SUBSET Nat /\ 0 \in T
    OBVIOUS
  <2>2. ASSUME NEW n \in T PROVE n + 1 \in T
    OBVIOUS
  <2> HIDE DEF T
  <2> QED
    BY <2>1, <2>2, Inductive
<1> QED
    BY <1>1

\* What a loop of N rounds goes through: F takes what the rounds before have
\* left, and the number of the round.
Courses(A, N, base, F) ==
    {g \in [0 .. N -> A] : g[0] = base /\ \A n \in 1 .. N : g[n] = F[<<g[n - 1], n>>]}

\* There is a course of such a loop, as long as F takes what it returns.
LEMMA Recursion ==
    ASSUME NEW A, NEW N \in Nat, NEW base \in A, NEW F \in [A \X (1 .. N) -> A]
    PROVE  Courses(A, N, base, F) # {}
<1> DEFINE Is(g, n) == /\ g \in [0 .. n -> A] /\ g[0] = base
                       /\ \A m \in 1 .. n : g[m] = F[<<g[m - 1], m>>]
           S == {n \in Nat : n <= N => \E g : Is(g, n)}
<1>1. 0 \in S
  <2>1. Is([n \in 0 .. 0 |-> base], 0)
    OBVIOUS
  <2> QED
    BY <2>1
<1>2. ASSUME NEW n \in S PROVE n + 1 \in S
  <2> SUFFICES ASSUME n + 1 <= N PROVE \E g : Is(g, n + 1)
    OBVIOUS
  <2>1. PICK g : Is(g, n)
    OBVIOUS
  <2> DEFINE h == [m \in 0 .. n + 1 |-> IF m <= n THEN g[m] ELSE F[<<g[n], n + 1>>]]
  <2>2. g[n] \in A /\ n + 1 \in 1 .. N
    BY <2>1
  <2>3. F[<<g[n], n + 1>>] \in A
    BY <2>2
  <2>4. h \in [0 .. n + 1 -> A] /\ h[0] = base
    BY <2>1, <2>3
  <2>5. ASSUME NEW m \in 1 .. n + 1 PROVE h[m] = F[<<h[m - 1], m>>]
    <3>1. CASE m <= n
      <4>1. h[m] = g[m] /\ h[m - 1] = g[m - 1] /\ m \in 1 .. n
        BY <3>1
      <4> HIDE DEF h
      <4> QED
        BY <2>1, <4>1
    <3>2. CASE m = n + 1
      <4>1. h[m] = F[<<g[n], n + 1>>] /\ h[m - 1] = g[n]
        BY <3>2
      <4> HIDE DEF h
      <4> QED
        BY <3>2, <4>1
    <3> QED
      BY <3>1, <3>2
  <2>6. Is(h, n + 1)
    BY <2>4, <2>5
  <2> HIDE DEF Is, h
  <2> QED
    BY <2>6
<1>3. S = Nat
  <2>1. S \in SUBSET Nat
    OBVIOUS
  <2> HIDE DEF Is, S
  <2> QED
    BY <1>1, <1>2, <2>1, Inductive
<1>4. \E g : Is(g, N)
  <2>1. N \in S
    BY <1>3
  <2> HIDE DEF Is
  <2> QED
    BY <2>1
<1> QED
    BY <1>4 DEF Courses

-----------------------------------------------------------------------------
(* Sequences *)

\* A sequence is a function, and its elements are in its set.
LEMMA Elements ==
    ASSUME NEW A, NEW s \in Seq(A)
    PROVE  /\ Len(s) \in Nat
           /\ \A k \in 1 .. Len(s) : s[k] \in A
           /\ s = [k \in 1 .. Len(s) |-> s[k]]
    OBVIOUS

\* What is a function on 1 .. N, with values in a set, is a sequence.
LEMMA IsSeq ==
    ASSUME NEW A, NEW N \in Nat, NEW f, \A k \in 1 .. N : f[k] \in A,
           f = [k \in 1 .. N |-> f[k]]
    PROVE  f \in Seq(A) /\ Len(f) = N
<1>1. f \in [1 .. N -> A]
  <2>1. [k \in 1 .. N |-> f[k]] \in [1 .. N -> A]
    OBVIOUS
  <2> QED
    BY <2>1
<1> QED
    BY <1>1

\* Sequences of the same length and elements are equal.
AreSame(s, t) == Len(s) = Len(t) /\ \A k \in 1 .. Len(s) : s[k] = t[k]

\* Two sequences are equal if their elements are.
LEMMA SameSeq ==
    ASSUME NEW A, NEW B, NEW s \in Seq(A), NEW t \in Seq(B), AreSame(s, t)
    PROVE  s = t
<1>1. s = [k \in 1 .. Len(s) |-> s[k]] /\ t = [k \in 1 .. Len(t) |-> t[k]]
    BY Elements
<1>2. [k \in 1 .. Len(s) |-> s[k]] = [k \in 1 .. Len(s) |-> t[k]]
    BY DEF AreSame
<1> QED
    BY <1>1, <1>2 DEF AreSame

\* Where the elements of two sequences are in their concatenation.
LEMMA Cat ==
    ASSUME NEW A, NEW x \in Seq(A), NEW y \in Seq(A)
    PROVE  /\ x \o y \in Seq(A) /\ Len(x \o y) = Len(x) + Len(y)
           /\ \A k \in 1 .. Len(x) : (x \o y)[k] = x[k]
           /\ \A k \in 1 .. Len(y) : (x \o y)[Len(x) + k] = y[k]
<1>1. Len(x) \in Nat /\ Len(y) \in Nat /\ Len(x \o y) = Len(x) + Len(y) /\ x \o y \in Seq(A)
    OBVIOUS
<1>2. ASSUME NEW k \in 1 .. Len(x) PROVE (x \o y)[k] = x[k]
    BY <1>1
<1>3. ASSUME NEW k \in 1 .. Len(y) PROVE (x \o y)[Len(x) + k] = y[k]
  <2>1. Len(x) + k \in 1 .. Len(x) + Len(y) /\ (Len(x) + k) - Len(x) = k /\ ~(Len(x) + k <= Len(x))
    BY <1>1
  <2>2. (x \o y)[Len(x) + k] = y[(Len(x) + k) - Len(x)]
    BY <1>1, <2>1
  <2> QED
    BY <2>1, <2>2
<1> QED
    BY <1>1, <1>2, <1>3

\* t is the part of s from a to b
IsPart(t, s, a, b) ==
    Len(t) = b - a + 1 /\ \A k \in 1 .. b - a + 1 : t[k] = s[a + k - 1]

\* SubSeq takes a part of a sequence.
LEMMA Part ==
    ASSUME NEW A, NEW s \in Seq(A), NEW a \in Nat \ {0}, NEW b \in Nat, a <= b + 1, b <= Len(s)
    PROVE  SubSeq(s, a, b) \in Seq(A) /\ IsPart(SubSeq(s, a, b), s, a, b)
<1>1. Len(s) \in Nat /\ b - a + 1 \in Nat /\ \A k \in 1 .. Len(s) : s[k] \in A
    BY Elements
<1>2. SubSeq(s, a, b) = [k \in 1 .. b - a + 1 |-> s[a + k - 1]]
    BY <1>1
<1> DEFINE f == [k \in 1 .. b - a + 1 |-> s[a + k - 1]]
<1>3. ASSUME NEW k \in 1 .. b - a + 1 PROVE f[k] = s[a + k - 1] /\ f[k] \in A
  <2>1. a + k - 1 \in 1 .. Len(s)
    BY <1>1
  <2> QED
    BY <1>1, <2>1
<1>4. f \in Seq(A) /\ Len(f) = b - a + 1
    BY <1>1, <1>3
<1> HIDE DEF f
<1> QED
    BY <1>2, <1>3, <1>4 DEF f, IsPart

\* A text is a sequence of its own symbols.
LEMMA TextOf ==
    ASSUME NEW s, IsText(s)
    PROVE  /\ s \in Seq(Range(s)) /\ Len(s) \in Nat
           /\ s = [i \in 1 .. Len(s) |-> s[i]] /\ \A i \in 1 .. Len(s) : s[i] \in Range(s)
    BY DEF IsText

\* The rounds of FlattenSeq: it is one piece after the other.
LEMMA Flattened ==
    ASSUME NEW A, NEW N \in Nat, NEW F \in [1 .. N -> Seq(A)]
    PROVE  \E g \in [0 .. N -> Seq(A)] :
            /\ g[0] = <<>>
            /\ \A n \in 1 .. N : g[n] = g[n - 1] \o F[n]
            /\ g[N] = FlattenSeq(F)
<1>1. F \in Seq(Seq(A)) /\ Len(F) = N
    OBVIOUS
<1>2. PICK g \in [0 .. N -> Seq(A)] :
        g[0] = <<>> /\ \A n \in 1 .. N : g[n] = g[n - 1] \o F[n]
  <2> DEFINE B == Seq(A)
             Step == [x \in B \X (1 .. N) |-> x[1] \o F[x[2]]]
  <2>1. <<>> \in B /\ Step \in [B \X (1 .. N) -> B]
    OBVIOUS
  <2>2. \A b \in B, n \in 1 .. N : Step[<<b, n>>] = b \o F[n]
    OBVIOUS
  <2>3. PICK g \in [0 .. N -> B] :
          g[0] = <<>> /\ \A n \in 1 .. N : g[n] = Step[<<g[n - 1], n>>]
    <3> HIDE DEF B, Step
    <3>1. Courses(B, N, <<>>, Step) # {}
      BY <2>1, Recursion
    <3> QED
      BY <3>1 DEF Courses
  <2>4. \A n \in 1 .. N : g[n - 1] \in B
    <3> HIDE DEF B, Step
    <3> QED
      OBVIOUS
  <2> HIDE DEF Step
  <2> QED
    BY <2>2, <2>3, <2>4
<1>3. g[0] = <<>>
    BY <1>2
<1>4. \A n \in 1 .. N : g[n] = g[n - 1] \o F[n]
    BY <1>2
<1>5. CASE N = 0
  <2>1. FlattenSeq(F) = F /\ F = <<>>
    BY <1>1, <1>5 DEF FlattenSeq
  <2> QED
    BY <1>3, <1>4, <1>5, <2>1
<1>6. CASE N # 0
  <2> DEFINE Is(f) == f = [i \in 1 .. N |-> IF i = 1 THEN F[i] ELSE f[i - 1] \o F[i]]
             h == [i \in 1 .. N |-> g[i]]
             flatten == CHOOSE f : Is(f)
  <2>1. \A i \in 1 .. N : h[i] = IF i = 1 THEN F[i] ELSE h[i - 1] \o F[i]
    <3>1. ASSUME NEW i \in 1 .. N, i = 1 PROVE g[i] = F[i]
      <4>1. g[i] = g[i - 1] \o F[i]
        BY <1>4, Zenon
      <4>2. i - 1 = 0 /\ F[i] \in Seq(A)
        BY <3>1
      <4>3. <<>> \o F[i] = F[i]
        BY <4>2
      <4> QED
        BY <1>3, <4>1, <4>2, <4>3
    <3>2. ASSUME NEW i \in 1 .. N, i # 1 PROVE g[i] = g[i - 1] \o F[i] /\ i - 1 \in 1 .. N
      <4>1. g[i] = g[i - 1] \o F[i]
        BY <1>4, Zenon
      <4> QED
        BY <3>2, <4>1
    <3> QED
      BY <3>1, <3>2
  <2>2. \A i \in 1 .. N : flatten[i] = IF i = 1 THEN F[i] ELSE flatten[i - 1] \o F[i]
    <3>1. Is(h)
      BY <2>1
    <3> HIDE DEF Is
    <3>2. Is(flatten)
      BY <3>1
    <3> HIDE DEF flatten
    <3> QED
      BY <3>2 DEF Is
  <2>3. FlattenSeq(F) = flatten[N]
    BY <1>1, <1>6 DEF FlattenSeq
  <2> HIDE DEF flatten, Is
  <2>4. ASSUME NEW i \in 1 .. N, i = 1 \/ flatten[i - 1] = h[i - 1]
        PROVE  flatten[i] = h[i]
    <3>1. h[i] = IF i = 1 THEN F[i] ELSE h[i - 1] \o F[i]
      BY <2>1, Zenon
    <3>2. flatten[i] = IF i = 1 THEN F[i] ELSE flatten[i - 1] \o F[i]
      BY <2>2, Zenon
    <3> HIDE DEF h
    <3> QED
      BY <2>4, <3>1, <3>2
  <2>5. flatten[N] = h[N]
    <3> DEFINE S == {i \in 0 .. N : i = 0 \/ flatten[i] = h[i]}
    <3> HIDE DEF h
    <3>1. ASSUME NEW n \in 0 .. N - 1, n \in S PROVE n + 1 \in S
      <4>1. n + 1 \in 1 .. N /\ (n + 1) - 1 = n
        OBVIOUS
      <4>2. flatten[n + 1] = h[n + 1]
        BY <2>4, <3>1, <4>1
      <4> QED
        BY <4>1, <4>2
    <3>2. 0 \in S
      OBVIOUS
    <3>3. \A n \in 0 .. N : n \in S
      <4> HIDE DEF S
      <4> QED
        BY <3>1, <3>2, InductiveTo
    <3>4. N \in S
      <4> HIDE DEF S
      <4> QED
        BY <3>3
    <3> QED
      BY <1>6, <3>4
  <2>6. h[N] = g[N]
    BY <1>6
  <2> HIDE DEF h
  <2> QED
    BY <1>3, <1>4, <2>3, <2>5, <2>6
<1> QED
    BY <1>5, <1>6

\* Where the pieces of a sequence of N pieces end, one after the other.
AreEnds(off, N, F) ==
    /\ off \in [0 .. N -> Nat]
    /\ off[0] = 0
    /\ \A n \in 1 .. N : off[n] = off[n - 1] + Len(F[n]) /\ off[n] <= off[N]
    /\ Len(FlattenSeq(F)) = off[N]
    /\ \A n \in 1 .. N : \A k \in 1 .. Len(F[n]) :
        FlattenSeq(F)[off[n - 1] + k] = F[n][k]

\* FlattenSeq puts each piece where the ones before it end.
LEMMA Pieces ==
    ASSUME NEW A, NEW N \in Nat, NEW F \in [1 .. N -> Seq(A)]
    PROVE  /\ FlattenSeq(F) \in Seq(A)
           /\ \E off : AreEnds(off, N, F)
<1>1. PICK g \in [0 .. N -> Seq(A)] :
            /\ g[0] = <<>>
            /\ \A n \in 1 .. N : g[n] = g[n - 1] \o F[n]
            /\ g[N] = FlattenSeq(F)
    BY Flattened, ZenonT(30)
<1>2. ASSUME NEW n \in 1 .. N
      PROVE  /\ g[n] = g[n - 1] \o F[n] /\ n - 1 \in 0 .. N
             /\ g[n] \in Seq(A) /\ g[n - 1] \in Seq(A) /\ F[n] \in Seq(A)
  <2>1. g[n] = g[n - 1] \o F[n]
    BY <1>1, Zenon
  <2> QED
    BY <2>1
<1> DEFINE Prefixed(n) == /\ Len(g[n]) <= Len(FlattenSeq(F))
                          /\ \A p \in 1 .. Len(g[n]) : FlattenSeq(F)[p] = g[n][p]
<1>3. \A n \in 0 .. N : Prefixed(n)
  <2> DEFINE S == {m \in 0 .. N : Prefixed(N - m)}
  <2>1. 0 \in S
    BY <1>1
  <2>2. ASSUME NEW m \in 0 .. N - 1, m \in S PROVE m + 1 \in S
    <3>1. Prefixed(N - m) /\ N - m \in 1 .. N /\ (N - m) - 1 = N - (m + 1)
      BY <2>2
    <3>2. /\ g[N - m] = g[N - (m + 1)] \o F[N - m]
          /\ g[N - (m + 1)] \in Seq(A) /\ F[N - m] \in Seq(A) /\ g[N - m] \in Seq(A)
      BY <1>2, <3>1
    <3> DEFINE x == g[N - (m + 1)]
               y == g[N - m]
               f == F[N - m]
    <3>3. Len(y) = Len(x) + Len(f) /\ Len(x) \in Nat /\ Len(f) \in Nat
      BY <3>2
    <3>4. \A p \in 1 .. Len(x) : y[p] = x[p]
      <4>1. y = x \o f /\ x \in Seq(A) /\ f \in Seq(A)
        BY <3>2
      <4> HIDE DEF x, y, f
      <4> QED
        BY <4>1
    <3>5. Len(FlattenSeq(F)) \in Nat
      BY <1>1
    <3>6. Prefixed(N - (m + 1))
      <4> HIDE DEF x, y, f
      <4>1. Len(x) <= Len(y)
        BY <3>3
      <4>2. Len(y) <= Len(FlattenSeq(F)) /\ \A p \in 1 .. Len(y) : FlattenSeq(F)[p] = y[p]
        BY <3>1 DEF y
      <4>3. \A p \in 1 .. Len(x) : FlattenSeq(F)[p] = x[p]
        BY <3>3, <3>4, <4>2
      <4> QED
        BY <3>3, <3>5, <4>1, <4>2, <4>3 DEF x
    <3> HIDE DEF Prefixed
    <3> QED
      BY <3>6
  <2>3. \A m \in 0 .. N : m \in S
    <3> HIDE DEF S
    <3> QED
      BY <2>1, <2>2, InductiveTo
  <2>4. ASSUME NEW n \in 0 .. N PROVE Prefixed(n)
    <3>1. N - n \in 0 .. N /\ N - (N - n) = n
      OBVIOUS
    <3>2. Prefixed(N - (N - n))
      <4> HIDE DEF Prefixed
      <4> QED
        BY <2>3, <3>1
    <3> HIDE DEF Prefixed
    <3> QED
      BY <3>1, <3>2
  <2> HIDE DEF Prefixed
  <2> QED
    BY <2>4
<1> DEFINE off == [n \in 0 .. N |-> Len(g[n])]
<1>4. off \in [0 .. N -> Nat] /\ off[0] = 0
    BY <1>1
<1>5. FlattenSeq(F) \in Seq(A) /\ Len(FlattenSeq(F)) = off[N]
    BY <1>1
<1>6. ASSUME NEW n \in 1 .. N PROVE off[n] = off[n - 1] + Len(F[n]) /\ off[n] <= off[N]
  <2>1. off[n] = Len(g[n]) /\ off[n - 1] = Len(g[n - 1])
    BY <1>2
  <2>2. Len(g[n]) = Len(g[n - 1]) + Len(F[n])
    <3> DEFINE x == g[n - 1]
               f == F[n]
               y == g[n]
    <3>1. y = x \o f /\ x \in Seq(A) /\ f \in Seq(A)
      BY <1>2
    <3> HIDE DEF x, f, y
    <3>2. Len(y) = Len(x) + Len(f)
      BY <3>1
    <3> QED
      BY <3>2 DEF x, f, y
  <2>3. Len(g[n]) <= Len(FlattenSeq(F))
    BY <1>3
  <2> QED
    BY <1>5, <2>1, <2>2, <2>3
<1>7. ASSUME NEW n \in 1 .. N, NEW k \in 1 .. Len(F[n])
      PROVE  FlattenSeq(F)[off[n - 1] + k] = F[n][k]
  <2> DEFINE p == Len(g[n - 1]) + k
  <2>1. g[n][p] = F[n][k] /\ p \in 1 .. Len(g[n])
    <3> DEFINE x == g[n - 1]
               f == F[n]
               y == g[n]
    <3>1. y = x \o f /\ x \in Seq(A) /\ f \in Seq(A) /\ k \in 1 .. Len(f)
      BY <1>2
    <3> HIDE DEF x, f, y
    <3>2. Len(y) = Len(x) + Len(f) /\ Len(x) \in Nat /\ Len(f) \in Nat
      BY <3>1
    <3>3. Len(x) + k \in 1 .. Len(y)
      BY <3>1, <3>2
    <3>4. y[Len(x) + k] = f[(Len(x) + k) - Len(x)]
      BY <3>1, <3>2, SMTT(30)
    <3>5. (Len(x) + k) - Len(x) = k
      BY <3>1, <3>2
    <3> QED
      BY <3>3, <3>4, <3>5 DEF x, f, y
  <2>2. FlattenSeq(F)[p] = g[n][p]
    <3> HIDE DEF p
    <3> QED
      BY <1>3, <2>1
  <2>3. off[n - 1] = Len(g[n - 1])
    BY <1>2
  <2> QED
    BY <2>1, <2>2, <2>3
<1>8. AreEnds(off, N, F)
  <2> HIDE DEF off
  <2> QED
    BY <1>4, <1>5, <1>6, <1>7 DEF AreEnds
<1> QED
    BY <1>5, <1>8

\* ... if all are of one length.
AreBlocks(s, w, N, F) ==
    Len(s) = w * N /\ \A n \in 1 .. N, k \in 1 .. w : s[w * (n - 1) + k] = F[n][k]

\* ... and pieces of the same width in blocks of that width.
LEMMA Blocks ==
    ASSUME NEW A, NEW N \in Nat, NEW F \in [1 .. N -> Seq(A)], NEW w \in Nat,
           \A n \in 1 .. N : Len(F[n]) = w
    PROVE  FlattenSeq(F) \in Seq(A) /\ AreBlocks(FlattenSeq(F), w, N, F)
<1>0. FlattenSeq(F) \in Seq(A) /\ \E off : AreEnds(off, N, F)
    BY Pieces
<1>1. PICK off :
            /\ off \in [0 .. N -> Nat] /\ off[0] = 0
            /\ \A n \in 1 .. N : off[n] = off[n - 1] + Len(F[n])
            /\ Len(FlattenSeq(F)) = off[N]
            /\ \A n \in 1 .. N : \A k \in 1 .. Len(F[n]) :
                FlattenSeq(F)[off[n - 1] + k] = F[n][k]
    BY <1>0 DEF AreEnds
<1>2. \A n \in 0 .. N : off[n] = w * n
  <2> DEFINE S == {n \in 0 .. N : off[n] = w * n}
  <2>1. 0 \in S
    BY <1>1
  <2>2. ASSUME NEW n \in 0 .. N - 1, n \in S PROVE n + 1 \in S
    <3>1. n + 1 \in 1 .. N /\ (n + 1) - 1 = n
      OBVIOUS
    <3>2. off[n + 1] = off[n] + w
      BY <1>1, <3>1
    <3>3. w * (n + 1) = w * n + w
      OBVIOUS
    <3> QED
      BY <2>2, <3>1, <3>2, <3>3
  <2>3. \A n \in 0 .. N : n \in S
    <3> HIDE DEF S
    <3> QED
      BY <2>1, <2>2, InductiveTo
  <2> QED
    BY <2>3
<1>3. ASSUME NEW n \in 1 .. N, NEW k \in 1 .. w
      PROVE  FlattenSeq(F)[w * (n - 1) + k] = F[n][k]
  <2>1. n - 1 \in 0 .. N /\ off[n - 1] = w * (n - 1)
    BY <1>2
  <2>2. FlattenSeq(F)[off[n - 1] + k] = F[n][k]
    BY <1>1
  <2> QED
    BY <2>1, <2>2
<1>4. N \in 0 .. N
    OBVIOUS
<1> QED
    BY <1>0, <1>1, <1>2, <1>3, <1>4 DEF AreBlocks

-----------------------------------------------------------------------------
(* base64 *)

\* A place in groups of three, of four and of twenty-four.
LEMMA InThrees ==
    ASSUME NEW N \in Nat, NEW p \in 1 .. 3 * N
    PROVE  \E i \in 1 .. N, k \in 1 .. 3 : p = 3 * (i - 1) + k
<1> DEFINE i == ((p - 1) \div 3) + 1
           k == ((p - 1) % 3) + 1
<1>1. i \in 1 .. N /\ k \in 1 .. 3 /\ p = 3 * (i - 1) + k
    OBVIOUS
<1> HIDE DEF i, k
<1> QED
    BY <1>1

\* Every position of the text is in one of the groups of four letters.
LEMMA InFours ==
    ASSUME NEW N \in Nat, NEW p \in 1 .. 4 * N
    PROVE  \E i \in 1 .. N, k \in 1 .. 4 : p = 4 * (i - 1) + k
<1> DEFINE i == ((p - 1) \div 4) + 1
           k == ((p - 1) % 4) + 1
<1>1. i \in 1 .. N /\ k \in 1 .. 4 /\ p = 4 * (i - 1) + k
    OBVIOUS
<1> HIDE DEF i, k
<1> QED
    BY <1>1

\* Every bit is in one of the groups of 24, at its place in a letter and in a byte.
LEMMA InGroups ==
    ASSUME NEW N \in Nat, NEW p \in 1 .. 24 * N
    PROVE  \E i \in 1 .. N, j \in 1 .. 24 :
            /\ p = 24 * (i - 1) + j
            /\ ((p - 1) \div 6) + 1 = 4 * (i - 1) + ((j - 1) \div 6) + 1
            /\ (p - 1) % 6 = (j - 1) % 6
            /\ ((p - 1) \div 8) + 1 = 3 * (i - 1) + ((j - 1) \div 8) + 1
            /\ (p - 1) % 8 = (j - 1) % 8
<1> DEFINE i == ((p - 1) \div 24) + 1
           j == ((p - 1) % 24) + 1
<1>1. i \in 1 .. N /\ j \in 1 .. 24 /\ p = 24 * (i - 1) + j
    OBVIOUS
<1> HIDE DEF i, j
<1>2. /\ ((p - 1) \div 6) = 4 * (i - 1) + ((j - 1) \div 6)
      /\ (p - 1) % 6 = (j - 1) % 6
    BY <1>1
<1>3. /\ ((p - 1) \div 8) = 3 * (i - 1) + ((j - 1) \div 8)
      /\ (p - 1) % 8 = (j - 1) % 8
    BY <1>1
<1> QED
    BY <1>1, <1>2, <1>3

\* a byte of the source, or what is put in its place at the end
Padded(source, k) == IF k <= Len(source) THEN source[k] ELSE 0

\* the i-th four letters
Quad(source, i) ==
    Triplet(Padded(source, 3 * (i - 1) + 1), Padded(source, 3 * (i - 1) + 2),
            Padded(source, 3 * (i - 1) + 3))

\* text is base64 of source, letter by letter
IsBase64Of(txt, source) ==
    LET n == Len(source)
        q == (n + 2) \div 3
    IN  /\ txt \in Seq(0 .. 63 \cup {Pad}) /\ Len(txt) = 4 * q
        /\ \A i \in 1 .. q, k \in 1 .. 4 :
            txt[4 * (i - 1) + k] =
                IF k <= n - 3 * (i - 1) + 1 THEN Quad(source, i)[k] ELSE Pad

\* Three bytes are four letters.
LEMMA Letters ==
    ASSUME NEW a \in 0 .. 255, NEW b \in 0 .. 255, NEW c \in 0 .. 255
    PROVE  /\ Triplet(a, b, c) \in [1 .. 4 -> 0 .. 63]
           /\ Triplet(a, b, c) \in Seq(0 .. 63) /\ Len(Triplet(a, b, c)) = 4
<1>1. /\ a \div 4 \in 0 .. 63 /\ (a % 4) * 16 + b \div 16 \in 0 .. 63
      /\ (b % 16) * 4 + c \div 64 \in 0 .. 63 /\ c % 64 \in 0 .. 63
    OBVIOUS
<1> DEFINE x == a \div 4
           y == (a % 4) * 16 + b \div 16
           z == (b % 16) * 4 + c \div 64
           u == c % 64
<1>2. Triplet(a, b, c) = <<x, y, z, u>>
    BY DEF Triplet
<1> HIDE DEF x, y, z, u
<1>3. x \in 0 .. 63 /\ y \in 0 .. 63 /\ z \in 0 .. 63 /\ u \in 0 .. 63
    BY <1>1 DEF x, y, z, u
<1> QED
    BY <1>2, <1>3

\* ... and so is every group of what is encoded, the last one filled up.
LEMMA QuadLetters ==
    ASSUME NEW source \in Seq(0 .. 255), NEW i \in Nat \ {0}
    PROVE  /\ Quad(source, i) \in [1 .. 4 -> 0 .. 63]
           /\ Quad(source, i) \in Seq(0 .. 63) /\ Len(Quad(source, i)) = 4
<1>1. ASSUME NEW k \in Nat \ {0} PROVE Padded(source, k) \in 0 .. 255
  <2>1. Len(source) \in Nat /\ \A p \in 1 .. Len(source) : source[p] \in 0 .. 255
    BY Elements
  <2> QED
    BY <2>1 DEF Padded
<1>2. 3 * (i - 1) + 1 \in Nat \ {0} /\ 3 * (i - 1) + 2 \in Nat \ {0} /\ 3 * (i - 1) + 3 \in Nat \ {0}
    OBVIOUS
<1> QED
    BY <1>1, <1>2, Letters DEF Quad

\* What base64_encode returns is base64 of its argument.
LEMMA Encoded ==
    ASSUME NEW source \in Seq(0 .. 255)
    PROVE  IsBase64Of(base64_encode(source), source)
<1> DEFINE n == Len(source)
           t == n \div 3
           rest == SubSeq(source, 3 * t + 1, n)
           F == [i \in 1 .. t |-> Triplet(source[3 * i - 2], source[3 * i - 1], source[3 * i])]
           tail == CASE rest = <<>> -> <<>>
                     [] Len(rest) = 1 -> SubSeq(Triplet(rest[1], 0, 0), 1, 2) \o <<Pad, Pad>>
                     [] Len(rest) = 2 -> SubSeq(Triplet(rest[1], rest[2], 0), 1, 3) \o <<Pad>>
           A == 0 .. 63 \cup {Pad}
           q == (n + 2) \div 3
<1>1. n \in Nat /\ t \in Nat /\ n - 3 * t \in 0 .. 2
    OBVIOUS
<1>2. base64_encode(source) = FlattenSeq(F) \o tail
    BY DEF base64_encode
<1>3. ASSUME NEW i \in 1 .. t PROVE F[i] = Quad(source, i)
  <2>1. 3 * i <= n /\ 3 * (i - 1) + 1 = 3 * i - 2 /\ 3 * (i - 1) + 2 = 3 * i - 1 /\ 3 * (i - 1) + 3 = 3 * i
    BY <1>1
  <2> HIDE DEF n, t
  <2>2. Padded(source, 3 * i - 2) = source[3 * i - 2] /\ Padded(source, 3 * i - 1) = source[3 * i - 1]
        /\ Padded(source, 3 * i) = source[3 * i]
    BY <1>1, <2>1 DEF Padded, n
  <2> QED
    BY <2>1, <2>2 DEF Quad
<1>4. F \in [1 .. t -> Seq(A)] /\ \A i \in 1 .. t : Len(F[i]) = 4
  <2>1. ASSUME NEW i \in 1 .. t PROVE F[i] \in Seq(A) /\ Len(F[i]) = 4
    <3>1. i \in Nat \ {0}
      OBVIOUS
    <3>2. Quad(source, i) \in Seq(0 .. 63) /\ Len(Quad(source, i)) = 4
      BY <3>1, QuadLetters
    <3>3. F[i] = Quad(source, i)
      BY <1>3
    <3> HIDE DEF F, t
    <3> QED
      BY <3>2, <3>3
  <2> HIDE DEF A
  <2> QED
    BY <2>1
<1>5. /\ FlattenSeq(F) \in Seq(A) /\ Len(FlattenSeq(F)) = 4 * t
      /\ \A i \in 1 .. t, k \in 1 .. 4 : FlattenSeq(F)[4 * (i - 1) + k] = F[i][k]
  <2> HIDE DEF F, A, t
  <2>1. t \in Nat /\ 4 \in Nat
    BY <1>1
  <2>2. F \in [1 .. t -> Seq(A)]
    BY <1>4
  <2>3. \A i \in 1 .. t : Len(F[i]) = 4
    BY <1>4
  <2>4. FlattenSeq(F) \in Seq(A) /\ AreBlocks(FlattenSeq(F), 4, t, F)
    BY <2>1, <2>2, <2>3, Blocks
  <2> QED
    BY <2>4 DEF AreBlocks
<1>6. /\ tail \in Seq(A) /\ Len(tail) = IF n = 3 * t THEN 0 ELSE 4
      /\ n # 3 * t => \A k \in 1 .. 4 :
            tail[k] = IF k <= n - 3 * t + 1 THEN Quad(source, t + 1)[k] ELSE Pad
  <2>1. rest \in Seq(0 .. 255) /\ Len(rest) = n - 3 * t
        /\ \A k \in 1 .. n - 3 * t : rest[k] = source[3 * t + k] /\ rest[k] \in 0 .. 255
    <3> DEFINE m == 3 * t + 1
    <3>1. m \in Nat \ {0} /\ m <= n + 1 /\ n <= Len(source) /\ n - m + 1 = n - 3 * t
      BY <1>1
    <3> HIDE DEF m, n
    <3>2. /\ SubSeq(source, m, n) \in Seq(0 .. 255) /\ Len(SubSeq(source, m, n)) = n - m + 1
          /\ \A k \in 1 .. n - m + 1 : SubSeq(source, m, n)[k] = source[m + k - 1]
      <4>1. n \in Nat
        BY <1>1
      <4>2. SubSeq(source, m, n) \in Seq(0 .. 255) /\ IsPart(SubSeq(source, m, n), source, m, n)
        BY <3>1, <4>1, Part
      <4> QED
        BY <4>2 DEF IsPart
    <3>3. \A k \in 1 .. n - 3 * t : m + k - 1 = 3 * t + k
      BY <1>1 DEF m
    <3>4. \A k \in 1 .. n - 3 * t : SubSeq(source, m, n)[k] \in 0 .. 255
      BY <3>1, <3>2, Elements
    <3> QED
      BY <3>1, <3>2, <3>3, <3>4 DEF m
  <2>2. Quad(source, t + 1) = Triplet(Padded(source, 3 * t + 1), Padded(source, 3 * t + 2), Padded(source, 3 * t + 3))
    <3>1. 3 * ((t + 1) - 1) = 3 * t
      OBVIOUS
    <3> QED
      BY <3>1 DEF Quad
  <2> HIDE DEF rest, n, t
  <2>3. CASE n = 3 * t
    BY <2>1, <2>3, <1>1
  <2>4. CASE n = 3 * t + 1
    <3>1. Len(rest) = 1 /\ rest # <<>>
      <4>1. Len(rest) = 1
        BY <1>1, <2>1, <2>4
      <4>2. Len(<<>>) # 1
        OBVIOUS
      <4> QED
        BY <4>1, <4>2, Zenon
    <3>2. \A k \in 1 .. 1 : rest[k] = source[3 * t + k] /\ rest[k] \in 0 .. 255
      <4>1. n - 3 * t = 1
        BY <1>1, <2>4
      <4> QED
        BY <2>1, <4>1
    <3>3. Padded(source, 3 * t + 1) = rest[1] /\ Padded(source, 3 * t + 2) = 0 /\ Padded(source, 3 * t + 3) = 0
      BY <1>1, <2>4, <3>2 DEF Padded, n
    <3> DEFINE Q == Triplet(rest[1], 0, 0)
               kept == SubSeq(Q, 1, 2)
               pads == <<Pad, Pad>>
    <3>4. tail = kept \o pads
      BY <3>1
    <3>5. Q \in Seq(0 .. 63) /\ Len(Q) = 4
      <4>1. rest[1] \in 0 .. 255 /\ 0 \in 0 .. 255 /\ 0 \in 0 .. 255
        BY <3>2
      <4> QED
        BY <4>1, Letters
    <3>6. Q = Quad(source, t + 1)
      BY <2>2, <3>3
    <3>7. kept \in Seq(A) /\ Len(kept) = 2 /\ \A k \in 1 .. 2 : kept[k] = Q[k]
      <4> HIDE DEF Q
      <4>1. Q \in Seq(A)
        BY <3>5
      <4> HIDE DEF A
      <4>2. 2 <= Len(Q)
        BY <3>5
      <4>3. kept \in Seq(A) /\ IsPart(kept, Q, 1, 2)
        BY <4>1, <4>2, Part
      <4> QED
        BY <4>3 DEF IsPart
    <3>8. pads \in Seq(A) /\ Len(pads) = 2 /\ \A k \in 1 .. 2 : pads[k] = Pad
      OBVIOUS
    <3> HIDE DEF Q, kept, pads, tail, A
    <3>9. /\ tail \in Seq(A) /\ Len(tail) = Len(kept) + Len(pads)
          /\ \A k \in 1 .. Len(kept) : tail[k] = kept[k]
          /\ \A k \in 1 .. Len(pads) : tail[Len(kept) + k] = pads[k]
      <4>1. kept \in Seq(A) /\ pads \in Seq(A)
        BY <3>7, <3>8
      <4> QED
        BY <3>4, <4>1, Cat
    <3>10. ASSUME NEW k \in 1 .. 4 PROVE tail[k] = IF k <= 2 THEN Q[k] ELSE Pad
      <4>1. CASE k <= 2
        BY <3>7, <3>9, <4>1
      <4>2. CASE k > 2
        <5>1. k - 2 \in 1 .. 2 /\ 2 + (k - 2) = k
          BY <4>2
        <5>2. tail[2 + (k - 2)] = pads[k - 2]
          BY <3>7, <3>8, <3>9, <5>1
        <5> QED
          BY <3>8, <4>2, <5>1, <5>2
      <4> QED
        BY <4>1, <4>2
    <3> QED
      BY <1>1, <2>4, <3>6, <3>7, <3>8, <3>9, <3>10
  <2>5. CASE n = 3 * t + 2
    <3>1. Len(rest) = 2 /\ rest # <<>>
      <4>1. Len(rest) = 2
        BY <1>1, <2>1, <2>5
      <4>2. Len(<<>>) # 2
        OBVIOUS
      <4> QED
        BY <4>1, <4>2, Zenon
    <3>2. \A k \in 1 .. 2 : rest[k] = source[3 * t + k] /\ rest[k] \in 0 .. 255
      <4>1. n - 3 * t = 2
        BY <1>1, <2>5
      <4> QED
        BY <2>1, <4>1
    <3>3. Padded(source, 3 * t + 1) = rest[1] /\ Padded(source, 3 * t + 2) = rest[2] /\ Padded(source, 3 * t + 3) = 0
      BY <1>1, <2>5, <3>2 DEF Padded, n
    <3> DEFINE Q == Triplet(rest[1], rest[2], 0)
               kept == SubSeq(Q, 1, 3)
               pads == <<Pad>>
    <3>4. tail = kept \o pads
      BY <3>1
    <3>5. Q \in Seq(0 .. 63) /\ Len(Q) = 4
      <4>1. rest[1] \in 0 .. 255 /\ rest[2] \in 0 .. 255 /\ 0 \in 0 .. 255
        BY <3>2
      <4> QED
        BY <4>1, Letters
    <3>6. Q = Quad(source, t + 1)
      BY <2>2, <3>3
    <3>7. kept \in Seq(A) /\ Len(kept) = 3 /\ \A k \in 1 .. 3 : kept[k] = Q[k]
      <4> HIDE DEF Q
      <4>1. Q \in Seq(A)
        BY <3>5
      <4> HIDE DEF A
      <4>2. 3 <= Len(Q)
        BY <3>5
      <4>3. kept \in Seq(A) /\ IsPart(kept, Q, 1, 3)
        BY <4>1, <4>2, Part
      <4> QED
        BY <4>3 DEF IsPart
    <3>8. pads \in Seq(A) /\ Len(pads) = 1 /\ \A k \in 1 .. 1 : pads[k] = Pad
      OBVIOUS
    <3> HIDE DEF Q, kept, pads, tail, A
    <3>9. /\ tail \in Seq(A) /\ Len(tail) = Len(kept) + Len(pads)
          /\ \A k \in 1 .. Len(kept) : tail[k] = kept[k]
          /\ \A k \in 1 .. Len(pads) : tail[Len(kept) + k] = pads[k]
      <4>1. kept \in Seq(A) /\ pads \in Seq(A)
        BY <3>7, <3>8
      <4> QED
        BY <3>4, <4>1, Cat
    <3>10. ASSUME NEW k \in 1 .. 4 PROVE tail[k] = IF k <= 3 THEN Q[k] ELSE Pad
      <4>1. CASE k <= 3
        BY <3>7, <3>9, <4>1
      <4>2. CASE k > 3
        <5>1. k - 3 \in 1 .. 1 /\ 3 + (k - 3) = k
          BY <4>2
        <5>2. tail[3 + (k - 3)] = pads[k - 3]
          BY <3>7, <3>8, <3>9, <5>1
        <5> QED
          BY <3>8, <4>2, <5>1, <5>2
      <4> QED
        BY <4>1, <4>2
    <3> QED
      BY <1>1, <2>5, <3>6, <3>7, <3>8, <3>9, <3>10
  <2> HIDE DEF tail
  <2> QED
    BY <1>1, <2>3, <2>4, <2>5
<1> HIDE DEF F, tail, A
<1> DEFINE x == FlattenSeq(F)
           y == x \o tail
<1>7. q = IF n = 3 * t THEN t ELSE t + 1
    BY <1>1
<1>8. /\ y \in Seq(A) /\ Len(y) = 4 * q
      /\ \A i \in 1 .. t, k \in 1 .. 4 : y[4 * (i - 1) + k] = Quad(source, i)[k]
      /\ n # 3 * t => \A k \in 1 .. 4 : y[4 * t + k] = tail[k]
  <2> HIDE DEF n, t, q, x
  <2>1. x \in Seq(A) /\ Len(x) = 4 * t /\ tail \in Seq(A)
    BY <1>5, <1>6 DEF x
  <2>0. /\ y \in Seq(A) /\ Len(y) = Len(x) + Len(tail)
        /\ \A k \in 1 .. Len(x) : y[k] = x[k]
        /\ \A k \in 1 .. Len(tail) : y[Len(x) + k] = tail[k]
    <3>1. x \in Seq(A) /\ tail \in Seq(A)
      BY <2>1
    <3> QED
      BY <3>1, Cat
  <2> HIDE DEF y
  <2>2. y \in Seq(A) /\ Len(y) = 4 * q
    BY <1>1, <1>6, <1>7, <2>0, <2>1
  <2>3. \A p \in 1 .. 4 * t : y[p] = x[p]
    BY <1>1, <2>0, <2>1
  <2>4. ASSUME NEW i \in 1 .. t, NEW k \in 1 .. 4 PROVE y[4 * (i - 1) + k] = Quad(source, i)[k]
    <3>1. 4 * (i - 1) + k \in 1 .. 4 * t
      BY <1>1
    <3>2. x[4 * (i - 1) + k] = F[i][k]
      BY <1>5 DEF x
    <3> HIDE DEF y
    <3> QED
      BY <1>3, <2>3, <3>1, <3>2
  <2>5. ASSUME n # 3 * t, NEW k \in 1 .. 4 PROVE y[4 * t + k] = tail[k]
    <3>1. Len(tail) = 4
      BY <1>6, <2>5
    <3> QED
      BY <2>0, <2>1, <3>1
  <2> HIDE DEF y
  <2> QED
    BY <2>2, <2>4, <2>5
<1>9. ASSUME NEW i \in 1 .. q, NEW k \in 1 .. 4
      PROVE  y[4 * (i - 1) + k] = IF k <= n - 3 * (i - 1) + 1 THEN Quad(source, i)[k] ELSE Pad
  <2> HIDE DEF n, t, y
  <2>1. CASE i <= t
    <3>1. i \in 1 .. t /\ k <= n - 3 * (i - 1) + 1
      BY <1>1, <2>1
    <3> QED
      BY <1>8, <3>1
  <2>2. CASE i > t
    <3>1. i = t + 1 /\ n # 3 * t /\ 4 * (i - 1) = 4 * t /\ n - 3 * (i - 1) = n - 3 * t
      BY <1>1, <1>7, <2>2
    <3> QED
      BY <1>6, <1>8, <3>1
  <2> QED
    BY <1>1, <1>7, <2>1, <2>2
<1> HIDE DEF n, q
<1>10. y \in Seq(0 .. 63 \cup {Pad}) /\ Len(y) = 4 * q
    BY <1>8 DEF A
<1> HIDE DEF y
<1>11. IsBase64Of(y, source)
    BY <1>9, <1>10 DEF IsBase64Of, n, q
<1> QED
    BY <1>2, <1>11 DEF y, x

\* Letters give back their bytes.
GiveBack(letters, a, b, c) ==
    /\ letters[1] * 4 + (letters[2] \div 16) = a
    /\ (letters[2] % 16) * 16 + (letters[3] \div 4) = b
    /\ (letters[3] % 4) * 64 + letters[4] = c

\* The four letters of three bytes have them in their bits.
LEMMA BytesBack ==
    ASSUME NEW a \in 0 .. 255, NEW b \in 0 .. 255, NEW c \in 0 .. 255
    PROVE  GiveBack(Triplet(a, b, c), a, b, c)
<1>1. (a \div 4) * 4 + (((a % 4) * 16 + (b \div 16)) \div 16) = a
    OBVIOUS
<1>2. (((a % 4) * 16 + (b \div 16)) % 16) * 16 + (((b % 16) * 4 + (c \div 64)) \div 4) = b
    OBVIOUS
<1>3. (((b % 16) * 4 + (c \div 64)) % 4) * 64 + (c % 64) = c
    OBVIOUS
<1> DEFINE x == a \div 4
           y == (a % 4) * 16 + (b \div 16)
           z == (b % 16) * 4 + (c \div 64)
           u == c % 64
<1>6. Triplet(a, b, c) = <<x, y, z, u>>
    BY DEF Triplet
<1>7. /\ x * 4 + (y \div 16) = a /\ (y % 16) * 16 + (z \div 4) = b /\ (z % 4) * 64 + u = c
    BY <1>1, <1>2, <1>3
<1> HIDE DEF x, y, z, u
<1>8. Triplet(a, b, c)[1] = x /\ Triplet(a, b, c)[2] = y /\ Triplet(a, b, c)[3] = z /\ Triplet(a, b, c)[4] = u
    BY <1>6
<1> QED
    BY <1>7, <1>8 DEF GiveBack

FirstByte(x, y) == x * 4 + (y \div 16)
SecondByte(y, z) == (y % 16) * 16 + (z \div 4)
ThirdByte(z, u) == (z % 4) * 64 + u

AreCutFrom(x, y) ==
    /\ FirstByte(x, y) \in 0 .. 255 /\ FirstByte(x, y) \div 4 = x /\ FirstByte(x, y) % 4 = y \div 16
    /\ SecondByte(x, y) \in 0 .. 255 /\ SecondByte(x, y) \div 16 = x % 16 /\ SecondByte(x, y) % 16 = y \div 4
    /\ ThirdByte(x, y) \in 0 .. 255 /\ ThirdByte(x, y) \div 64 = x % 4 /\ ThirdByte(x, y) % 64 = y

\* Of two letters next to each other a byte can be cut.
LEMMA BytesOfLetters ==
    ASSUME NEW x \in 0 .. 63, NEW y \in 0 .. 63
    PROVE  AreCutFrom(x, y)
<1>1. /\ x * 4 + (y \div 16) \in 0 .. 255 /\ (x * 4 + (y \div 16)) \div 4 = x
      /\ (x * 4 + (y \div 16)) % 4 = y \div 16
    OBVIOUS
<1>2. /\ (x % 16) * 16 + (y \div 4) \in 0 .. 255 /\ ((x % 16) * 16 + (y \div 4)) \div 16 = x % 16
      /\ ((x % 16) * 16 + (y \div 4)) % 16 = y \div 4
    OBVIOUS
<1>3. /\ (x % 4) * 64 + y \in 0 .. 255 /\ ((x % 4) * 64 + y) \div 64 = x % 4
      /\ ((x % 4) * 64 + y) % 64 = y
    OBVIOUS
<1> QED
    BY <1>1, <1>2, <1>3 DEF AreCutFrom, FirstByte, SecondByte, ThirdByte

\* ... and bytes their letters: those of a whole group, and of what there is
\* of the last one.
LEMMA LettersBack ==
    ASSUME NEW x \in 0 .. 63, NEW y \in 0 .. 63, NEW z \in 0 .. 63, NEW u \in 0 .. 63
    PROVE  Triplet(FirstByte(x, y), SecondByte(y, z), ThirdByte(z, u)) = <<x, y, z, u>>
<1> DEFINE a == FirstByte(x, y)
           b == SecondByte(y, z)
           c == ThirdByte(z, u)
<1>1. a \div 4 = x /\ a % 4 = y \div 16 /\ b \div 16 = y % 16 /\ b % 16 = z \div 4 /\ c \div 64 = z % 4 /\ c % 64 = u
  <2>1. AreCutFrom(x, y) /\ AreCutFrom(y, z) /\ AreCutFrom(z, u)
    BY BytesOfLetters
  <2> QED
    BY <2>1 DEF AreCutFrom
<1>2. (y \div 16) * 16 + (y % 16) = y /\ (z \div 4) * 4 + (z % 4) = z
    OBVIOUS
<1> HIDE DEF a, b, c
<1>3. a \div 4 = x /\ (a % 4) * 16 + (b \div 16) = y /\ (b % 16) * 4 + (c \div 64) = z /\ c % 64 = u
    BY <1>1, <1>2
<1>4. Triplet(a, b, c) = <<x, y, z, u>>
    BY <1>3, Zenon DEF Triplet
<1> QED
    BY <1>4 DEF a, b, c

IsPair(letters, x, y) == letters[1] = x /\ letters[2] = y
IsTriplet(letters, x, y, z) == letters[1] = x /\ letters[2] = y /\ letters[3] = z

\* With one letter filled up by zeros, the two bytes before it give the letters back.
LEMMA TwoBytesBack ==
    ASSUME NEW x \in 0 .. 63, NEW y \in 0 .. 63, NEW z \in 0 .. 63, z % 4 = 0
    PROVE  IsTriplet(Triplet(FirstByte(x, y), SecondByte(y, z), 0), x, y, z)
<1> DEFINE a == FirstByte(x, y)
           b == SecondByte(y, z)
<1>1. a \div 4 = x /\ a % 4 = y \div 16 /\ b \div 16 = y % 16 /\ b % 16 = z \div 4
  <2>1. AreCutFrom(x, y) /\ AreCutFrom(y, z)
    BY BytesOfLetters
  <2> QED
    BY <2>1 DEF AreCutFrom
<1>2. (y \div 16) * 16 + (y % 16) = y /\ (z \div 4) * 4 + (0 \div 64) = z
    OBVIOUS
<1> HIDE DEF a, b
<1>3. a \div 4 = x /\ (a % 4) * 16 + (b \div 16) = y /\ (b % 16) * 4 + (0 \div 64) = z
    BY <1>1, <1>2
<1>4. Triplet(a, b, 0) = <<x, y, z, 0 % 64>>
    BY <1>3, Zenon DEF Triplet
<1> QED
    BY <1>4 DEF a, b, IsTriplet

\* With two letters filled up, the one byte does.
LEMMA OneByteBack ==
    ASSUME NEW x \in 0 .. 63, NEW y \in 0 .. 63, y % 16 = 0
    PROVE  IsPair(Triplet(FirstByte(x, y), 0, 0), x, y)
<1> DEFINE a == FirstByte(x, y)
<1>1. a \div 4 = x /\ a % 4 = y \div 16
  <2>1. AreCutFrom(x, y)
    BY BytesOfLetters
  <2> QED
    BY <2>1 DEF AreCutFrom
<1>2. (y \div 16) * 16 + (0 \div 16) = y
    OBVIOUS
<1> HIDE DEF a
<1>3. a \div 4 = x /\ (a % 4) * 16 + (0 \div 16) = y
    BY <1>1, <1>2
<1>4. Triplet(a, 0, 0) = <<x, y, (0 % 16) * 4 + (0 \div 64), 0 % 64>>
    BY <1>3, Zenon DEF Triplet
<1> QED
    BY <1>4 DEF a, IsPair

\* How many groups of three n bytes need.
LEMMA Groups ==
    ASSUME NEW n \in Nat
    PROVE  /\ (n + 2) \div 3 \in Nat
           /\ n \in 3 * ((n + 2) \div 3) - 2 .. 3 * ((n + 2) \div 3)
           /\ n # 0 => (n + 2) \div 3 # 0
    OBVIOUS

\* The decoding table takes each letter for its number.
LEMMA Decoded ==
    ASSUME NEW ch \in 0 .. 63
    PROVE  decoding_table(ch) = ch /\ decoding_table(ch) < 64
    BY DEF decoding_table

\* What is left over when the source ends within a group is zeros.
LEMMA LeftOver ==
    ASSUME NEW a \in 0 .. 255, NEW b \in 0 .. 255
    PROVE  Triplet(a, 0, 0)[2] % 16 = 0 /\ Triplet(a, b, 0)[3] % 4 = 0
<1>1. Triplet(a, 0, 0)[2] = (a % 4) * 16 + (0 \div 16) /\ Triplet(a, b, 0)[3] = (b % 16) * 4 + (0 \div 64)
    BY DEF Triplet
<1>2. ((a % 4) * 16 + (0 \div 16)) % 16 = 0
    OBVIOUS
<1>3. ((b % 16) * 4 + (0 \div 64)) % 4 = 0
    OBVIOUS
<1> QED
    BY <1>1, <1>2, <1>3

PadIsNoLetter == Pad \notin 0 .. 63

\* The shape of the last group.
LEMMA LastGroup ==
    ASSUME NEW source \in Seq(0 .. 255), source # <<>>,
           NEW txt, IsBase64Of(txt, source), PadIsNoLetter
    PROVE  LET q == (Len(source) + 2) \div 3 IN
            /\ q \in Nat \ {0} /\ Len(txt) = 4 * q /\ Len(source) \in 3 * q - 2 .. 3 * q
            /\ Noes(txt) = 3 * q - Len(source)
            /\ WellFormed(txt)
<1> DEFINE n == Len(source)
           q == (n + 2) \div 3
<1>1. n \in Nat /\ n # 0
  <2>1. n \in Nat
    OBVIOUS
  <2>2. CASE n = 0
    BY <2>2
  <2> QED
    BY <2>1, <2>2
<1>2. q \in Nat \ {0} /\ n \in 3 * q - 2 .. 3 * q
  <2> HIDE DEF n
  <2> QED
    BY <1>1, Groups
<1>3. /\ txt \in Seq(0 .. 63 \cup {Pad}) /\ Len(txt) = 4 * q
      /\ \A i \in 1 .. q, k \in 1 .. 4 :
            txt[4 * (i - 1) + k] = IF k <= n - 3 * (i - 1) + 1 THEN Quad(source, i)[k] ELSE Pad
    BY DEF IsBase64Of
<1> HIDE DEF n, q
<1>4. ASSUME NEW i \in 1 .. q, NEW k \in 1 .. 4 PROVE Quad(source, i)[k] \in 0 .. 63
  <2>1. i \in Nat \ {0}
    BY <1>2
  <2> QED
    BY <2>1, QuadLetters, ZenonT(30)
<1>5. ASSUME NEW k \in 1 .. 4
      PROVE  txt[4 * q - 4 + k] = IF k <= n - 3 * q + 4 THEN Quad(source, q)[k] ELSE Pad
  <2>1. q \in 1 .. q /\ 4 * (q - 1) + k = 4 * q - 4 + k /\ n - 3 * (q - 1) + 1 = n - 3 * q + 4
    BY <1>1, <1>2
  <2>2. txt[4 * (q - 1) + k] = IF k <= n - 3 * (q - 1) + 1 THEN Quad(source, q)[k] ELSE Pad
    BY <1>3, <2>1
  <2> QED
    BY <2>1, <2>2
<1>6. \A k \in 1 .. 4 : Quad(source, q)[k] \in 0 .. 63
  <2>1. q \in 1 .. q
    BY <1>2
  <2> QED
    BY <1>4, <2>1
<1>7. /\ txt[4 * q - 1] = IF n >= 3 * q - 1 THEN Quad(source, q)[3] ELSE Pad
      /\ txt[4 * q] = IF n >= 3 * q THEN Quad(source, q)[4] ELSE Pad
      /\ txt[4 * q - 2] = Quad(source, q)[2]
  <2>1. /\ 4 * q - 4 + 3 = 4 * q - 1 /\ 4 * q - 4 + 4 = 4 * q /\ 4 * q - 4 + 2 = 4 * q - 2
        /\ (3 <= n - 3 * q + 4 <=> n >= 3 * q - 1) /\ (4 <= n - 3 * q + 4 <=> n >= 3 * q)
        /\ 2 <= n - 3 * q + 4
    BY <1>1, <1>2
  <2>2. txt[4 * q - 4 + 3] = IF 3 <= n - 3 * q + 4 THEN Quad(source, q)[3] ELSE Pad
    BY <1>5, 3 \in 1 .. 4
  <2>3. txt[4 * q - 4 + 4] = IF 4 <= n - 3 * q + 4 THEN Quad(source, q)[4] ELSE Pad
    BY <1>5, 4 \in 1 .. 4
  <2>4. txt[4 * q - 4 + 2] = IF 2 <= n - 3 * q + 4 THEN Quad(source, q)[2] ELSE Pad
    BY <1>5, 2 \in 1 .. 4
  <2> QED
    BY <2>1, <2>2, <2>3, <2>4
<1>8. Noes(txt) = 3 * q - n
  <2>1. Noes(txt) = CASE txt[4 * q - 1] = Pad -> 2
                       [] txt[4 * q - 1] # Pad /\ txt[4 * q] = Pad -> 1
                       [] OTHER -> 0
    BY <1>3 DEF Noes
  <2>2. Quad(source, q)[3] # Pad /\ Quad(source, q)[4] # Pad
    BY <1>6, 3 \in 1 .. 4, 4 \in 1 .. 4 DEF PadIsNoLetter
  <2>3. CASE n = 3 * q - 2
    <3>1. txt[4 * q - 1] = Pad
      BY <1>2, <1>7, <2>3
    <3>2. Noes(txt) = 2
      BY <2>1, <3>1
    <3> QED
      BY <1>2, <2>3, <3>2
  <2>4. CASE n = 3 * q - 1
    <3>1. txt[4 * q - 1] # Pad /\ txt[4 * q] = Pad
      BY <1>2, <1>7, <2>2, <2>4
    <3>2. Noes(txt) = 1
      BY <2>1, <3>1
    <3> QED
      BY <1>2, <2>4, <3>2
  <2>5. CASE n = 3 * q
    <3>1. txt[4 * q - 1] # Pad /\ txt[4 * q] # Pad
      BY <1>2, <1>7, <2>2, <2>5
    <3>2. Noes(txt) = 0
      BY <2>1, <3>1
    <3> QED
      BY <1>2, <2>5, <3>2
  <2> QED
    BY <1>2, <2>3, <2>4, <2>5
<1>9. ASSUME NEW p \in 1 .. 4 * q - (3 * q - n) PROVE txt[p] \in 0 .. 63
  <2>1. p \in 1 .. 4 * q
    BY <1>2
  <2>2. PICK i \in 1 .. q, k \in 1 .. 4 : p = 4 * (i - 1) + k
    <3>1. q \in Nat
      BY <1>2
    <3> QED
      BY <2>1, <3>1, InFours
  <2>3. k <= n - 3 * (i - 1) + 1
    BY <1>1, <1>2, <2>2
  <2> QED
    BY <1>3, <1>4, <2>2, <2>3
<1>10. n = 3 * q - 2 => Quad(source, q)[2] % 16 = 0
  <2> SUFFICES ASSUME n = 3 * q - 2 PROVE Quad(source, q)[2] % 16 = 0
    OBVIOUS
  <2>1. Padded(source, 3 * (q - 1) + 2) = 0 /\ Padded(source, 3 * (q - 1) + 3) = 0
    BY <1>1, <1>2 DEF Padded, n
  <2>2. Padded(source, 3 * (q - 1) + 1) \in 0 .. 255
    <3>1. 3 * (q - 1) + 1 \in 1 .. Len(source)
      BY <1>1, <1>2 DEF n
    <3>2. source[3 * (q - 1) + 1] \in 0 .. 255
      BY <3>1, Elements
    <3> QED
      BY <3>1, <3>2 DEF Padded
  <2> DEFINE a == Padded(source, 3 * (q - 1) + 1)
  <2>3. Quad(source, q) = Triplet(a, 0, 0)
    BY <2>1 DEF Quad
  <2> HIDE DEF a
  <2>4. a \in 0 .. 255
    BY <2>2 DEF a
  <2>5. Triplet(a, 0, 0)[2] % 16 = 0
    BY <2>4, LeftOver
  <2> QED
    BY <2>3, <2>5
<1>11. n = 3 * q - 1 => Quad(source, q)[3] % 4 = 0
  <2> SUFFICES ASSUME n = 3 * q - 1 PROVE Quad(source, q)[3] % 4 = 0
    OBVIOUS
  <2>1. Padded(source, 3 * (q - 1) + 3) = 0
    BY <1>1, <1>2 DEF Padded, n
  <2>2. Padded(source, 3 * (q - 1) + 1) \in 0 .. 255 /\ Padded(source, 3 * (q - 1) + 2) \in 0 .. 255
    <3>1. 3 * (q - 1) + 1 \in 1 .. Len(source) /\ 3 * (q - 1) + 2 \in 1 .. Len(source)
      BY <1>1, <1>2 DEF n
    <3>2. source[3 * (q - 1) + 1] \in 0 .. 255 /\ source[3 * (q - 1) + 2] \in 0 .. 255
      BY <3>1, Elements, ZenonT(30)
    <3> QED
      BY <3>1, <3>2 DEF Padded
  <2> DEFINE a == Padded(source, 3 * (q - 1) + 1)
             b == Padded(source, 3 * (q - 1) + 2)
  <2>3. Quad(source, q) = Triplet(a, b, 0)
    BY <2>1 DEF Quad
  <2> HIDE DEF a, b
  <2>4. a \in 0 .. 255 /\ b \in 0 .. 255
    BY <2>2 DEF a, b
  <2>5. Triplet(a, b, 0)[3] % 4 = 0
    BY <2>4, LeftOver
  <2> QED
    BY <2>3, <2>5
<1>12. WellFormed(txt)
  <2>1. Len(txt) = 4 * q /\ Noes(txt) = 3 * q - n
    BY <1>3, <1>8
  <2>2. Noes(txt) = 2 => txt[Len(txt)] = Pad
    <3> SUFFICES ASSUME Noes(txt) = 2 PROVE txt[Len(txt)] = Pad
      OBVIOUS
    <3>1. ~(n >= 3 * q)
      BY <1>2, <2>1
    <3>2. txt[4 * q] = Pad
      BY <1>7, <3>1
    <3> QED
      BY <2>1, <3>2
  <2>3. ASSUME NEW p \in 1 .. Len(txt) - Noes(txt) PROVE decoding_table(txt[p]) < 64
    <3>1. p \in 1 .. 4 * q - (3 * q - n)
      BY <2>1
    <3>2. txt[p] \in 0 .. 63
      BY <1>9, <3>1
    <3> QED
      BY <3>2, Decoded
  <2>4. Noes(txt) = 2 => decoding_table(txt[Len(txt) - 4 + 2]) % 16 = 0
    <3> SUFFICES ASSUME Noes(txt) = 2 PROVE decoding_table(txt[Len(txt) - 4 + 2]) % 16 = 0
      OBVIOUS
    <3>1. n = 3 * q - 2 /\ Len(txt) - 4 + 2 = 4 * q - 2
      BY <1>1, <1>2, <2>1
    <3>2. txt[4 * q - 2] % 16 = 0 /\ txt[4 * q - 2] \in 0 .. 63
      BY <1>6, <1>7, <1>10, <3>1
    <3> QED
      BY <3>1, <3>2 DEF decoding_table
  <2>5. Noes(txt) = 1 => decoding_table(txt[Len(txt) - 4 + 3]) % 4 = 0
    <3> SUFFICES ASSUME Noes(txt) = 1 PROVE decoding_table(txt[Len(txt) - 4 + 3]) % 4 = 0
      OBVIOUS
    <3>1. n = 3 * q - 1 /\ Len(txt) - 4 + 3 = 4 * q - 1
      BY <1>1, <1>2, <2>1
    <3>2. txt[4 * q - 1] % 4 = 0 /\ txt[4 * q - 1] \in 0 .. 63
      BY <1>6, <1>7, <1>11, <3>1
    <3> QED
      BY <3>1, <3>2 DEF decoding_table
  <2> QED
    BY <2>2, <2>3, <2>4, <2>5 DEF WellFormed
<1> QED
    BY <1>2, <1>3, <1>8, <1>12 DEF n, q

\* What a group is filled up with is a byte too.
LEMMA PaddedIsByte ==
    ASSUME NEW source \in Seq(0 .. 255), NEW k \in Nat \ {0}
    PROVE  Padded(source, k) \in 0 .. 255
<1>1. Len(source) \in Nat /\ \A p \in 1 .. Len(source) : source[p] \in 0 .. 255
    BY Elements
<1> QED
    BY <1>1 DEF Padded

HasByte(source, i, k) == i \in Nat \ {0} /\ k \in 1 .. 3 /\ 3 * (i - 1) + k <= Len(source)

\* The letters of a group unpack to its bytes, as far as there are any.
LEMMA UnpackedBack ==
    ASSUME NEW source \in Seq(0 .. 255), NEW txt, IsBase64Of(txt, source),
           NEW i, NEW k, HasByte(source, i, k)
    PROVE  Unpacked(txt, i)[k] = source[3 * (i - 1) + k]
<1>0. i \in Nat \ {0} /\ k \in 1 .. 3 /\ 3 * (i - 1) + k <= Len(source)
    BY DEF HasByte
<1> DEFINE n == Len(source)
           q == (n + 2) \div 3
           v == Quad(source, i)
           d(j) == decoding_table(txt[4 * i - 4 + j])
<1>1. n \in Nat /\ q \in Nat /\ n \in 3 * q - 2 .. 3 * q
  <2>1. n \in Nat
    OBVIOUS
  <2> HIDE DEF n
  <2> QED
    BY <2>1, Groups
<1>2. i \in 1 .. q
  <2> HIDE DEF q
  <2> QED
    BY <1>0, <1>1
<1>3. ASSUME NEW j \in 1 .. 4, j <= n - 3 * (i - 1) + 1 PROVE d(j) = v[j]
  <2>1. txt[4 * (i - 1) + j] = v[j]
    BY <1>2, <1>3 DEF IsBase64Of
  <2>2. 4 * (i - 1) + j = 4 * i - 4 + j
    BY <1>0
  <2>3. v[j] \in 0 .. 63
    BY <1>0, QuadLetters
  <2> HIDE DEF v
  <2> QED
    BY <2>1, <2>2, <2>3, Decoded
<1> DEFINE a == Padded(source, 3 * (i - 1) + 1)
           b == Padded(source, 3 * (i - 1) + 2)
           c == Padded(source, 3 * (i - 1) + 3)
<1>4. v = Triplet(a, b, c)
    BY DEF Quad
<1>5. a \in 0 .. 255 /\ b \in 0 .. 255 /\ c \in 0 .. 255
  <2>1. 3 * (i - 1) + 1 \in Nat \ {0} /\ 3 * (i - 1) + 2 \in Nat \ {0} /\ 3 * (i - 1) + 3 \in Nat \ {0}
    BY <1>0
  <2> QED
    BY <2>1, PaddedIsByte
<1>6. Unpacked(txt, i) = <<d(1) * 4 + (d(2) \div 16), (d(2) % 16) * 16 + (d(3) \div 4), (d(3) % 4) * 64 + d(4)>>
    BY DEF Unpacked
<1>7. Padded(source, 3 * (i - 1) + k) = source[3 * (i - 1) + k]
    BY <1>0 DEF Padded
<1>8. 3 * (i - 1) + k <= n
    BY <1>0
<1> HIDE DEF n, q, v, d, a, b, c
<1>12. GiveBack(v, a, b, c)
    BY <1>4, <1>5, BytesBack
<1>9. CASE k = 1
  <2>1. d(1) = v[1] /\ d(2) = v[2]
    BY <1>0, <1>1, <1>3, <1>8, <1>9, 1 \in 1 .. 4, 2 \in 1 .. 4
  <2>2. v[1] * 4 + (v[2] \div 16) = a
    BY <1>12 DEF GiveBack
  <2>3. Unpacked(txt, i)[1] = d(1) * 4 + (d(2) \div 16)
    BY <1>6
  <2> QED
    BY <1>7, <1>9, <2>1, <2>2, <2>3 DEF a
<1>10. CASE k = 2
  <2>1. d(2) = v[2] /\ d(3) = v[3]
    BY <1>0, <1>1, <1>3, <1>8, <1>10, 2 \in 1 .. 4, 3 \in 1 .. 4
  <2>2. (v[2] % 16) * 16 + (v[3] \div 4) = b
    BY <1>12 DEF GiveBack
  <2>3. Unpacked(txt, i)[2] = (d(2) % 16) * 16 + (d(3) \div 4)
    BY <1>6
  <2> QED
    BY <1>7, <1>10, <2>1, <2>2, <2>3 DEF b
<1>11. CASE k = 3
  <2>1. d(3) = v[3] /\ d(4) = v[4]
    BY <1>0, <1>1, <1>3, <1>8, <1>11, 3 \in 1 .. 4, 4 \in 1 .. 4
  <2>2. (v[3] % 4) * 64 + v[4] = c
    BY <1>12 DEF GiveBack
  <2>3. Unpacked(txt, i)[3] = (d(3) % 4) * 64 + d(4)
    BY <1>6
  <2> QED
    BY <1>7, <1>11, <2>1, <2>2, <2>3 DEF c
<1> QED
    BY <1>0, <1>9, <1>10, <1>11

\* The decoding table has a number for everything.
LEMMA TableIsNat ==
    ASSUME NEW ch
    PROVE  decoding_table(ch) \in Nat
<1>1. CASE ch \in 0 .. 63
    BY <1>1, Decoded
<1>2. CASE ch \notin 0 .. 63
  <2>1. decoding_table(ch) = 69
    BY <1>2 DEF decoding_table
  <2> QED
    BY <2>1
<1> QED
    BY <1>1, <1>2

\* What is unpacked of a group are three numbers.
LEMMA UnpackedInts ==
    ASSUME NEW txt, NEW i, \A k \in 1 .. 4 : decoding_table(txt[4 * i - 4 + k]) \in Nat
    PROVE  Unpacked(txt, i) \in Seq(Nat) /\ Len(Unpacked(txt, i)) = 3
<1> DEFINE d(j) == decoding_table(txt[4 * i - 4 + j])
           x == d(1) * 4 + (d(2) \div 16)
           y == (d(2) % 16) * 16 + (d(3) \div 4)
           z == (d(3) % 4) * 64 + d(4)
<1>1. Unpacked(txt, i) = <<x, y, z>>
    BY DEF Unpacked
<1>2. d(1) \in Nat /\ d(2) \in Nat /\ d(3) \in Nat /\ d(4) \in Nat
    BY 1 \in 1 .. 4, 2 \in 1 .. 4, 3 \in 1 .. 4, 4 \in 1 .. 4
<1> HIDE DEF d
<1>3. x \in Nat /\ y \in Nat /\ z \in Nat
    BY <1>2
<1> HIDE DEF x, y, z
<1> QED
    BY <1>1, <1>3

\* What the decoder gives back of a text it takes.
LEMMA DecodedBytes ==
    ASSUME NEW txt \in Seq(0 .. 63 \cup {Pad}), txt # <<>>, Len(txt) % 4 = 0, WellFormed(txt),
           Noes(txt) \in 0 .. 2
    PROVE  LET q == Len(txt) \div 4 IN
            /\ base64_decode(txt) \in Seq(Nat) /\ Len(base64_decode(txt)) = 3 * q - Noes(txt)
            /\ \A i \in 1 .. q, k \in 1 .. 3 : 3 * (i - 1) + k <= 3 * q - Noes(txt) =>
                 base64_decode(txt)[3 * (i - 1) + k] = Unpacked(txt, i)[k]
<1> DEFINE q == Len(txt) \div 4
           F == [i \in 1 .. q |-> Unpacked(txt, i)]
           all == FlattenSeq(F)
           m == 3 * q - Noes(txt)
<1>1. Len(txt) \in Nat /\ Len(txt) # 0 /\ q \in Nat \ {0} /\ Len(txt) = 4 * q
  <2>1. Len(txt) \in Nat /\ Len(txt) # 0
    <3>1. CASE Len(txt) = 0
      BY <3>1
    <3> QED
      BY <3>1
  <2> QED
    BY <2>1
<1>2. base64_decode(txt) = SubSeq(all, 1, m)
    BY <1>1 DEF base64_decode
<1>3. ASSUME NEW i \in 1 .. q PROVE F[i] = Unpacked(txt, i) /\ F[i] \in Seq(Nat) /\ Len(F[i]) = 3
  <2>1. ASSUME NEW k \in 1 .. 4 PROVE decoding_table(txt[4 * i - 4 + k]) \in Nat
    BY TableIsNat
  <2>2. F[i] = Unpacked(txt, i)
    OBVIOUS
  <2> HIDE DEF F
  <2> QED
    BY <2>1, <2>2, UnpackedInts
<1> HIDE DEF q
<1>4. F \in [1 .. q -> Seq(Nat)]
  <2>1. \A i \in 1 .. q : Unpacked(txt, i) \in Seq(Nat)
    BY <1>3
  <2> QED
    BY <2>1
<1> HIDE DEF F
<1>5. all \in Seq(Nat) /\ AreBlocks(all, 3, q, F)
  <2>1. q \in Nat /\ 3 \in Nat
    BY <1>1
  <2>2. \A i \in 1 .. q : Len(F[i]) = 3
    BY <1>3
  <2> QED
    BY <1>4, <2>1, <2>2, Blocks
<1> HIDE DEF all
<1>6. Len(all) = 3 * q /\ \A i \in 1 .. q, k \in 1 .. 3 : all[3 * (i - 1) + k] = F[i][k]
    BY <1>5 DEF AreBlocks
<1>7. m \in Nat /\ 1 <= m + 1 /\ m <= Len(all) /\ m - 1 + 1 = m
    BY <1>1, <1>6
<1> HIDE DEF m
<1>8. SubSeq(all, 1, m) \in Seq(Nat) /\ IsPart(SubSeq(all, 1, m), all, 1, m)
  <2>1. 1 \in Nat \ {0}
    OBVIOUS
  <2> QED
    BY <1>5, <1>7, <2>1, Part
<1>9. Len(SubSeq(all, 1, m)) = m /\ \A p \in 1 .. m : SubSeq(all, 1, m)[p] = all[p]
  <2>1. Len(SubSeq(all, 1, m)) = m - 1 + 1 /\ \A p \in 1 .. m - 1 + 1 : SubSeq(all, 1, m)[p] = all[1 + p - 1]
    BY <1>8 DEF IsPart
  <2>2. \A p \in 1 .. m : 1 + p - 1 = p
    BY <1>7
  <2> QED
    BY <1>7, <2>1, <2>2
<1>10. ASSUME NEW i \in 1 .. q, NEW k \in 1 .. 3, 3 * (i - 1) + k <= m
       PROVE  base64_decode(txt)[3 * (i - 1) + k] = Unpacked(txt, i)[k]
  <2>1. 3 * (i - 1) + k \in 1 .. m
    BY <1>1, <1>7, <1>10
  <2>2. all[3 * (i - 1) + k] = F[i][k] /\ F[i] = Unpacked(txt, i)
    BY <1>3, <1>6
  <2>3. SubSeq(all, 1, m)[3 * (i - 1) + k] = all[3 * (i - 1) + k]
    BY <1>9, <2>1
  <2> QED
    BY <1>2, <2>2, <2>3
<1> QED
    BY <1>2, <1>8, <1>9, <1>10 DEF q, m

\* base64 of a source decodes to it.
LEMMA DecodedBack ==
    ASSUME NEW source \in Seq(0 .. 255), NEW txt, IsBase64Of(txt, source), PadIsNoLetter
    PROVE  base64_decode(txt) = source
<1> DEFINE n == Len(source)
           q == (n + 2) \div 3
<1>1. n \in Nat /\ txt \in Seq(0 .. 63 \cup {Pad}) /\ Len(txt) = 4 * q
  <2>1. n \in Nat
    OBVIOUS
  <2>2. txt \in Seq(0 .. 63 \cup {Pad}) /\ Len(txt) = 4 * ((Len(source) + 2) \div 3)
    BY Zenon DEF IsBase64Of
  <2> QED
    BY <2>1, <2>2
<1>2. CASE source = <<>>
  <2>1. n = 0
    BY <1>2
  <2>2. q = 0
    BY <2>1
  <2> HIDE DEF q, n
  <2>3. Len(txt) = 0 /\ txt = <<>>
    BY <1>1, <2>2
  <2>4. base64_decode(<<>>) = <<>>
    BY DEF base64_decode
  <2> QED
    BY <1>2, <2>3, <2>4
<1>3. CASE source # <<>>
  <2>1. /\ q \in Nat \ {0} /\ Len(txt) = 4 * q /\ n \in 3 * q - 2 .. 3 * q
        /\ Noes(txt) = 3 * q - n /\ WellFormed(txt)
    BY <1>3, LastGroup
  <2> HIDE DEF q, n
  <2>2. /\ Len(txt) % 4 = 0 /\ Len(txt) \div 4 = q /\ Noes(txt) \in 0 .. 2 /\ 3 * q - Noes(txt) = n
        /\ Len(txt) # 0
    BY <1>1, <2>1
  <2>3. txt # <<>>
    BY <2>2
  <2> DEFINE bytes == base64_decode(txt)
  <2>4. /\ bytes \in Seq(Nat) /\ Len(bytes) = n
        /\ \A i \in 1 .. q, k \in 1 .. 3 : 3 * (i - 1) + k <= n => bytes[3 * (i - 1) + k] = Unpacked(txt, i)[k]
    BY <1>1, <2>1, <2>2, <2>3, DecodedBytes
  <2> HIDE DEF bytes
  <2>5. ASSUME NEW p \in 1 .. Len(bytes) PROVE bytes[p] = source[p]
    <3>1. p \in 1 .. 3 * q /\ q \in Nat
      BY <2>1, <2>4
    <3>2. PICK i \in 1 .. q, k \in 1 .. 3 : p = 3 * (i - 1) + k
      BY <3>1, InThrees
    <3>3. i \in Nat \ {0} /\ 3 * (i - 1) + k <= n
      BY <2>4, <3>1, <3>2
    <3>6. HasByte(source, i, k)
      BY <3>3 DEF n, HasByte
    <3>4. Unpacked(txt, i)[k] = source[3 * (i - 1) + k]
      BY <3>6, UnpackedBack
    <3>5. bytes[3 * (i - 1) + k] = Unpacked(txt, i)[k]
      BY <2>4, <3>3
    <3> QED
      BY <3>2, <3>4, <3>5
  <2>6. Len(bytes) = Len(source)
    BY <2>4 DEF n
  <2>7. bytes = source
    <3>1. bytes \in Seq(Nat)
      BY <2>4
    <3>2. AreSame(bytes, source)
      BY <2>5, <2>6 DEF AreSame
    <3> QED
      BY <3>1, <3>2, SameSeq
  <2> QED
    BY <2>7 DEF bytes
<1> QED
    BY <1>2, <1>3

\* The last letters of a text that is accepted.
LEMMA Ends ==
    ASSUME NEW txt, IsText(txt), Len(txt) \in Nat \ {0}, WellFormed(txt), PadIsNoLetter
    PROVE  /\ Noes(txt) \in 0 .. 2
           /\ Noes(txt) > 0 => txt[Len(txt)] = Pad
           /\ Noes(txt) = 2 => txt[Len(txt) - 1] = Pad
           /\ \A p \in 1 .. Len(txt) - Noes(txt) : txt[p] \in 0 .. 63
<1> DEFINE n == Len(txt)
<1>1. /\ Noes(txt) \in 0 .. 2
      /\ Noes(txt) > 0 => txt[n] = Pad
      /\ Noes(txt) = 2 => txt[n - 1] = Pad
  <2>1. CASE txt[n - 1] = Pad
    <3>1. Noes(txt) = 2
      BY <2>1 DEF Noes
    <3>2. txt[n] = Pad
      BY <3>1 DEF WellFormed
    <3> QED
      BY <2>1, <3>1, <3>2
  <2>2. CASE txt[n - 1] # Pad /\ txt[n] = Pad
    <3>1. Noes(txt) = 1
      BY <2>2 DEF Noes
    <3> QED
      BY <2>2, <3>1
  <2>3. CASE txt[n - 1] # Pad /\ txt[n] # Pad
    <3>1. Noes(txt) = 0
      BY <2>3 DEF Noes
    <3> QED
      BY <3>1
  <2> QED
    BY <2>1, <2>2, <2>3
<1>4. ASSUME NEW p \in 1 .. Len(txt) - Noes(txt) PROVE txt[p] \in 0 .. 63
  <2>1. decoding_table(txt[p]) < 64
    BY DEF WellFormed
  <2>2. CASE txt[p] \notin 0 .. 63
    <3>1. decoding_table(txt[p]) = 69
      BY <2>2 DEF decoding_table
    <3> QED
      BY <2>1, <3>1
  <2> QED
    BY <2>2
<1> QED
    BY <1>1, <1>4

\* Of q groups, the last without e bytes, so many bytes are left.
LEMMA GroupsLeft ==
    ASSUME NEW q \in Nat \ {0}, NEW e \in 0 .. 2, NEW m, m = 3 * q - e
    PROVE  m \in 3 * q - 2 .. 3 * q /\ m \in Nat /\ e = 3 * q - m /\ (m + 2) \div 3 = q
<1>1. m \in Nat /\ e = 3 * q - m /\ 3 * q - 2 <= m /\ m <= 3 * q
    OBVIOUS
<1>2. (m + 2) \div 3 = q
    BY <1>1
<1> QED
    BY <1>1, <1>2

\* A text that is accepted is base64 of what it is taken for.
LEMMA Accepted ==
    ASSUME NEW txt, IsText(txt), base64_decode(txt) # Error, PadIsNoLetter
    PROVE  /\ base64_decode(txt) \in Seq(0 .. 255)
           /\ IsBase64Of(txt, base64_decode(txt))
<1> DEFINE bytes == base64_decode(txt)
           l == Len(txt)
           q == l \div 4
           m == 3 * q - Noes(txt)
<1>1. l \in Nat /\ l % 4 = 0 /\ txt = [p \in 1 .. l |-> txt[p]]
  <2>1. l \in Nat /\ txt = [p \in 1 .. l |-> txt[p]]
    BY TextOf
  <2>2. CASE l % 4 # 0
    BY <2>2 DEF base64_decode
  <2> QED
    BY <2>1, <2>2
<1>2. CASE txt = <<>>
  <2>1. bytes = <<>>
    BY <1>2 DEF base64_decode
  <2> HIDE DEF bytes
  <2>2. bytes \in Seq(0 .. 255) /\ txt \in Seq(0 .. 63 \cup {Pad}) /\ Len(txt) = 0 /\ Len(bytes) = 0
    <3>1. \A S : <<>> \in Seq(S)
      OBVIOUS
    <3>2. Len(<<>>) = 0
      OBVIOUS
    <3> QED
      BY <1>2, <2>1, <3>1, <3>2, Zenon
  <2>3. Len(txt) = 4 * ((Len(bytes) + 2) \div 3) /\ (Len(bytes) + 2) \div 3 = 0
    BY <2>2
  <2>4. IsBase64Of(txt, bytes)
    BY <2>2, <2>3 DEF IsBase64Of
  <2> QED
    BY <2>2, <2>4 DEF bytes
<1>3. CASE txt # <<>>
  <2>1. WellFormed(txt)
    <3>1. CASE ~WellFormed(txt)
      BY <1>1, <1>3, <3>1 DEF base64_decode
    <3> QED
      BY <3>1
  <2>2. l # 0
    <3>1. CASE l = 0
      <4>1. txt \in Seq(Range(txt))
        BY TextOf
      <4> QED
        BY <1>3, <3>1, <4>1
    <3> QED
      BY <3>1
  <2>3. l \in Nat \ {0} /\ q \in Nat \ {0} /\ l = 4 * q
    <3> HIDE DEF l
    <3> QED
      BY <1>1, <2>2
  <2>4. /\ Noes(txt) \in 0 .. 2
        /\ Noes(txt) > 0 => txt[l] = Pad
        /\ Noes(txt) = 2 => txt[l - 1] = Pad
        /\ \A p \in 1 .. l - Noes(txt) : txt[p] \in 0 .. 63
    BY <2>1, <2>3, Ends
  <2> DEFINE A == 0 .. 63 \cup {Pad}
  <2>5. txt \in Seq(A)
    <3>1. ASSUME NEW p \in 1 .. l PROVE txt[p] \in A
      <4>1. p <= l - Noes(txt) \/ p = l \/ (p = l - 1 /\ Noes(txt) = 2)
        BY <2>3, <2>4
      <4>2. CASE p <= l - Noes(txt)
        BY <2>3, <2>4, <4>2
      <4>3. CASE p > l - Noes(txt)
        <5>1. (p = l /\ Noes(txt) > 0) \/ (p = l - 1 /\ Noes(txt) = 2)
          BY <2>3, <2>4, <4>1, <4>3
        <5>2. txt[p] = Pad
          BY <2>4, <5>1
        <5> QED
          BY <5>2
      <4> QED
        BY <2>3, <2>4, <4>2, <4>3
    <3> HIDE DEF A, l
    <3> QED
      BY <1>1, <3>1, IsSeq
  <2>6. /\ bytes \in Seq(Nat) /\ Len(bytes) = m
        /\ \A i \in 1 .. q, k \in 1 .. 3 : 3 * (i - 1) + k <= m => bytes[3 * (i - 1) + k] = Unpacked(txt, i)[k]
    BY <1>1, <1>3, <2>1, <2>4, <2>5, DecodedBytes
  <2> HIDE DEF bytes, l, q, m, A
  <2>7. m \in 3 * q - 2 .. 3 * q /\ m \in Nat /\ Noes(txt) = 3 * q - m /\ (m + 2) \div 3 = q
    <3>1. m = 3 * q - Noes(txt) /\ Noes(txt) \in 0 .. 2 /\ q \in Nat \ {0}
      BY <2>3, <2>4 DEF m
    <3> QED
      BY <3>1, GroupsLeft
  \* one group
  <2>8. ASSUME NEW i \in 1 .. q
        PROVE  /\ \A k \in 1 .. 3 : 3 * (i - 1) + k <= m => Unpacked(txt, i)[k] \in 0 .. 255
               /\ \A k \in 1 .. 4 : txt[4 * (i - 1) + k] = IF k <= m - 3 * (i - 1) + 1 THEN Quad(bytes, i)[k] ELSE Pad
    <3> DEFINE x == txt[4 * (i - 1) + 1]
               y == txt[4 * (i - 1) + 2]
               z == txt[4 * (i - 1) + 3]
               u == txt[4 * (i - 1) + 4]
    <3>1. i \in Nat \ {0} /\ q \in Nat
      BY <2>3
    <3>2. x \in 0 .. 63 /\ y \in 0 .. 63
      <4>1. 4 * (i - 1) + 1 \in 1 .. l - Noes(txt) /\ 4 * (i - 1) + 2 \in 1 .. l - Noes(txt)
        BY <2>3, <2>4
      <4> QED
        BY <2>4, <4>1
    <3>3. /\ 4 * i - 4 + 1 = 4 * (i - 1) + 1 /\ 4 * i - 4 + 2 = 4 * (i - 1) + 2
          /\ 4 * i - 4 + 3 = 4 * (i - 1) + 3 /\ 4 * i - 4 + 4 = 4 * (i - 1) + 4
      BY <3>1
    <3>4. Unpacked(txt, i) =
            << FirstByte(decoding_table(x), decoding_table(y)), SecondByte(decoding_table(y), decoding_table(z)),
               ThirdByte(decoding_table(z), decoding_table(u)) >>
      BY <3>3, Zenon DEF Unpacked, FirstByte, SecondByte, ThirdByte
    <3>5. decoding_table(x) = x /\ decoding_table(y) = y
      BY <3>2, Decoded
    <3> HIDE DEF x, y, z, u
    <3>6. Unpacked(txt, i)[1] = FirstByte(x, y) /\ Unpacked(txt, i)[1] \in 0 .. 255
      <4>1. AreCutFrom(x, y)
        BY <3>2, BytesOfLetters
      <4>2. Unpacked(txt, i)[1] = FirstByte(x, y)
        BY <3>4, <3>5
      <4> QED
        BY <4>1, <4>2 DEF AreCutFrom
    <3>7. CASE 3 * (i - 1) + 3 <= m
      <4>1. z \in 0 .. 63 /\ u \in 0 .. 63
        <5>1. 4 * (i - 1) + 3 \in 1 .. l - Noes(txt) /\ 4 * (i - 1) + 4 \in 1 .. l - Noes(txt)
          BY <2>3, <2>4, <2>7, <3>7
        <5> QED
          BY <2>4, <5>1 DEF z, u
      <4>2. decoding_table(z) = z /\ decoding_table(u) = u
        BY <4>1, Decoded
      <4>3. Unpacked(txt, i)[2] = SecondByte(y, z) /\ Unpacked(txt, i)[3] = ThirdByte(z, u)
        BY <3>4, <3>5, <4>2
      <4>4. Unpacked(txt, i)[2] \in 0 .. 255 /\ Unpacked(txt, i)[3] \in 0 .. 255
        <5>1. AreCutFrom(y, z) /\ AreCutFrom(z, u)
          BY <3>2, <4>1, BytesOfLetters
        <5> QED
          BY <4>3, <5>1 DEF AreCutFrom
      <4>5. 3 * (i - 1) + 1 <= m /\ 3 * (i - 1) + 2 <= m
        BY <2>7, <3>1, <3>7
      <4>6. Padded(bytes, 3 * (i - 1) + 1) = FirstByte(x, y) /\ Padded(bytes, 3 * (i - 1) + 2) = SecondByte(y, z)
            /\ Padded(bytes, 3 * (i - 1) + 3) = ThirdByte(z, u)
        <5>1. bytes[3 * (i - 1) + 1] = FirstByte(x, y)
          BY <2>6, <3>6, <4>5, 1 \in 1 .. 3
        <5>2. bytes[3 * (i - 1) + 2] = SecondByte(y, z)
          BY <2>6, <4>3, <4>5, 2 \in 1 .. 3
        <5>3. bytes[3 * (i - 1) + 3] = ThirdByte(z, u)
          BY <2>6, <3>7, <4>3, 3 \in 1 .. 3
        <5> QED
          BY <2>6, <3>7, <4>5, <5>1, <5>2, <5>3 DEF Padded
      <4>7. Quad(bytes, i) = <<x, y, z, u>>
        <5>1. Triplet(FirstByte(x, y), SecondByte(y, z), ThirdByte(z, u)) = <<x, y, z, u>>
          BY <3>2, <4>1, LettersBack
        <5> QED
          BY <4>6, <5>1 DEF Quad
      <4>8. ASSUME NEW k \in 1 .. 4
            PROVE  txt[4 * (i - 1) + k] = IF k <= m - 3 * (i - 1) + 1 THEN Quad(bytes, i)[k] ELSE Pad
        <5>1. k <= m - 3 * (i - 1) + 1
          BY <2>7, <3>1, <3>7
        <5>2. Quad(bytes, i)[1] = x /\ Quad(bytes, i)[2] = y /\ Quad(bytes, i)[3] = z /\ Quad(bytes, i)[4] = u
          BY <4>7
        <5>3. k = 1 \/ k = 2 \/ k = 3 \/ k = 4
          OBVIOUS
        <5>4. txt[4 * (i - 1) + k] = Quad(bytes, i)[k]
          BY <5>2, <5>3, Zenon DEF x, y, z, u
        <5> QED
          BY <5>1, <5>4
      <4>9. \A k \in 1 .. 3 : Unpacked(txt, i)[k] \in 0 .. 255
        BY <3>6, <4>4
      <4> QED
        BY <4>8, <4>9
    <3>8. CASE 3 * (i - 1) + 3 = m + 1
      <4>1. i = q /\ Noes(txt) = 1
        BY <2>7, <3>1, <3>8
      <4>2. u = Pad /\ z \in 0 .. 63 /\ z % 4 = 0
        <5>1. l = 4 * (i - 1) + 4 /\ 4 * (i - 1) + 3 \in 1 .. l - Noes(txt) /\ l - 4 + 3 = 4 * (i - 1) + 3
          BY <2>3, <4>1
        <5>2. txt[4 * (i - 1) + 4] = Pad /\ txt[4 * (i - 1) + 3] \in 0 .. 63
          BY <2>4, <4>1, <5>1
        <5>3. decoding_table(txt[l - 4 + 3]) % 4 = 0
          BY <2>1, <4>1 DEF WellFormed, l
        <5>4. decoding_table(z) % 4 = 0 /\ z \in 0 .. 63 /\ u = Pad
          BY <5>1, <5>2, <5>3 DEF z, u
        <5>5. decoding_table(z) = z
          BY <5>4, Decoded
        <5> QED
          BY <5>4, <5>5
      <4>3. decoding_table(z) = z
        BY <4>2, Decoded
      <4>4. Unpacked(txt, i)[2] = SecondByte(y, z) /\ Unpacked(txt, i)[2] \in 0 .. 255
        <5>1. AreCutFrom(y, z)
          BY <3>2, <4>2, BytesOfLetters
        <5>2. Unpacked(txt, i)[2] = SecondByte(y, z)
          BY <3>4, <3>5, <4>3
        <5> QED
          BY <5>1, <5>2 DEF AreCutFrom
      <4>5. 3 * (i - 1) + 1 <= m /\ 3 * (i - 1) + 2 <= m /\ ~(3 * (i - 1) + 3 <= m)
        BY <2>7, <3>1, <3>8
      <4>6. Padded(bytes, 3 * (i - 1) + 1) = FirstByte(x, y) /\ Padded(bytes, 3 * (i - 1) + 2) = SecondByte(y, z)
            /\ Padded(bytes, 3 * (i - 1) + 3) = 0
        <5>1. bytes[3 * (i - 1) + 1] = FirstByte(x, y)
          BY <2>6, <3>6, <4>5, 1 \in 1 .. 3
        <5>2. bytes[3 * (i - 1) + 2] = SecondByte(y, z)
          BY <2>6, <4>4, <4>5, 2 \in 1 .. 3
        <5> QED
          BY <2>6, <4>5, <5>1, <5>2 DEF Padded
      <4>7. Quad(bytes, i)[1] = x /\ Quad(bytes, i)[2] = y /\ Quad(bytes, i)[3] = z
        <5>1. Quad(bytes, i) = Triplet(FirstByte(x, y), SecondByte(y, z), 0)
          BY <4>6 DEF Quad
        <5>2. IsTriplet(Triplet(FirstByte(x, y), SecondByte(y, z), 0), x, y, z)
          BY <3>2, <4>2, TwoBytesBack
        <5> QED
          BY <5>1, <5>2 DEF IsTriplet
      <4>8. ASSUME NEW k \in 1 .. 4
            PROVE  txt[4 * (i - 1) + k] = IF k <= m - 3 * (i - 1) + 1 THEN Quad(bytes, i)[k] ELSE Pad
        <5>1. m - 3 * (i - 1) + 1 = 3
          BY <2>7, <3>1, <3>8
        <5>2. k = 1 \/ k = 2 \/ k = 3 \/ k = 4
          OBVIOUS
        <5>3. CASE k = 4
          BY <4>2, <5>1, <5>3 DEF u
        <5>4. CASE k # 4
          <6>1. txt[4 * (i - 1) + k] = Quad(bytes, i)[k]
            BY <4>7, <5>2, <5>4, Zenon DEF x, y, z
          <6> QED
            BY <5>1, <5>2, <5>4, <6>1
        <5> QED
          BY <5>3, <5>4
      <4>9. \A k \in 1 .. 3 : 3 * (i - 1) + k <= m => Unpacked(txt, i)[k] \in 0 .. 255
        BY <3>6, <4>4, <4>5
      <4> QED
        BY <4>8, <4>9
    <3>9. CASE 3 * (i - 1) + 3 = m + 2
      <4>1. i = q /\ Noes(txt) = 2
        BY <2>7, <3>1, <3>9
      <4>2. z = Pad /\ u = Pad /\ y % 16 = 0
        <5>1. l = 4 * (i - 1) + 4 /\ l - 1 = 4 * (i - 1) + 3 /\ l - 4 + 2 = 4 * (i - 1) + 2
          BY <2>3, <4>1
        <5>2. txt[4 * (i - 1) + 4] = Pad /\ txt[4 * (i - 1) + 3] = Pad
          BY <2>4, <4>1, <5>1
        <5>3. decoding_table(txt[l - 4 + 2]) % 16 = 0
          BY <2>1, <4>1 DEF WellFormed, l
        <5>4. decoding_table(y) % 16 = 0 /\ z = Pad /\ u = Pad
          BY <5>1, <5>2, <5>3 DEF y, z, u
        <5> QED
          BY <3>5, <5>4
      <4>5. 3 * (i - 1) + 1 <= m /\ ~(3 * (i - 1) + 2 <= m) /\ ~(3 * (i - 1) + 3 <= m)
        BY <2>7, <3>1, <3>9
      <4>6. Padded(bytes, 3 * (i - 1) + 1) = FirstByte(x, y) /\ Padded(bytes, 3 * (i - 1) + 2) = 0
            /\ Padded(bytes, 3 * (i - 1) + 3) = 0
        <5>1. bytes[3 * (i - 1) + 1] = FirstByte(x, y)
          BY <2>6, <3>6, <4>5, 1 \in 1 .. 3
        <5> QED
          BY <2>6, <4>5, <5>1 DEF Padded
      <4>7. Quad(bytes, i)[1] = x /\ Quad(bytes, i)[2] = y
        <5>1. Quad(bytes, i) = Triplet(FirstByte(x, y), 0, 0)
          BY <4>6 DEF Quad
        <5>2. IsPair(Triplet(FirstByte(x, y), 0, 0), x, y)
          BY <3>2, <4>2, OneByteBack
        <5> QED
          BY <5>1, <5>2 DEF IsPair
      <4>8. ASSUME NEW k \in 1 .. 4
            PROVE  txt[4 * (i - 1) + k] = IF k <= m - 3 * (i - 1) + 1 THEN Quad(bytes, i)[k] ELSE Pad
        <5>1. m - 3 * (i - 1) + 1 = 2
          BY <2>7, <3>1, <3>9
        <5>2. k = 1 \/ k = 2 \/ k = 3 \/ k = 4
          OBVIOUS
        <5>3. CASE k = 3 \/ k = 4
          <6>1. txt[4 * (i - 1) + k] = Pad
            BY <4>2, <5>3, Zenon DEF z, u
          <6> QED
            BY <5>1, <5>3, <6>1
        <5>4. CASE k = 1 \/ k = 2
          <6>1. txt[4 * (i - 1) + k] = Quad(bytes, i)[k]
            BY <4>7, <5>4, Zenon DEF x, y
          <6> QED
            BY <5>1, <5>4, <6>1
        <5> QED
          BY <5>2, <5>3, <5>4
      <4>9. \A k \in 1 .. 3 : 3 * (i - 1) + k <= m => Unpacked(txt, i)[k] \in 0 .. 255
        BY <3>6, <4>5
      <4> QED
        BY <4>8, <4>9
    <3> QED
      <4>1. 3 * (i - 1) + 3 <= m \/ 3 * (i - 1) + 3 = m + 1 \/ 3 * (i - 1) + 3 = m + 2
        BY <2>7, <3>1
      <4> QED
        BY <3>7, <3>8, <3>9, <4>1
  <2>9. bytes \in Seq(0 .. 255)
    <3>1. ASSUME NEW p \in 1 .. m PROVE bytes[p] \in 0 .. 255
      <4>1. p \in 1 .. 3 * q /\ q \in Nat
        BY <2>3, <2>7
      <4>2. PICK i \in 1 .. q, k \in 1 .. 3 : p = 3 * (i - 1) + k
        BY <4>1, InThrees
      <4>3. 3 * (i - 1) + k <= m
        BY <4>2
      <4>4. bytes[3 * (i - 1) + k] = Unpacked(txt, i)[k] /\ Unpacked(txt, i)[k] \in 0 .. 255
        BY <2>6, <2>8, <4>3
      <4> QED
        BY <4>2, <4>4
    <3>2. m \in Nat /\ bytes = [p \in 1 .. m |-> bytes[p]]
      BY <2>6, <2>7, Elements
    <3> QED
      BY <3>1, <3>2, IsSeq
  <2>10. IsBase64Of(txt, bytes)
    <3>1. Len(txt) = 4 * ((Len(bytes) + 2) \div 3) /\ (Len(bytes) + 2) \div 3 = q
      BY <2>3, <2>6, <2>7 DEF l
    <3>2. \A i \in 1 .. q, k \in 1 .. 4 :
            txt[4 * (i - 1) + k] = IF k <= Len(bytes) - 3 * (i - 1) + 1 THEN Quad(bytes, i)[k] ELSE Pad
      BY <2>6, <2>8
    <3>3. txt \in Seq(0 .. 63 \cup {Pad})
      BY <2>5 DEF A
    <3> QED
      BY <3>1, <3>2, <3>3, Zenon DEF IsBase64Of
  <2> QED
    BY <2>9, <2>10 DEF bytes
<1> QED
    BY <1>2, <1>3

\* The powers of two that occur.
LEMMA Powers ==
    /\ 2 ^ 0 = 1 /\ 2 ^ 1 = 2 /\ 2 ^ 2 = 4 /\ 2 ^ 3 = 8
    /\ 2 ^ 4 = 16 /\ 2 ^ 5 = 32 /\ 2 ^ 6 = 64 /\ 2 ^ 7 = 128
    OBVIOUS

\* The bits of a letter, and those of a byte.
SixOf(v) ==
    /\ Bit(v, 6, 1) = (v \div 32) % 2 /\ Bit(v, 6, 2) = (v \div 16) % 2 /\ Bit(v, 6, 3) = (v \div 8) % 2
    /\ Bit(v, 6, 4) = (v \div 4) % 2 /\ Bit(v, 6, 5) = (v \div 2) % 2 /\ Bit(v, 6, 6) = (v \div 1) % 2

EightOf(v) ==
    /\ Bit(v, 8, 1) = (v \div 128) % 2 /\ Bit(v, 8, 2) = (v \div 64) % 2 /\ Bit(v, 8, 3) = (v \div 32) % 2
    /\ Bit(v, 8, 4) = (v \div 16) % 2 /\ Bit(v, 8, 5) = (v \div 8) % 2 /\ Bit(v, 8, 6) = (v \div 4) % 2
    /\ Bit(v, 8, 7) = (v \div 2) % 2 /\ Bit(v, 8, 8) = (v \div 1) % 2

\* The bits of a letter.
LEMMA SixBits ==
    ASSUME NEW v
    PROVE  SixOf(v)
<1>1. 6 - 1 = 5 /\ 6 - 2 = 4 /\ 6 - 3 = 3 /\ 6 - 4 = 2 /\ 6 - 5 = 1 /\ 6 - 6 = 0
    OBVIOUS
<1> QED
    BY <1>1, Powers, Zenon DEF Bit, SixOf

\* The bits of a byte.
LEMMA EightBits ==
    ASSUME NEW v
    PROVE  EightOf(v)
<1>1. 8 - 1 = 7 /\ 8 - 2 = 6 /\ 8 - 3 = 5 /\ 8 - 4 = 4 /\ 8 - 5 = 3 /\ 8 - 6 = 2 /\ 8 - 7 = 1 /\ 8 - 8 = 0
    OBVIOUS
<1> QED
    BY <1>1, Powers, SMTT(30) DEF Bit, EightOf

\* Where the bits of the four letters come from.
AreFrom(a, b, c) ==
    /\ \A k \in 1 .. 6 : Bit(a \div 4, 6, k) = Bit(a, 8, k)
    /\ \A k \in 1 .. 2 : Bit((a % 4) * 16 + (b \div 16), 6, k) = Bit(a, 8, k + 6)
    /\ \A k \in 3 .. 6 : Bit((a % 4) * 16 + (b \div 16), 6, k) = Bit(b, 8, k - 2)
    /\ \A k \in 1 .. 4 : Bit((b % 16) * 4 + (c \div 64), 6, k) = Bit(b, 8, k + 4)
    /\ \A k \in 5 .. 6 : Bit((b % 16) * 4 + (c \div 64), 6, k) = Bit(c, 8, k - 4)
    /\ \A k \in 1 .. 6 : Bit(c % 64, 6, k) = Bit(c, 8, k + 2)

\* The bits of the four letters are those of the three bytes.
LEMMA LetterBits ==
    ASSUME NEW a \in 0 .. 255, NEW b \in 0 .. 255, NEW c \in 0 .. 255
    PROVE  AreFrom(a, b, c)
<1> DEFINE x == a \div 4
           y == (a % 4) * 16 + (b \div 16)
           z == (b % 16) * 4 + (c \div 64)
           u == c % 64
<1>1. ASSUME NEW k \in 1 .. 6 PROVE Bit(x, 6, k) = Bit(a, 8, k)
  <2>1. /\ (x \div 32) % 2 = (a \div 128) % 2 /\ (x \div 16) % 2 = (a \div 64) % 2
        /\ (x \div 8) % 2 = (a \div 32) % 2 /\ (x \div 4) % 2 = (a \div 16) % 2
        /\ (x \div 2) % 2 = (a \div 8) % 2 /\ (x \div 1) % 2 = (a \div 4) % 2
    BY Z3T(30)
  <2>2. k = 1 \/ k = 2 \/ k = 3 \/ k = 4 \/ k = 5 \/ k = 6
    OBVIOUS
  <2>3. SixOf(x) /\ EightOf(a)
    BY SixBits, EightBits
  <2> HIDE DEF x
  <2> QED
    BY <2>1, <2>2, <2>3 DEF SixOf, EightOf
<1>2. ASSUME NEW k \in 1 .. 2 PROVE Bit(y, 6, k) = Bit(a, 8, k + 6)
  <2>1. (y \div 32) % 2 = (a \div 2) % 2 /\ (y \div 16) % 2 = (a \div 1) % 2
    OBVIOUS
  <2>2. (k = 1 /\ k + 6 = 7) \/ (k = 2 /\ k + 6 = 8)
    OBVIOUS
  <2>3. SixOf(y) /\ EightOf(a)
    BY SixBits, EightBits
  <2> HIDE DEF y
  <2> QED
    BY <2>1, <2>2, <2>3 DEF SixOf, EightOf
<1>3. ASSUME NEW k \in 3 .. 6 PROVE Bit(y, 6, k) = Bit(b, 8, k - 2)
  <2>1. /\ (y \div 8) % 2 = (b \div 128) % 2 /\ (y \div 4) % 2 = (b \div 64) % 2
        /\ (y \div 2) % 2 = (b \div 32) % 2 /\ (y \div 1) % 2 = (b \div 16) % 2
    OBVIOUS
  <2>2. (k = 3 /\ k - 2 = 1) \/ (k = 4 /\ k - 2 = 2) \/ (k = 5 /\ k - 2 = 3) \/ (k = 6 /\ k - 2 = 4)
    OBVIOUS
  <2>3. SixOf(y) /\ EightOf(b)
    BY SixBits, EightBits
  <2> HIDE DEF y
  <2> QED
    BY <2>1, <2>2, <2>3 DEF SixOf, EightOf
<1>4. ASSUME NEW k \in 1 .. 4 PROVE Bit(z, 6, k) = Bit(b, 8, k + 4)
  <2>1. /\ (z \div 32) % 2 = (b \div 8) % 2 /\ (z \div 16) % 2 = (b \div 4) % 2
        /\ (z \div 8) % 2 = (b \div 2) % 2 /\ (z \div 4) % 2 = (b \div 1) % 2
    <3>1. c \div 64 \in 0 .. 3 /\ b % 16 \in 0 .. 15
      OBVIOUS
    <3>2. \A d \in 0 .. 15, e \in 0 .. 3 :
            /\ (d * 4 + e) \div 32 = d \div 8 /\ (d * 4 + e) \div 16 = d \div 4
            /\ (d * 4 + e) \div 8 = d \div 2 /\ (d * 4 + e) \div 4 = d \div 1
      OBVIOUS
    <3>3. z \div 32 = (b % 16) \div 8 /\ z \div 16 = (b % 16) \div 4 /\ z \div 8 = (b % 16) \div 2
          /\ z \div 4 = (b % 16) \div 1
      BY <3>1, <3>2, Zenon
    <3>4. /\ ((b % 16) \div 8) % 2 = (b \div 8) % 2 /\ ((b % 16) \div 4) % 2 = (b \div 4) % 2
          /\ ((b % 16) \div 2) % 2 = (b \div 2) % 2 /\ ((b % 16) \div 1) % 2 = (b \div 1) % 2
      OBVIOUS
    <3> HIDE DEF z
    <3> QED
      BY <3>3, <3>4, Zenon
  <2>2. (k = 1 /\ k + 4 = 5) \/ (k = 2 /\ k + 4 = 6) \/ (k = 3 /\ k + 4 = 7) \/ (k = 4 /\ k + 4 = 8)
    OBVIOUS
  <2>3. SixOf(z) /\ EightOf(b)
    BY SixBits, EightBits
  <2> HIDE DEF z
  <2> QED
    BY <2>1, <2>2, <2>3 DEF SixOf, EightOf
<1>5. ASSUME NEW k \in 5 .. 6 PROVE Bit(z, 6, k) = Bit(c, 8, k - 4)
  <2>1. (z \div 2) % 2 = (c \div 128) % 2 /\ (z \div 1) % 2 = (c \div 64) % 2
    OBVIOUS
  <2>2. (k = 5 /\ k - 4 = 1) \/ (k = 6 /\ k - 4 = 2)
    OBVIOUS
  <2>3. SixOf(z) /\ EightOf(c)
    BY SixBits, EightBits
  <2> HIDE DEF z
  <2> QED
    BY <2>1, <2>2, <2>3 DEF SixOf, EightOf
<1>6. ASSUME NEW k \in 1 .. 6 PROVE Bit(u, 6, k) = Bit(c, 8, k + 2)
  <2>1. /\ (u \div 32) % 2 = (c \div 32) % 2 /\ (u \div 16) % 2 = (c \div 16) % 2
        /\ (u \div 8) % 2 = (c \div 8) % 2 /\ (u \div 4) % 2 = (c \div 4) % 2
        /\ (u \div 2) % 2 = (c \div 2) % 2 /\ (u \div 1) % 2 = (c \div 1) % 2
    OBVIOUS
  <2>2. \/ (k = 1 /\ k + 2 = 3) \/ (k = 2 /\ k + 2 = 4) \/ (k = 3 /\ k + 2 = 5)
        \/ (k = 4 /\ k + 2 = 6) \/ (k = 5 /\ k + 2 = 7) \/ (k = 6 /\ k + 2 = 8)
    OBVIOUS
  <2>3. SixOf(u) /\ EightOf(c)
    BY SixBits, EightBits
  <2> HIDE DEF u
  <2> QED
    BY <2>1, <2>2, <2>3 DEF SixOf, EightOf
<1> QED
    BY <1>1, <1>2, <1>3, <1>4, <1>5, <1>6, Zenon DEF AreFrom

\* The twenty-four bits of a group.
SameBits(a, b, c, j) ==
    Bit(Triplet(a, b, c)[((j - 1) \div 6) + 1], 6, ((j - 1) % 6) + 1) =
    Bit(<<a, b, c>>[((j - 1) \div 8) + 1], 8, ((j - 1) % 8) + 1)

\* ... one by one.
LEMMA GroupBits ==
    ASSUME NEW a \in 0 .. 255, NEW b \in 0 .. 255, NEW c \in 0 .. 255, NEW j \in 1 .. 24
    PROVE  SameBits(a, b, c, j)
<1> DEFINE x == a \div 4
           y == (a % 4) * 16 + (b \div 16)
           z == (b % 16) * 4 + (c \div 64)
           u == c % 64
           l == ((j - 1) \div 6) + 1
           k == ((j - 1) % 6) + 1
           m == ((j - 1) \div 8) + 1
           n == ((j - 1) % 8) + 1
<1>1. /\ \A i \in 1 .. 6 : Bit(x, 6, i) = Bit(a, 8, i)
      /\ \A i \in 1 .. 2 : Bit(y, 6, i) = Bit(a, 8, i + 6)
      /\ \A i \in 3 .. 6 : Bit(y, 6, i) = Bit(b, 8, i - 2)
      /\ \A i \in 1 .. 4 : Bit(z, 6, i) = Bit(b, 8, i + 4)
      /\ \A i \in 5 .. 6 : Bit(z, 6, i) = Bit(c, 8, i - 4)
      /\ \A i \in 1 .. 6 : Bit(u, 6, i) = Bit(c, 8, i + 2)
  <2>1. AreFrom(a, b, c)
    BY LetterBits
  <2> QED
    BY <2>1, Zenon DEF AreFrom
<1>2. Triplet(a, b, c) = <<x, y, z, u>>
    BY DEF Triplet
<1>3. \/ l = 1 /\ m = 1 /\ k \in 1 .. 6 /\ n = k
      \/ l = 2 /\ m = 1 /\ k \in 1 .. 2 /\ n = k + 6
      \/ l = 2 /\ m = 2 /\ k \in 3 .. 6 /\ n = k - 2
      \/ l = 3 /\ m = 2 /\ k \in 1 .. 4 /\ n = k + 4
      \/ l = 3 /\ m = 3 /\ k \in 5 .. 6 /\ n = k - 4
      \/ l = 4 /\ m = 3 /\ k \in 1 .. 6 /\ n = k + 2
    OBVIOUS
<1> HIDE DEF x, y, z, u, l, k, m, n
<1>4. Triplet(a, b, c)[1] = x /\ Triplet(a, b, c)[2] = y /\ Triplet(a, b, c)[3] = z /\ Triplet(a, b, c)[4] = u
    BY <1>2
<1>5. <<a, b, c>>[1] = a /\ <<a, b, c>>[2] = b /\ <<a, b, c>>[3] = c
    OBVIOUS
<1>6. Bit(Triplet(a, b, c)[l], 6, k) = Bit(<<a, b, c>>[m], 8, n)
    BY <1>1, <1>3, <1>4, <1>5, Z3T(30)
<1> QED
    BY <1>6 DEF l, k, m, n, SameBits

\* Zero has no bits.
LEMMA NoBits ==
    ASSUME NEW n \in 1 .. 8
    PROVE  Bit(0, 8, n) = 0
<1>1. (0 \div 128) % 2 = 0 /\ (0 \div 64) % 2 = 0 /\ (0 \div 32) % 2 = 0 /\ (0 \div 16) % 2 = 0
      /\ (0 \div 8) % 2 = 0 /\ (0 \div 4) % 2 = 0 /\ (0 \div 2) % 2 = 0 /\ (0 \div 1) % 2 = 0
    OBVIOUS
<1>2. n = 1 \/ n = 2 \/ n = 3 \/ n = 4 \/ n = 5 \/ n = 6 \/ n = 7 \/ n = 8
    OBVIOUS
<1>3. EightOf(0)
    BY EightBits
<1> QED
    BY <1>1, <1>2, <1>3 DEF EightOf

\* There is only one base64 of a source.
LEMMA OnlyOne ==
    ASSUME NEW s, NEW t, NEW source, Len(source) \in Nat, IsBase64Of(s, source), IsBase64Of(t, source)
    PROVE  s = t
<1> DEFINE q == (Len(source) + 2) \div 3
           A == 0 .. 63 \cup {Pad}
           X(i, k) == IF k <= Len(source) - 3 * (i - 1) + 1 THEN Quad(source, i)[k] ELSE Pad
<1>1. /\ s \in Seq(A) /\ Len(s) = 4 * q /\ t \in Seq(A) /\ Len(t) = 4 * q
      /\ \A i \in 1 .. q, k \in 1 .. 4 : s[4 * (i - 1) + k] = X(i, k) /\ t[4 * (i - 1) + k] = X(i, k)
    BY Zenon DEF IsBase64Of
<1>2. q \in Nat
    OBVIOUS
<1> HIDE DEF q, A, X
<1>3. ASSUME NEW p \in 1 .. 4 * q PROVE s[p] = t[p]
  <2>1. PICK i \in 1 .. q, k \in 1 .. 4 : p = 4 * (i - 1) + k
    BY <1>2, InFours
  <2> QED
    BY <1>1, <2>1
<1>4. AreSame(s, t)
    BY <1>1, <1>3 DEF AreSame
<1> QED
    BY <1>1, <1>4, SameSeq

\* base64, letter by letter, has the bits of its source, cut into sixes.
LEMMA HasItsBits ==
    ASSUME NEW bytes \in Seq(0 .. 255), NEW txt, IsBase64Of(txt, bytes), PadIsNoLetter
    PROVE  IsEncodingOf(txt, bytes)
<1> DEFINE n == Len(bytes)
           q == (n + 2) \div 3
           letters == q + n
<1>1. n \in Nat /\ q \in Nat /\ n \in 3 * q - 2 .. 3 * q /\ (n # 0 => q # 0)
  <2>1. n \in Nat
    OBVIOUS
  <2> HIDE DEF n
  <2> QED
    BY <2>1, Groups
<1>2. /\ Len(txt) = 4 * q
      /\ \A i \in 1 .. q, k \in 1 .. 4 :
            txt[4 * (i - 1) + k] = IF k <= n - 3 * (i - 1) + 1 THEN Quad(bytes, i)[k] ELSE Pad
    BY Zenon DEF IsBase64Of
<1> HIDE DEF n, q
<1>3. /\ letters \in 0 .. Len(txt) /\ Len(txt) % 4 = 0 /\ Len(txt) - letters <= 2
      /\ 6 * letters \in 8 * n .. 8 * n + 5
    BY <1>1, <1>2
<1>4. ASSUME NEW i \in 1 .. q, NEW k \in 1 .. 4
      PROVE  k <= n - 3 * (i - 1) + 1 <=> 4 * (i - 1) + k <= letters
    BY <1>1
<1>5. ASSUME NEW p \in 1 .. Len(txt)
      PROVE  IF p <= letters THEN txt[p] \in 0 .. 63 ELSE txt[p] = Pad
  <2>1. p \in 1 .. 4 * q /\ q \in Nat
    BY <1>1, <1>2
  <2>2. PICK i \in 1 .. q, k \in 1 .. 4 : p = 4 * (i - 1) + k
    BY <2>1, InFours
  <2>3. i \in Nat \ {0} /\ Quad(bytes, i)[k] \in 0 .. 63
    <3>1. i \in Nat \ {0}
      BY <1>1
    <3> QED
      BY <3>1, QuadLetters
  <2>4. txt[p] = IF p <= letters THEN Quad(bytes, i)[k] ELSE Pad
    BY <1>2, <1>4, <2>2
  <2> HIDE DEF letters
  <2> QED
    BY <2>3, <2>4
<1>6. ASSUME NEW p \in 1 .. 6 * letters
      PROVE  BitAt(txt, 6, p) = IF p <= 8 * n THEN BitAt(bytes, 8, p) ELSE 0
  <2>1. p \in 1 .. 24 * q /\ q \in Nat
    BY <1>1, <1>2, <1>3
  <2>2. PICK i \in 1 .. q, j \in 1 .. 24 :
            /\ p = 24 * (i - 1) + j
            /\ ((p - 1) \div 6) + 1 = 4 * (i - 1) + ((j - 1) \div 6) + 1
            /\ (p - 1) % 6 = (j - 1) % 6
            /\ ((p - 1) \div 8) + 1 = 3 * (i - 1) + ((j - 1) \div 8) + 1
            /\ (p - 1) % 8 = (j - 1) % 8
    BY <2>1, InGroups, Zenon
  <2> DEFINE l == ((j - 1) \div 6) + 1
             k == ((j - 1) % 6) + 1
             m == ((j - 1) \div 8) + 1
             d == ((j - 1) % 8) + 1
  <2>3. /\ l \in 1 .. 4 /\ m \in 1 .. 3 /\ d \in 1 .. 8
        /\ j <= 6 * l /\ 6 * l <= j + 5 /\ j <= 8 * m /\ 8 * m <= j + 7
    OBVIOUS
  <2>4. /\ ((p - 1) \div 6) + 1 = 4 * (i - 1) + l /\ ((p - 1) % 6) + 1 = k
        /\ ((p - 1) \div 8) + 1 = 3 * (i - 1) + m /\ ((p - 1) % 8) + 1 = d
    BY <2>2
  <2>5. /\ BitAt(txt, 6, p) = Bit(txt[4 * (i - 1) + l], 6, k)
        /\ BitAt(bytes, 8, p) = Bit(bytes[3 * (i - 1) + m], 8, d)
    BY <2>4, Zenon DEF BitAt
  <2>6. Bit(Triplet(Padded(bytes, 3 * (i - 1) + 1), Padded(bytes, 3 * (i - 1) + 2), Padded(bytes, 3 * (i - 1) + 3))[l], 6, k)
        = Bit(<<Padded(bytes, 3 * (i - 1) + 1), Padded(bytes, 3 * (i - 1) + 2), Padded(bytes, 3 * (i - 1) + 3)>>[m], 8, d)
    <3> DEFINE a == Padded(bytes, 3 * (i - 1) + 1)
               b == Padded(bytes, 3 * (i - 1) + 2)
               c == Padded(bytes, 3 * (i - 1) + 3)
    <3>1. a \in 0 .. 255 /\ b \in 0 .. 255 /\ c \in 0 .. 255
      <4>1. 3 * (i - 1) + 1 \in Nat \ {0} /\ 3 * (i - 1) + 2 \in Nat \ {0} /\ 3 * (i - 1) + 3 \in Nat \ {0}
        BY <1>1
      <4> QED
        BY <4>1, PaddedIsByte
    <3> HIDE DEF a, b, c
    <3>2. SameBits(a, b, c, j)
      BY <3>1, GroupBits
    <3> QED
      BY <3>2, Zenon DEF SameBits, a, b, c
  <2> HIDE DEF l, k, m, d
  <2>7. <<Padded(bytes, 3 * (i - 1) + 1), Padded(bytes, 3 * (i - 1) + 2), Padded(bytes, 3 * (i - 1) + 3)>>[m]
        = Padded(bytes, 3 * (i - 1) + m)
    <3>1. m = 1 \/ m = 2 \/ m = 3
      BY <2>3
    <3> QED
      BY <3>1
  <2>8. 4 * (i - 1) + l <= letters
    BY <1>1, <2>2, <2>3
  <2>9. txt[4 * (i - 1) + l] = Quad(bytes, i)[l]
    BY <1>2, <1>4, <2>3, <2>8
  <2>10. BitAt(txt, 6, p) = Bit(Padded(bytes, 3 * (i - 1) + m), 8, d)
    BY <2>5, <2>6, <2>7, <2>9, Zenon DEF Quad
  <2>11. p <= 8 * n <=> 3 * (i - 1) + m <= n
    BY <1>1, <2>2, <2>3
  <2>12. CASE p <= 8 * n
    BY <2>5, <2>10, <2>11, <2>12 DEF Padded, n
  <2>13. CASE ~(p <= 8 * n)
    <3>1. Padded(bytes, 3 * (i - 1) + m) = 0
      BY <2>11, <2>13 DEF Padded, n
    <3> QED
      BY <2>3, <2>10, <2>13, <3>1, NoBits
  <2> QED
    BY <2>12, <2>13
<1> HIDE DEF letters
<1>7. /\ letters \in 0 .. Len(txt)
      /\ Len(txt) % 4 = 0 /\ Len(txt) - letters <= 2
      /\ \A p \in 1 .. Len(txt) : IF p <= letters THEN txt[p] \in 0 .. 63 ELSE txt[p] = Pad
      /\ 6 * letters \in 8 * Len(bytes) .. 8 * Len(bytes) + 5
      /\ \A p \in 1 .. 6 * letters :
            BitAt(txt, 6, p) = IF p <= 8 * Len(bytes) THEN BitAt(bytes, 8, p) ELSE 0
    BY <1>3, <1>5, <1>6, Zenon DEF n
<1> QED
    BY <1>7, Zenon DEF IsEncodingOf

\* What has come of a call is what its algorithm returns.
Outcome ==
    result # NotYet =>
        /\ Called("encode") => result = base64_encode(call[2])
        /\ Called("decode") => result = base64_decode(call[2])
        /\ Called("command") => result = read_things(Joined(call[3]), MaxFields)
        /\ Called("start") => result = Localizator(call[2], call[3], call[4])
        /\ Called("parse") => result = parse_socket_address(call[2])
        /\ Called("stringify") => result = stringify_socket_address(call[2])
        /\ Called("form") => result = split_html_query(Submitted(call[2]))
        /\ Called("cookies") =>
            result = select_login_cookies(findAllClientCookies(<<CookieHeader(Kept(call[2]))>>))

CallInv == Given /\ Outcome

\* What the arguments of a call are.
LEMMA Asked ==
    ASSUME Given
    PROVE  /\ Called("encode") => call[2] \in Sources
           /\ Called("decode") => call[2] \in Encodings
           /\ Called("command") =>
                /\ call[2] \in BoundedSeq(Words, MaxFields) /\ EmptyOnesLast(call[2])
                /\ call[3] \in Written(call[2])
           /\ Called("start") => call[2] \in Directories /\ call[3] \in Whitelists /\ call[4] \in Orders
           /\ Called("parse") => call[2] \in AddressTexts
           /\ Called("stringify") => call[2] \in Addresses
           /\ Called("form") => call[2] \in Forms
           /\ Called("cookies") => call[2] \in Jars
    BY DEF Given, Called

\* The invariant of the calls: they are called with what they may be
\* called with, and return what they compute.
LEMMA CallInvHolds == CallSpec => []CallInv
<1>1. CallInit => CallInv
    BY Zenon DEF CallInit, CallInv, Outcome
<1>2. CallInv /\ [CallNext]_callVars => CallInv'
  <2> SUFFICES ASSUME CallInv, [CallNext]_callVars PROVE CallInv'
    OBVIOUS
  <2>1. call' = call
    BY Zenon DEF CallNext, callVars, Encode, Decode, ReadCommand, StartLocalizator, ParseAddress, StringifyAddress,
        ReadForm, ReadCookieHeader, RenderPage, Returned, Return
  <2>2. Given'
    BY <2>1, Zenon DEF CallInv, Given
  <2>3. Outcome'
    <3>1. CASE UNCHANGED callVars
      BY <3>1, Zenon DEF CallInv, Outcome, Called, callVars
    <3>3. CASE Encode
      BY <2>1, <3>3 DEF Encode, Return, Outcome, Called
    <3>4. CASE Decode
      BY <2>1, <3>4 DEF Decode, Return, Outcome, Called
    <3>5. CASE ReadCommand
      BY <2>1, <3>5 DEF ReadCommand, Return, Outcome, Called
    <3>6. CASE StartLocalizator
      BY <2>1, <3>6 DEF StartLocalizator, Return, Outcome, Called
    <3>7. CASE ParseAddress
      BY <2>1, <3>7 DEF ParseAddress, Return, Outcome, Called
    <3>8. CASE StringifyAddress
      BY <2>1, <3>8 DEF StringifyAddress, Return, Outcome, Called
    <3>9. CASE ReadForm
      BY <2>1, <3>9 DEF ReadForm, Return, Outcome, Called
    <3>10. CASE ReadCookieHeader
      BY <2>1, <3>10 DEF ReadCookieHeader, Return, Outcome, Called
    <3>11. CASE RenderPage
      BY <2>1, <3>11 DEF RenderPage, Return, Outcome, Called
    <3> QED
      BY <3>1, <3>3, <3>4, <3>5, <3>6, <3>7, <3>8, <3>9, <3>10, <3>11 DEF CallNext, Returned
  <2> QED
    BY <2>2, <2>3 DEF CallInv
<1> QED
    BY <1>1, <1>2, PTL DEF CallSpec

\* base64: what is encoded can be had back, and what is accepted stands for
\* nothing else.
THEOREM Base64IsExactHolds == CallSpec => []Base64IsExact
<1>1. CallInv => Base64IsExact
  <2> SUFFICES ASSUME CallInv PROVE Base64IsExact
    OBVIOUS
  <2>1. PadIsNoLetter /\ Sources \subseteq Seq(0 .. 255) /\ \A txt \in Encodings : IsText(txt)
    BY Base64Assumption DEF PadIsNoLetter
  <2>2. ASSUME Called("encode"), result # NotYet
        PROVE  IsEncodingOf(result, call[2]) /\ base64_decode(result) = call[2]
    <3>1. call[2] \in Seq(0 .. 255)
      BY <2>1, <2>2, Asked, Zenon DEF CallInv
    <3>2. result = base64_encode(call[2])
      BY <2>2, Zenon DEF CallInv, Outcome
    <3>3. IsBase64Of(result, call[2])
      BY <3>1, <3>2, Encoded
    <3> QED
      BY <2>1, <3>1, <3>3, HasItsBits, DecodedBack
  <2>3. ASSUME Called("decode"), result \notin {NotYet, Error}
        PROVE  IsEncodingOf(call[2], result) /\ base64_encode(result) = call[2]
    <3>1. IsText(call[2])
      BY <2>1, <2>3, Asked, Zenon DEF CallInv
    <3>2. result = base64_decode(call[2]) /\ result # Error
      BY <2>3, Zenon DEF CallInv, Outcome
    <3>3. result \in Seq(0 .. 255) /\ IsBase64Of(call[2], result)
      BY <2>1, <3>1, <3>2, Accepted
    <3>4. IsEncodingOf(call[2], result)
      BY <2>1, <3>3, HasItsBits
    <3>5. IsBase64Of(base64_encode(result), result) /\ Len(result) \in Nat
      BY <3>3, Encoded
    <3>6. base64_encode(result) = call[2]
      BY <3>3, <3>5, OnlyOne
    <3> QED
      BY <3>4, <3>6
  <2> QED
    BY <2>2, <2>3, Zenon DEF Base64IsExact
<1> QED
    BY <1>1, CallInvHolds, PTL

-----------------------------------------------------------------------------
(* Translations *)

\* A prefix of a range is the beginning of it.
LEMMA PrefixIs ==
    ASSUME NEW A, NEW B, NEW s \in Seq(A), NEW t \in Seq(B)
    PROVE  s \in languageRangeGetPrefixes(t) <=> IsPrefix(s, t)
<1>1. Len(s) \in Nat /\ Len(t) \in Nat /\ SubSeq(s, 1, Len(s)) = s
  <2>1. Len(s) \in Nat /\ Len(t) \in Nat
    OBVIOUS
  <2>2. Len(s) - 1 + 1 = Len(s) /\ Len(s) <= Len(s) /\ 1 <= Len(s) + 1
    BY <2>1
  <2>3. SubSeq(s, 1, Len(s)) \in Seq(A) /\ IsPart(SubSeq(s, 1, Len(s)), s, 1, Len(s))
    <3>1. 1 \in Nat \ {0}
      OBVIOUS
    <3> QED
      BY <2>1, <2>2, <3>1, Part
  <2>4. AreSame(SubSeq(s, 1, Len(s)), s)
    <3>1. \A k \in 1 .. Len(s) : 1 + k - 1 = k
      BY <2>1
    <3> QED
      BY <2>2, <2>3, <3>1 DEF AreSame, IsPart
  <2> QED
    BY <2>1, <2>3, <2>4, SameSeq
<1>2. ASSUME NEW n \in 0 .. Len(t) PROVE Len(SubSeq(t, 1, n)) = n
  <2>1. n \in Nat /\ n <= Len(t) /\ 1 <= n + 1 /\ 1 \in Nat \ {0} /\ n - 1 + 1 = n
    BY <1>1
  <2>2. IsPart(SubSeq(t, 1, n), t, 1, n)
    BY <2>1, Part
  <2> QED
    BY <2>1, <2>2 DEF IsPart
<1>3. ASSUME s \in languageRangeGetPrefixes(t) PROVE IsPrefix(s, t)
  <2>1. PICK n \in 0 .. Len(t) : s = SubSeq(t, 1, n)
    BY <1>3 DEF languageRangeGetPrefixes
  <2>2. Len(s) = n /\ n <= Len(t)
    BY <1>1, <1>2, <2>1
  <2> QED
    BY <1>1, <2>1, <2>2 DEF IsPrefix
<1>4. ASSUME IsPrefix(s, t) PROVE s \in languageRangeGetPrefixes(t)
  <2>1. Len(s) \in 0 .. Len(t) /\ s = SubSeq(t, 1, Len(s))
    BY <1>1, <1>4 DEF IsPrefix
  <2> QED
    BY <2>1, Zenon DEF languageRangeGetPrefixes
<1> QED
    BY <1>3, <1>4

\* Prefixes of one range that are as long as each other are equal.
LEMMA SamePrefix ==
    ASSUME NEW A, NEW B, NEW C, NEW s \in Seq(A), NEW u \in Seq(C), NEW t \in Seq(B), Len(s) = Len(u),
           IsPrefix(s, t), IsPrefix(u, t)
    PROVE  s = u
<1>1. PICK n \in 0 .. Len(t) : s = SubSeq(t, 1, n)
    BY PrefixIs DEF languageRangeGetPrefixes
<1>2. PICK m \in 0 .. Len(t) : u = SubSeq(t, 1, m)
    BY PrefixIs DEF languageRangeGetPrefixes
<1>3. ASSUME NEW k \in 0 .. Len(t) PROVE Len(SubSeq(t, 1, k)) = k
  <2>1. k \in Nat /\ k <= Len(t) /\ 1 <= k + 1 /\ 1 \in Nat \ {0} /\ k - 1 + 1 = k
    OBVIOUS
  <2>2. IsPart(SubSeq(t, 1, k), t, 1, k)
    BY <2>1, Part
  <2> QED
    BY <2>1, <2>2 DEF IsPart
<1>4. m = n
    BY <1>1, <1>2, <1>3
<1> QED
    BY <1>1, <1>2, <1>4

\* The files that are read are language ranges.
LEMMA Collected ==
    ASSUME NEW R, NEW dir \in Seq(R), NEW list
    PROVE  collect_lang_dir_content(dir, list) \in Seq(R)
<1> DEFINE N == Len(dir)
           A == Seq(R)
           E(n) == IF isInWhitelist(dir[n], list) THEN <<dir[n]>> ELSE <<>>
           Step == [x \in A \X (1 .. N) |-> x[1] \o E(x[2])]
           Is(f) == f = [n \in 0 .. N |-> IF n = 0 THEN <<>> ELSE f[n - 1] \o E(n)]
           course == CHOOSE f : Is(f)
<1>1. N \in Nat /\ <<>> \in A
    OBVIOUS
<1>2. ASSUME NEW n \in 1 .. N, NEW b \in A PROVE b \o E(n) \in A
  <2>1. dir[n] \in R
    BY Elements
  <2>2. <<dir[n]>> \in Seq(R) /\ <<>> \in Seq(R)
    BY <2>1
  <2>3. E(n) \in Seq(R)
    BY <2>2, Zenon
  <2> HIDE DEF E
  <2> QED
    BY <2>3, Cat
<1> HIDE DEF A, E, N
<1>3. Step \in [A \X (1 .. N) -> A] /\ \A b \in A, n \in 1 .. N : Step[<<b, n>>] = b \o E(n)
    BY <1>2
<1> HIDE DEF Step
<1>4. PICK h : h \in Courses(A, N, <<>>, Step)
  <2>1. Courses(A, N, <<>>, Step) # {}
    BY <1>1, <1>3, Recursion
  <2> QED
    BY <2>1
<1>5. Is(h)
  <2>1. h \in [0 .. N -> A] /\ h[0] = <<>> /\ \A n \in 1 .. N : h[n] = Step[<<h[n - 1], n>>]
    BY <1>4 DEF Courses
  <2>2. ASSUME NEW n \in 1 .. N PROVE h[n] = h[n - 1] \o E(n)
    <3>1. h[n - 1] \in A
      BY <1>1, <2>1
    <3> QED
      BY <1>3, <2>1, <3>1
  <2>3. \A n \in 0 .. N : h[n] = IF n = 0 THEN <<>> ELSE h[n - 1] \o E(n)
    BY <1>1, <2>1, <2>2, Z3T(30)
  <2> QED
    BY <2>1, <2>3
<1> HIDE DEF Is
<1>6. Is(course)
    BY <1>5
<1> HIDE DEF course
<1>7. course[0] = <<>> /\ \A n \in 1 .. N : course[n] = course[n - 1] \o E(n)
    BY <1>1, <1>6 DEF Is
<1> DEFINE S == {n \in 0 .. N : course[n] \in A}
<1>8. ASSUME NEW n \in 0 .. N - 1, n \in S PROVE n + 1 \in S
  <2>1. n + 1 \in 1 .. N /\ (n + 1) - 1 = n /\ course[n] \in A
    BY <1>1, <1>8
  <2>2. course[n + 1] = course[n] \o E(n + 1)
    BY <1>7, <2>1
  <2>3. course[n] \o E(n + 1) \in A
    BY <1>2, <2>1
  <2>4. course[n + 1] \in A
    BY <2>2, <2>3
  <2>5. n + 1 \in 0 .. N
    BY <1>1, <2>1
  <2> HIDE DEF Step
  <2> QED
    BY <2>4, <2>5, Zenon
<1>9. 0 \in S
    BY <1>1, <1>7
<1> HIDE DEF S
<1>10. N \in S
  <2>1. \A n \in 0 .. N - 1 : n \in S => n + 1 \in S
    BY <1>8
  <2>2. \A n \in 0 .. N : n \in S
    BY <1>1, <1>9, <2>1, InductiveTo
  <2> QED
    BY <1>1, <2>2
<1>11. collect_lang_dir_content(dir, list) = course[N]
    BY Zenon DEF collect_lang_dir_content, course, Is, E, N
<1> QED
    BY <1>10, <1>11 DEF S, A

\* What the loop over force-order has found after n rounds: the longest prefix
\* of the file so far, the last one of several.
Covering(file, order, n) == {j \in 1 .. n : IsPrefix(order[j], file)}

IsLongest(found, file, order, n) ==
    \/ Covering(file, order, n) = {} /\ found = [length |-> 0, place |-> inf_bad_order]
    \/ \E j \in Covering(file, order, n) :
        /\ found = [length |-> Len(order[j]), place |-> j]
        /\ \A k \in Covering(file, order, n) :
            Len(order[k]) < Len(order[j]) \/ (Len(order[k]) = Len(order[j]) /\ k <= j)

\* One round of the loop over force-order.
LEMMA NextLongest ==
    ASSUME NEW file, NEW order, NEW n \in Nat \ {0}, \A j \in 1 .. n : Len(order[j]) \in Nat,
           NEW old, IsLongest(old, file, order, n - 1)
    PROVE  IsLongest(IF IsPrefix(order[n], file) /\ IsBetter(old, order[n])
                     THEN [length |-> Len(order[n]), place |-> n] ELSE old, file, order, n)
<1> DEFINE C == Covering(file, order, n - 1)
           D == Covering(file, order, n)
           new == [length |-> Len(order[n]), place |-> n]
<1>1. C \subseteq 1 .. n - 1 /\ C \subseteq D /\ D \subseteq 1 .. n
      /\ (IsPrefix(order[n], file) => D = C \cup {n}) /\ (~IsPrefix(order[n], file) => D = C)
  <2>1. 1 .. n = (1 .. n - 1) \cup {n}
    OBVIOUS
  <2> QED
    BY <2>1 DEF Covering
<1> HIDE DEF C, D, new
<1>2. \/ C = {} /\ old = [length |-> 0, place |-> inf_bad_order]
      \/ \E j \in C : /\ old = [length |-> Len(order[j]), place |-> j]
                      /\ \A k \in C : Len(order[k]) < Len(order[j]) \/ (Len(order[k]) = Len(order[j]) /\ k <= j)
    BY Zenon DEF IsLongest, C
<1>3. CASE ~IsPrefix(order[n], file)
  <2>1. IsLongest(old, file, order, n)
    BY <1>1, <1>2, <1>3, Zenon DEF IsLongest, D
  <2> QED
    BY <1>3, <2>1, Zenon
<1>4. CASE IsPrefix(order[n], file) /\ IsBetter(old, order[n])
  <2>1. n \in D /\ new = [length |-> Len(order[n]), place |-> n]
    BY <1>1, <1>4 DEF new
  <2>2. ASSUME NEW k \in D PROVE Len(order[k]) < Len(order[n]) \/ (Len(order[k]) = Len(order[n]) /\ k <= n)
    <3>1. k \in 1 .. n /\ Len(order[k]) \in Nat /\ Len(order[n]) \in Nat
      BY <1>1
    <3>2. CASE k = n
      BY <3>1, <3>2
    <3>3. CASE k # n
      <4>1. k \in C
        BY <1>1, <1>4, <3>3
      <4>2. PICK j \in C : /\ old = [length |-> Len(order[j]), place |-> j]
                           /\ \A l \in C : Len(order[l]) < Len(order[j]) \/ (Len(order[l]) = Len(order[j]) /\ l <= j)
        BY <1>2, <4>1
      <4>3. Len(order[k]) <= Len(order[j]) /\ old.length = Len(order[j]) /\ Len(order[j]) \in Nat
        <5>1. j \in 1 .. n
          BY <1>1
        <5>2. Len(order[k]) < Len(order[j]) \/ Len(order[k]) = Len(order[j])
          BY <4>1, <4>2, Zenon
        <5>3. old.length = Len(order[j])
          BY <4>2
        <5> QED
          BY <3>1, <5>1, <5>2, <5>3
      <4>4. Len(order[j]) <= Len(order[n])
        BY <1>4, <4>3 DEF IsBetter
      <4> QED
        BY <3>1, <4>3, <4>4
    <3> QED
      BY <3>2, <3>3
  <2>3. IsLongest(new, file, order, n)
    BY <2>1, <2>2, Zenon DEF IsLongest, D
  <2> QED
    BY <1>4, <2>3, Zenon DEF new
<1>5. CASE IsPrefix(order[n], file) /\ ~IsBetter(old, order[n])
  <2>0. Len(order[n]) \in Nat
    OBVIOUS
  <2>1. PICK j \in C : /\ old = [length |-> Len(order[j]), place |-> j]
                       /\ \A k \in C : Len(order[k]) < Len(order[j]) \/ (Len(order[k]) = Len(order[j]) /\ k <= j)
    <3>1. CASE C = {} /\ old = [length |-> 0, place |-> inf_bad_order]
      <4>1. old.length = 0
        BY <3>1
      <4> QED
        BY <1>5, <2>0, <4>1 DEF IsBetter
    <3> QED
      BY <1>2, <3>1, Zenon
  <2>2. j \in D /\ Len(order[n]) < Len(order[j])
    <3>1. old.length = Len(order[j]) /\ j \in 1 .. n
      BY <1>1, <2>1
    <3>2. Len(order[j]) \in Nat
      BY <3>1
    <3> QED
      BY <1>1, <1>5, <2>0, <3>1, <3>2 DEF IsBetter
  <2>3. ASSUME NEW k \in D PROVE Len(order[k]) < Len(order[j]) \/ (Len(order[k]) = Len(order[j]) /\ k <= j)
    <3>1. k \in C \/ k = n
      BY <1>1, <1>5
    <3> QED
      BY <2>1, <2>2, <3>1, Zenon
  <2>4. IsLongest(old, file, order, n)
    BY <2>1, <2>2, <2>3, Zenon DEF IsLongest, D
  <2> QED
    BY <1>5, <2>4, Zenon
<1> QED
    BY <1>3, <1>4, <1>5

\* A file's place is that of the most special entry of force-order.
LEMMA LongestIsPlace ==
    ASSUME NEW file, IsText(file), NEW order, Len(order) \in Nat, \A j \in 1 .. Len(order) : IsText(order[j]),
           NEW found, IsLongest(found, file, order, Len(order))
    PROVE  found.place = Place(file, order) /\ found.place \in Nat
<1> DEFINE N == Len(order)
           C == {i \in 1 .. N : IsPrefix(order[i], file)}
<1>1. C = Covering(file, order, N)
    BY DEF Covering
<1> HIDE DEF C
<1>2. CASE C = {} /\ found = [length |-> 0, place |-> inf_bad_order]
  <2>1. Place(file, order) = inf_bad_order
    BY <1>2 DEF Place, C
  <2>2. found.place = inf_bad_order
    BY <1>2
  <2> QED
    BY <2>1, <2>2 DEF inf_bad_order
<1>3. CASE C # {}
  <2>1. PICK j \in C : /\ found = [length |-> Len(order[j]), place |-> j]
                       /\ \A k \in C : Len(order[k]) < Len(order[j]) \/ (Len(order[k]) = Len(order[j]) /\ k <= j)
    BY <1>1, <1>3, Zenon DEF IsLongest
  <2>2. ASSUME NEW k \in C PROVE k \in 1 .. N /\ IsPrefix(order[k], file) /\ Len(order[k]) \in Nat
    <3>1. k \in 1 .. N /\ IsPrefix(order[k], file)
      BY DEF C
    <3> QED
      BY <3>1, TextOf
  <2> DEFINE Best(i) == \A k \in C : Len(order[i]) > Len(order[k]) \/ (order[i] = order[k] /\ i >= k)
  <2>3. Best(j)
    <3> SUFFICES ASSUME NEW k \in C PROVE Len(order[j]) > Len(order[k]) \/ (order[j] = order[k] /\ j >= k)
      OBVIOUS
    <3>1. CASE Len(order[k]) < Len(order[j])
      BY <2>2, <3>1
    <3>2. CASE Len(order[k]) = Len(order[j]) /\ k <= j
      <4>1. order[j] \in Seq(Range(order[j])) /\ order[k] \in Seq(Range(order[k])) /\ file \in Seq(Range(file))
        BY <2>2, TextOf
      <4>2. order[j] = order[k]
        BY <2>2, <3>2, <4>1, SamePrefix
      <4> QED
        BY <2>2, <3>2, <4>2
    <3> QED
      BY <2>1, <3>1, <3>2, Zenon
  <2>4. ASSUME NEW i \in C, Best(i) PROVE i = j
    <3>1. i \in 1 .. N /\ j \in 1 .. N /\ Len(order[i]) \in Nat /\ Len(order[j]) \in Nat
      BY <2>2
    <3>2. Len(order[i]) > Len(order[j]) \/ (order[i] = order[j] /\ i >= j)
      BY <2>4, Zenon
    <3>3. Len(order[j]) > Len(order[i]) \/ (order[j] = order[i] /\ j >= i)
      BY <2>3, Zenon
    <3> QED
      BY <3>1, <3>2, <3>3
  <2>5. Place(file, order) = CHOOSE i \in C : Best(i)
    BY <1>3, Zenon DEF Place, C
  <2> HIDE DEF Best
  <2>6. (CHOOSE i \in C : Best(i)) = j
    BY <2>3, <2>4
  <2>7. found.place = j /\ j \in 1 .. N
    BY <2>1, <2>2
  <2> QED
    BY <2>5, <2>6, <2>7
<1> QED
    BY <1>1, <1>2, <1>3, Zenon DEF IsLongest

\* The loop finds the place: the invariant is IsLongest.
LEMMA Assigned ==
    ASSUME NEW file, IsText(file), NEW order, Len(order) \in Nat, \A j \in 1 .. Len(order) : IsText(order[j])
    PROVE  assignment(file, order).place = Place(file, order) /\ assignment(file, order).place \in Nat
<1> DEFINE N == Len(order)
           A == [length : Nat, place : Nat]
           base == [length |-> 0, place |-> inf_bad_order]
           Takes(b, n) == order[n] \in languageRangeGetPrefixes(file) /\ IsBetter(b, order[n])
           E(b, n) == IF Takes(b, n) THEN [length |-> Len(order[n]), place |-> n] ELSE b
           Step == [x \in A \X (1 .. N) |-> E(x[1], x[2])]
           Is(f) == f = [n \in 0 .. N |-> IF n = 0 THEN base ELSE E(f[n - 1], n)]
           course == CHOOSE f : Is(f)
<1>1. N \in Nat /\ base \in A
    BY DEF inf_bad_order
<1>2. ASSUME NEW n \in 1 .. N, NEW b \in A PROVE E(b, n) \in A
  <2>1. Len(order[n]) \in Nat /\ n \in Nat
    BY TextOf
  <2>2. [length |-> Len(order[n]), place |-> n] \in A
    BY <2>1
  <2> HIDE DEF Takes, A
  <2> QED
    BY <2>2
<1>3. ASSUME NEW n \in 1 .. N, NEW b
      PROVE  E(b, n) = IF IsPrefix(order[n], file) /\ IsBetter(b, order[n])
                       THEN [length |-> Len(order[n]), place |-> n] ELSE b
  <2>1. order[n] \in Seq(Range(order[n])) /\ file \in Seq(Range(file))
    BY TextOf
  <2>2. order[n] \in languageRangeGetPrefixes(file) <=> IsPrefix(order[n], file)
    BY <2>1, PrefixIs
  <2> QED
    BY <2>2, Zenon
<1> HIDE DEF A, E, Takes, N, base
<1>4. Step \in [A \X (1 .. N) -> A] /\ \A b \in A, n \in 1 .. N : Step[<<b, n>>] = E(b, n)
    BY <1>2
<1> HIDE DEF Step
<1>5. PICK h : h \in Courses(A, N, base, Step)
  <2>1. Courses(A, N, base, Step) # {}
    BY <1>1, <1>4, Recursion
  <2> QED
    BY <2>1
<1>6. Is(h)
  <2>1. h \in [0 .. N -> A] /\ h[0] = base /\ \A n \in 1 .. N : h[n] = Step[<<h[n - 1], n>>]
    BY <1>5 DEF Courses
  <2>2. ASSUME NEW n \in 1 .. N PROVE h[n] = E(h[n - 1], n)
    <3>1. h[n - 1] \in A
      BY <1>1, <2>1
    <3> QED
      BY <1>4, <2>1, <3>1
  <2>3. \A n \in 0 .. N : h[n] = IF n = 0 THEN base ELSE E(h[n - 1], n)
    BY <1>1, <2>1, <2>2
  <2> QED
    BY <2>1, <2>3
<1> HIDE DEF Is
<1>7. Is(course)
    BY <1>6
<1> HIDE DEF course
<1>8. course[0] = base /\ \A n \in 1 .. N : course[n] = E(course[n - 1], n)
    BY <1>1, <1>7 DEF Is
<1> DEFINE S == {n \in 0 .. N : IsLongest(course[n], file, order, n)}
<1>9. ASSUME NEW n \in 0 .. N - 1, n \in S PROVE n + 1 \in S
  <2>1. n + 1 \in 1 .. N /\ n + 1 \in 0 .. N /\ n + 1 \in Nat \ {0} /\ (n + 1) - 1 = n
    BY <1>1
  <2>2. IsLongest(course[n], file, order, (n + 1) - 1)
    BY <1>9, <2>1
  <2>3. \A j \in 1 .. n + 1 : Len(order[j]) \in Nat
    <3>1. \A j \in 1 .. n + 1 : j \in 1 .. Len(order)
      BY <1>1 DEF N
    <3> QED
      BY <3>1, TextOf
  <2> HIDE DEF S
  <2>4. IsLongest(IF IsPrefix(order[n + 1], file) /\ IsBetter(course[n], order[n + 1])
                  THEN [length |-> Len(order[n + 1]), place |-> n + 1] ELSE course[n], file, order, n + 1)
    BY <2>1, <2>2, <2>3, NextLongest
  <2>5. course[n + 1] = E(course[n], n + 1)
    BY <1>8, <2>1
  <2>6. IsLongest(course[n + 1], file, order, n + 1)
    BY <1>3, <2>1, <2>4, <2>5
  <2> QED
    BY <2>1, <2>6 DEF S
<1>10. 0 \in S
  <2>1. Covering(file, order, 0) = {}
    BY DEF Covering
  <2>2. IsLongest(base, file, order, 0)
    BY <2>1, Zenon DEF IsLongest, base
  <2> QED
    BY <1>1, <1>8, <2>2
<1> HIDE DEF S
<1>11. N \in S
  <2>1. \A n \in 0 .. N - 1 : n \in S => n + 1 \in S
    BY <1>9
  <2>2. \A n \in 0 .. N : n \in S
    BY <1>1, <1>10, <2>1, InductiveTo
  <2> QED
    BY <1>1, <2>2
<1>12. assignment(file, order) = course[N]
    BY Zenon DEF assignment, course, Is, E, Takes, N, base
<1>13. IsLongest(course[N], file, order, Len(order))
    BY <1>11 DEF S, N
<1> QED
    BY <1>12, <1>13, LongestIsPlace

\* A set of places that is not empty has a last one.
LEMMA Greatest ==
    ASSUME NEW N \in Nat, NEW T \in SUBSET (1 .. N), T # {}
    PROVE  \E x \in T : \A y \in T : y <= x
<1> DEFINE U == {N - y : y \in T}
<1>1. U \in SUBSET Nat /\ U # {}
  <2>1. \A y \in T : N - y \in Nat
    OBVIOUS
  <2>2. PICK y \in T : TRUE
    OBVIOUS
  <2>3. N - y \in U
    BY <2>2
  <2> QED
    BY <2>1, <2>3
<1>2. PICK u \in U : \A v \in U : u <= v
  <2> HIDE DEF U
  <2> QED
    BY <1>1, Least
<1>3. PICK x \in T : u = N - x
    OBVIOUS
<1>4. ASSUME NEW y \in T PROVE y <= x
  <2>1. N - x <= N - y
    BY <1>2, <1>3
  <2> QED
    BY <2>1
<1> QED
    BY <1>4

\* bestSoFar is a candidate, and none comes before it.
IsBest(best, candidates, places) ==
    /\ best \in candidates
    /\ \A l \in candidates :
        places[best].place < places[l].place \/ (places[best].place = places[l].place /\ best >= l)

\* The loop over the candidates leaves one that none of the others comes before.
LEMMA Best ==
    ASSUME NEW N \in Nat, NEW candidates \in SUBSET (1 .. N), candidates # {},
           NEW places, \A k \in 1 .. N : places[k].place \in Nat
    PROVE  IsBest(bestSoFar(candidates, places), candidates, places)
<1> DEFINE P == {places[k].place : k \in candidates}
<1>1. PICK least \in P : \A p \in P : least <= p
  <2>1. P \in SUBSET Nat /\ P # {}
    OBVIOUS
  <2> HIDE DEF P
  <2> QED
    BY <2>1, Least
<1> DEFINE T == {k \in candidates : places[k].place = least}
<1>2. T \in SUBSET (1 .. N) /\ T # {}
    BY <1>1
<1>3. PICK best \in T : \A k \in T : k <= best
  <2> HIDE DEF T
  <2> QED
    BY <1>2, Greatest
<1>4. ASSUME NEW l \in candidates
      PROVE  places[best].place < places[l].place \/ (places[best].place = places[l].place /\ best >= l)
  <2>1. places[best].place = least /\ places[l].place \in Nat /\ least \in Nat /\ best \in 1 .. N
    BY <1>1
  <2>2. least <= places[l].place
    BY <1>1
  <2>3. CASE least = places[l].place
    <3>1. l <= best
      BY <1>3, <2>3
    <3> QED
      BY <2>1, <2>3, <3>1
  <2> QED
    BY <2>1, <2>2, <2>3
<1>5. IsBest(best, candidates, places)
    BY <1>4 DEF IsBest
<1>6. bestSoFar(candidates, places) = CHOOSE k : IsBest(k, candidates, places)
    BY Zenon DEF bestSoFar, IsBest
<1> QED
    BY <1>5, <1>6

\* What the server has when it starts.
IsTable(table, files, order) ==
    \A prefix \in AllPrefixes(files) :
        /\ table[prefix] \in 1 .. Len(files) /\ prefix \in languageRangeGetPrefixes(files[table[prefix]])
        /\ \A k \in 1 .. Len(files) : prefix \in languageRangeGetPrefixes(files[k]) =>
            Place(files[table[prefix]], order) <= Place(files[k], order)

\* What a localizator that has been started has in its table: for each
\* range some file fits, the best file that fits it.
LEMMA ReadyTable ==
    ASSUME NEW R, \A range \in R : IsText(range), NEW dir \in Seq(R), NEW list, NEW order \in Seq(R),
           Localizator(dir, list, order).state = "ready"
    PROVE  LET l == Localizator(dir, list, order) IN
            /\ l.files \in Seq(R) /\ l.files # <<>> /\ ~Redundant(l.files)
            /\ DOMAIN l.prefix_to_file = AllPrefixes(l.files)
            /\ IsTable(l.prefix_to_file, l.files, order)
<1> DEFINE fs == collect_lang_dir_content(dir, list)
           bad == \/ fs = <<>>
                  \/ Redundant(fs)
                  \/ Range(order) \ AllPrefixes(fs) # {}
           places == [k \in 1 .. Len(fs) |-> assignment(fs[k], order)]
           table == [p \in AllPrefixes(fs) |-> bestSoFar(pref_to_files(fs, p), places)]
           l == Localizator(dir, list, order)
<1>1. l = [state |-> IF bad THEN "failed" ELSE "ready", files |-> fs,
           prefix_to_file |-> IF bad THEN <<>> ELSE table]
    BY Zenon DEF Localizator
<1>2. fs \in Seq(R)
    BY Collected
<1>3. \A k \in 1 .. Len(fs) : places[k] = assignment(fs[k], order)
    OBVIOUS
<1>4. \A p \in AllPrefixes(fs) : table[p] = bestSoFar(pref_to_files(fs, p), places)
    OBVIOUS
<1>5. DOMAIN table = AllPrefixes(fs)
    OBVIOUS
<1> HIDE DEF fs, places, table
<1>6. ~bad
  <2>1. l.state = IF bad THEN "failed" ELSE "ready"
    BY <1>1
  <2> HIDE DEF bad
  <2> QED
    BY <2>1
<1>7. l.files = fs /\ l.prefix_to_file = table
    BY <1>1, <1>6
<1>8. fs # <<>> /\ ~Redundant(fs)
    BY <1>6
<1> HIDE DEF bad, l
<1>9. Len(fs) \in Nat /\ \A k \in 1 .. Len(fs) : fs[k] \in R
    BY <1>2, Elements
<1>10. ASSUME NEW k \in 1 .. Len(fs)
       PROVE  places[k].place = Place(fs[k], order) /\ places[k].place \in Nat
  <2>1. IsText(fs[k])
    BY <1>9
  <2>2. Len(order) \in Nat /\ \A j \in 1 .. Len(order) : IsText(order[j])
    BY Elements
  <2>3. assignment(fs[k], order).place = Place(fs[k], order) /\ assignment(fs[k], order).place \in Nat
    BY <2>1, <2>2, Assigned
  <2> QED
    BY <1>3, <2>3
<1>11. IsTable(table, fs, order)
  <2> SUFFICES ASSUME NEW prefix \in AllPrefixes(fs)
               PROVE  /\ table[prefix] \in 1 .. Len(fs) /\ prefix \in languageRangeGetPrefixes(fs[table[prefix]])
                      /\ \A k \in 1 .. Len(fs) : prefix \in languageRangeGetPrefixes(fs[k]) =>
                            Place(fs[table[prefix]], order) <= Place(fs[k], order)
    BY Zenon DEF IsTable
  <2> DEFINE C == pref_to_files(fs, prefix)
             best == bestSoFar(C, places)
  <2>1. \A k : k \in C <=> k \in 1 .. Len(fs) /\ prefix \in languageRangeGetPrefixes(fs[k])
    BY DEF pref_to_files
  <2>2. C # {}
    BY <2>1 DEF AllPrefixes
  <2>3. table[prefix] = best
    BY <1>4, Zenon
  <2> HIDE DEF C, best
  <2>4. IsBest(best, C, places)
    <3>1. C \in SUBSET (1 .. Len(fs))
      BY <2>1
    <3> QED
      BY <1>9, <1>10, <2>2, <3>1, Best DEF best
  <2>5. best \in C
    BY <2>4 DEF IsBest
  <2>6. ASSUME NEW k \in 1 .. Len(fs), prefix \in languageRangeGetPrefixes(fs[k])
        PROVE  Place(fs[best], order) <= Place(fs[k], order)
    <3>1. k \in C
      BY <2>1, <2>6
    <3>2. places[best].place < places[k].place \/ places[best].place = places[k].place
      BY <2>4, <3>1 DEF IsBest
    <3>3. best \in 1 .. Len(fs)
      BY <2>1, <2>5
    <3> QED
      BY <1>10, <3>2, <3>3
  <2> QED
    BY <2>1, <2>3, <2>5, <2>6
<1> QED
    BY <1>2, <1>5, <1>7, <1>8, <1>11, Zenon DEF l

\* Of the files that fit a range, the server uses one that none of the others
\* comes before, and every file is used for its own name.
THEOREM OrderIsForcedHolds == CallSpec => []OrderIsForced
<1>1. CallInv => OrderIsForced
  <2> SUFFICES ASSUME CallInv, Ready, NEW range \in Ranges, NEW k \in 1 .. Len(result.files),
                      IsPrefix(range, result.files[k])
               PROVE  /\ range \in DOMAIN result.prefix_to_file
                      /\ IsPrefix(range, result.files[result.prefix_to_file[range]])
                      /\ Place(result.files[result.prefix_to_file[range]], call[4]) <= Place(result.files[k], call[4])
                      /\ result.files[k] = range => result.files[result.prefix_to_file[range]] = range
    BY Zenon DEF OrderIsForced
  <2> DEFINE files == result.files
             table == result.prefix_to_file
             used == table[range]
  <2>1. Called("start") /\ result # NotYet /\ result.state = "ready"
    BY DEF Ready
  <2>2. call[2] \in Seq(Ranges) /\ call[4] \in Seq(Ranges) /\ \A r \in Ranges : IsText(r)
    BY <2>1, Asked, LocaleAssumption DEF CallInv
  <2>3. result = Localizator(call[2], call[3], call[4])
    BY <2>1, Zenon DEF CallInv, Outcome
  <2>4. /\ files \in Seq(Ranges) /\ files # <<>> /\ ~Redundant(files)
        /\ DOMAIN table = AllPrefixes(files)
        /\ IsTable(table, files, call[4])
    BY <2>1, <2>2, <2>3, ReadyTable
  <2>5. \A i \in 1 .. Len(files) : files[i] \in Ranges /\ files[i] \in Seq(Range(files[i]))
    BY <2>2, <2>4, Elements, TextOf
  <2>6. range \in Seq(Range(range))
    BY <2>2, TextOf
  <2> HIDE DEF files, table, used
  <2>7. \A i \in 1 .. Len(files) : range \in languageRangeGetPrefixes(files[i]) <=> IsPrefix(range, files[i])
    BY <2>5, <2>6, PrefixIs
  <2>8. k \in 1 .. Len(files) /\ IsPrefix(range, files[k])
    BY DEF files
  <2>9. range \in AllPrefixes(files)
    BY <2>7, <2>8 DEF AllPrefixes
  <2>10. /\ used \in 1 .. Len(files) /\ range \in languageRangeGetPrefixes(files[used])
         /\ Place(files[used], call[4]) <= Place(files[k], call[4])
    BY <2>4, <2>7, <2>8, <2>9, Zenon DEF IsTable, used
  <2>11. ASSUME files[k] = range PROVE files[used] = range
    <3>1. CASE used = k
      BY <2>11, <3>1
    <3>2. CASE used < k
      BY <2>4, <2>8, <2>10, <2>11, <3>2 DEF Redundant
    <3>3. CASE used > k
      BY <2>4, <2>8, <2>10, <2>11, <3>3 DEF Redundant
    <3>4. used \in Nat /\ k \in Nat
      BY <2>4, <2>8, <2>10
    <3> QED
      BY <3>1, <3>2, <3>3, <3>4
  <2> QED
    BY <2>4, <2>7, <2>9, <2>10, <2>11, Zenon DEF files, table, used
<1> QED
    BY <1>1, CallInvHolds, PTL

\* One of several places, the first: Min of the community modules.
LEMMA First ==
    ASSUME NEW N \in Nat, NEW T \in SUBSET (1 .. N), T # {}
    PROVE  Min(T) \in T /\ \A y \in T : Min(T) <= y
<1>1. \E x \in T : \A y \in T : x <= y
  <2>1. T \in SUBSET Nat
    OBVIOUS
  <2> QED
    BY <2>1, Least
<1> QED
    BY <1>1 DEF Min

\* What a visitor gets is for a range they asked for, if there is a file for
\* any, and for none of less weight.
THEOREM AnswerIsAskedHolds == CallSpec => []AnswerIsAsked
<1>1. CallInv => AnswerIsAsked
  <2> SUFFICES ASSUME CallInv, Ready, NEW header \in Headers,
                      NEW langs \in parse_header_Accept_Language(header)
               PROVE  IsAsked(get_right_locale(result.prefix_to_file, langs), header)
    BY Zenon DEF AnswerIsAsked
  <2> DEFINE files == result.files
             table == result.prefix_to_file
             H == 1 .. Len(header)
             known == {i \in 1 .. Len(langs) : langs[i] \in DOMAIN table}
             served == {i \in H : \E k \in 1 .. Len(files) : IsPrefix(header[i].lr, files[k])}
             answer == get_right_locale(table, langs)
  <2>1. Called("start") /\ result # NotYet /\ result.state = "ready"
    BY DEF Ready
  <2>2. call[2] \in Seq(Ranges) /\ call[4] \in Seq(Ranges) /\ (\A r \in Ranges : IsText(r))
        /\ header \in Seq([lr : Ranges, q : Nat])
    BY <2>1, Asked, LocaleAssumption DEF CallInv
  <2>3. result = Localizator(call[2], call[3], call[4])
    BY <2>1, Zenon DEF CallInv, Outcome
  <2>4. /\ files \in Seq(Ranges) /\ DOMAIN table = AllPrefixes(files) /\ IsTable(table, files, call[4])
    BY <2>1, <2>2, <2>3, ReadyTable
  <2>5. \A i \in 1 .. Len(files) : files[i] \in Ranges /\ files[i] \in Seq(Range(files[i]))
    BY <2>2, <2>4, Elements, TextOf
  <2>6. ASSUME NEW i \in H PROVE header[i].lr \in Ranges /\ header[i].q \in Nat
    <3>1. header[i] \in [lr : Ranges, q : Nat]
      BY <2>2, Elements
    <3> QED
      BY <3>1
  <2>7. PICK p \in Bijection(H, H) :
            /\ \A i, j \in H : i < j => header[p[i]].q >= header[p[j]].q
            /\ langs = [i \in H |-> header[p[i]].lr]
    BY DEF parse_header_Accept_Language
  <2>8. /\ \A i \in H : p[i] \in H
        /\ \A j \in H : \E i \in H : p[i] = j
    BY DEF Bijection, Injection, Surjection
  <2>9. Len(header) \in Nat
    BY <2>2
  <2>10. Len(langs) = Len(header) /\ \A i \in H : langs[i] = header[p[i]].lr
    <3>1. \A i \in H : langs[i] = header[p[i]].lr
      BY <2>7
    <3>2. langs = [i \in 1 .. Len(header) |-> langs[i]]
      BY <2>7
    <3>3. \A i \in 1 .. Len(header) : langs[i] \in Ranges
      BY <2>6, <2>8, <3>1
    <3>4. langs \in Seq(Ranges) /\ Len(langs) = Len(header)
      BY <2>9, <3>2, <3>3, IsSeq
    <3> QED
      BY <3>1, <3>4
  <2> HIDE DEF files, table, answer
  <2>11. ASSUME NEW i \in H PROVE header[i].lr \in DOMAIN table <=> i \in served
    <3>1. header[i].lr \in Seq(Range(header[i].lr))
      BY <2>2, <2>6, TextOf
    <3>2. \A k \in 1 .. Len(files) : header[i].lr \in languageRangeGetPrefixes(files[k]) <=> IsPrefix(header[i].lr, files[k])
      BY <2>5, <3>1, PrefixIs
    <3> QED
      BY <2>4, <3>2 DEF AllPrefixes
  <2>12. ASSUME NEW i \in H PROVE i \in known <=> p[i] \in served
    BY <2>8, <2>10, <2>11
  <2>13. answer = table[IF known = {} THEN <<>> ELSE langs[Min(known)]]
    BY Zenon DEF answer, get_right_locale
  <2>14. CASE served = {}
    <3>1. known = {}
      BY <2>10, <2>12, <2>14
    <3> HIDE DEF known, served
    <3> QED
      BY <2>13, <2>14, <3>1, Zenon DEF IsAsked, served, files, table, answer, H
  <2>15. CASE served # {}
    <3> DEFINE m == Min(known)
    <3>1. known # {} /\ known \in SUBSET H
      <4>1. PICK j \in H : j \in served
        BY <2>15
      <4>2. PICK i \in H : p[i] = j
        BY <2>8
      <4>3. i \in known
        BY <2>12, <4>1, <4>2
      <4> QED
        BY <2>10, <4>3
    <3> HIDE DEF known, served
    <3>2. m \in known /\ \A i \in known : m <= i
      BY <2>9, <3>1, First
    <3> HIDE DEF m
    <3>3. m \in H /\ p[m] \in H /\ p[m] \in served
      BY <2>8, <2>12, <3>1, <3>2
    <3>4. answer = table[header[p[m]].lr]
      BY <2>10, <2>13, <3>1, <3>3, Zenon DEF m
    <3>5. header[p[m]].lr \in DOMAIN table
      BY <2>11, <3>3
    <3>6. IsPrefix(header[p[m]].lr, files[answer])
      <4>1. answer \in 1 .. Len(files) /\ header[p[m]].lr \in languageRangeGetPrefixes(files[answer])
        BY <2>4, <3>4, <3>5, Zenon DEF IsTable
      <4>2. header[p[m]].lr \in Seq(Range(header[p[m]].lr)) /\ files[answer] \in Seq(Range(files[answer]))
        BY <2>2, <2>5, <2>6, <3>3, <4>1, TextOf
      <4> QED
        BY <4>1, <4>2, PrefixIs
    <3>7. ASSUME NEW j \in served PROVE header[p[m]].q >= header[j].q
      <4>1. j \in H
        BY DEF served
      <4>2. PICK i \in H : p[i] = j
        BY <2>8, <4>1
      <4>3. i \in known
        BY <2>12, <4>2
      <4>4. CASE m = i
        BY <2>6, <3>3, <4>2, <4>4
      <4>5. CASE m < i
        BY <2>7, <3>3, <4>2, <4>5
      <4>6. m <= i
        BY <3>2, <4>3
      <4> QED
        BY <3>3, <4>4, <4>5, <4>6
    <3> QED
      <4>1. \E i \in served :
                /\ answer = table[header[i].lr]
                /\ IsPrefix(header[i].lr, files[answer])
                /\ \A j \in served : header[i].q >= header[j].q
        BY <3>3, <3>4, <3>6, <3>7, Zenon
      <4> QED
        BY <2>15, <4>1, Zenon DEF IsAsked, served, files, table, answer, H
  <2> QED
    BY <2>14, <2>15 DEF answer, table
<1> QED
    BY <1>1, CallInvHolds, PTL

-----------------------------------------------------------------------------
(* Commands *)

States(C) == [things : Seq(Seq(C)), in_thing : BOOLEAN, esc : BOOLEAN, result : Seq(C)]

\* what read_thing has in hand at the end of a text
Reading(req) ==
    LET after[k \in 0 .. Len(req)] ==
            IF k = 0 THEN Start ELSE TakeCharacter(after[k - 1], req[k])
    IN  after[Len(req)]

\* read_thing's locals stay what they are, whatever character comes.
LEMMA StatesStay ==
    ASSUME NEW C, NEW s \in States(C), NEW ch \in C
    PROVE  TakeCharacter(s, ch) \in States(C)
<1>1. s.things \in Seq(Seq(C)) /\ s.result \in Seq(C)
    BY DEF States
<1>2. Append(s.result, ch) \in Seq(C) /\ Append(s.things, s.result) \in Seq(Seq(C)) /\ <<>> \in Seq(C)
    BY <1>1
<1>3. TakeEscaped(s, ch) \in States(C) /\ TakePlain(s, ch) \in States(C) /\ TakeBackslash(s) \in States(C)
    BY <1>2 DEF TakeEscaped, TakePlain, TakeBackslash, States
<1>4. EndThing(s) \in States(C)
    BY <1>2 DEF EndThing, Start, States
<1>5. s.esc \in BOOLEAN /\ s.in_thing \in BOOLEAN
    BY DEF States
<1>6. CASE s.esc
    BY <1>3, <1>6, Zenon DEF TakeCharacter
<1>7. CASE ~s.esc /\ ch = Backslash
  <2>1. TakeCharacter(s, ch) = TakeBackslash(s) \/ TakeCharacter(s, ch) = EndThing(s) \/ TakeCharacter(s, ch) = s
    BY <1>7 DEF TakeCharacter
  <2> QED
    BY <1>3, <1>4, <2>1
<1>8. CASE ~s.esc /\ ch # Backslash
  <2>1. TakeCharacter(s, ch) = TakePlain(s, ch) \/ TakeCharacter(s, ch) = EndThing(s) \/ TakeCharacter(s, ch) = s
    BY <1>5, <1>8 DEF TakeCharacter
  <2> QED
    BY <1>3, <1>4, <2>1
<1> QED
    BY <1>6, <1>7, <1>8

IsReading(h, req, C) ==
    /\ h \in [0 .. Len(req) -> States(C)] /\ h[0] = Start
    /\ \A k \in 1 .. Len(req) : h[k] = TakeCharacter(h[k - 1], req[k])
    /\ Reading(req) = h[Len(req)]

\* The rounds of read_thing, as a function.
LEMMA ReadingIs ==
    ASSUME NEW C, NEW req \in Seq(C)
    PROVE  \E h : IsReading(h, req, C)
<1> DEFINE N == Len(req)
           A == States(C)
           E(b, n) == TakeCharacter(b, req[n])
           Step == [x \in A \X (1 .. N) |-> E(x[1], x[2])]
           Is(f) == f = [n \in 0 .. N |-> IF n = 0 THEN Start ELSE E(f[n - 1], n)]
           course == CHOOSE f : Is(f)
<1>1. N \in Nat /\ Start \in A
    BY DEF Start, States
<1>2. ASSUME NEW n \in 1 .. N, NEW b \in A PROVE E(b, n) \in A
  <2>1. req[n] \in C
    BY Elements
  <2> QED
    BY <2>1, StatesStay
<1> HIDE DEF A, E, N
<1>4. Step \in [A \X (1 .. N) -> A] /\ \A b \in A, n \in 1 .. N : Step[<<b, n>>] = E(b, n)
    BY <1>2
<1> HIDE DEF Step
<1>5. PICK h : h \in Courses(A, N, Start, Step)
  <2>1. Courses(A, N, Start, Step) # {}
    BY <1>1, <1>4, Recursion
  <2> QED
    BY <2>1
<1>6. Is(h)
  <2>1. h \in [0 .. N -> A] /\ h[0] = Start /\ \A n \in 1 .. N : h[n] = Step[<<h[n - 1], n>>]
    BY <1>5 DEF Courses
  <2>2. ASSUME NEW n \in 1 .. N PROVE h[n] = E(h[n - 1], n)
    <3>1. h[n - 1] \in A
      BY <1>1, <2>1
    <3> QED
      BY <1>4, <2>1, <3>1
  <2>3. \A n \in 0 .. N : h[n] = IF n = 0 THEN Start ELSE E(h[n - 1], n)
    BY <1>1, <2>1, <2>2
  <2> QED
    BY <2>1, <2>3
<1> HIDE DEF Is
<1>7. Is(course)
    BY <1>6
<1> HIDE DEF course
<1>8. course[0] = Start /\ \A n \in 1 .. N : course[n] = E(course[n - 1], n)
    BY <1>1, <1>7 DEF Is
<1> DEFINE S == {n \in 0 .. N : course[n] \in A}
<1>9. ASSUME NEW n \in 0 .. N - 1, n \in S PROVE n + 1 \in S
  <2>1. n + 1 \in 1 .. N /\ n + 1 \in 0 .. N /\ (n + 1) - 1 = n /\ course[n] \in A
    BY <1>1, <1>9
  <2>2. course[n + 1] = E(course[n], n + 1)
    BY <1>8, <2>1
  <2>3. E(course[n], n + 1) \in A
    BY <1>2, <2>1
  <2> QED
    BY <2>1, <2>2, <2>3, Zenon
<1>10. 0 \in S
    BY <1>1, <1>8
<1> HIDE DEF S
<1>11. \A n \in 0 .. N : n \in S
  <2>1. \A n \in 0 .. N - 1 : n \in S => n + 1 \in S
    BY <1>9
  <2> QED
    BY <1>1, <1>10, <2>1, InductiveTo
<1>12. course \in [0 .. N -> A]
  <2>1. \A n \in 0 .. N : course[n] \in A
    BY <1>11 DEF S
  <2> QED
    BY <1>7, <2>1 DEF Is
<1>13. Reading(req) = course[N]
    BY Zenon DEF Reading, course, Is, E, N
<1>14. IsReading(course, req, C)
    BY <1>8, <1>12, <1>13, Zenon DEF IsReading, N, A, E
<1> QED
    BY <1>14

\* Of an empty text nothing is read.
LEMMA ReadNothing == Reading(<<>>) = Start
<1>1. <<>> \in Seq({}) /\ Len(<<>>) = 0
    OBVIOUS
<1>2. PICK h : IsReading(h, <<>>, {})
    BY <1>1, ReadingIs
<1> QED
    BY <1>1, <1>2 DEF IsReading

\* One more character is one more round.
LEMMA ReadMore ==
    ASSUME NEW C, NEW x \in Seq(C), NEW c \in C
    PROVE  Reading(x \o <<c>>) = TakeCharacter(Reading(x), c) /\ Reading(x) \in States(C)
<1> DEFINE y == x \o <<c>>
           N == Len(x)
<1>1. y \in Seq(C) /\ N \in Nat /\ Len(y) = N + 1 /\ y[N + 1] = c /\ \A k \in 1 .. N : y[k] = x[k]
  <2>1. <<c>> \in Seq(C) /\ Len(<<c>>) = 1 /\ <<c>>[1] = c /\ Len(x) \in Nat
    OBVIOUS
  <2>2. /\ y \in Seq(C) /\ Len(y) = Len(x) + Len(<<c>>)
        /\ \A k \in 1 .. Len(x) : y[k] = x[k]
        /\ \A k \in 1 .. Len(<<c>>) : y[Len(x) + k] = <<c>>[k]
    BY <2>1, Cat
  <2> QED
    BY <2>1, <2>2
<1>2. PICK g : IsReading(g, x, C)
    BY ReadingIs
<1>3. PICK h : IsReading(h, y, C)
    BY <1>1, ReadingIs
<1> HIDE DEF y, N
<1>4. /\ g \in [0 .. N -> States(C)] /\ g[0] = Start /\ Reading(x) = g[N]
      /\ \A k \in 1 .. N : g[k] = TakeCharacter(g[k - 1], x[k])
    BY <1>2 DEF IsReading, N
<1>5. /\ h[0] = Start /\ Reading(y) = h[N + 1]
      /\ \A k \in 1 .. N + 1 : h[k] = TakeCharacter(h[k - 1], y[k])
    BY <1>1, <1>3 DEF IsReading
<1> DEFINE S == {k \in 0 .. N : h[k] = g[k]}
<1>6. ASSUME NEW k \in 0 .. N - 1, k \in S PROVE k + 1 \in S
  <2>1. k + 1 \in 1 .. N /\ k + 1 \in 1 .. N + 1 /\ k + 1 \in 0 .. N /\ (k + 1) - 1 = k /\ h[k] = g[k]
    BY <1>1, <1>6
  <2>2. h[k + 1] = TakeCharacter(h[k], y[k + 1]) /\ g[k + 1] = TakeCharacter(g[k], x[k + 1]) /\ y[k + 1] = x[k + 1]
    BY <1>1, <1>4, <1>5, <2>1
  <2>3. h[k + 1] = g[k + 1]
    BY <2>1, <2>2
  <2> QED
    BY <2>1, <2>3
<1>7. 0 \in S
    BY <1>1, <1>4, <1>5
<1> HIDE DEF S
<1>8. N \in S
  <2>1. \A k \in 0 .. N - 1 : k \in S => k + 1 \in S
    BY <1>6
  <2>2. \A k \in 0 .. N : k \in S
    BY <1>1, <1>7, <2>1, InductiveTo
  <2> QED
    BY <1>1, <2>2
<1>9. h[N + 1] = TakeCharacter(h[N], c)
  <2>1. N + 1 \in 1 .. N + 1 /\ (N + 1) - 1 = N
    BY <1>1
  <2> QED
    BY <1>1, <1>5, <2>1
<1>10. g[N] \in States(C)
    BY <1>1, <1>4
<1> QED
    BY <1>4, <1>5, <1>8, <1>9, <1>10 DEF S, y

\* Concatenation does not depend on how it is bracketed.
LEMMA CatCat ==
    ASSUME NEW A, NEW x \in Seq(A), NEW y \in Seq(A), NEW z \in Seq(A)
    PROVE  (x \o y) \o z = x \o (y \o z)
<1> DEFINE l == (x \o y) \o z
           r == x \o (y \o z)
           K == Len(x)
           M == Len(y)
           N == Len(z)
<1>1. K \in Nat /\ M \in Nat /\ N \in Nat /\ x \o y \in Seq(A) /\ y \o z \in Seq(A)
      /\ Len(x \o y) = K + M /\ Len(y \o z) = M + N
    OBVIOUS
<1>2. /\ l \in Seq(A) /\ Len(l) = K + M + N
      /\ \A k \in 1 .. K + M : l[k] = (x \o y)[k]
      /\ \A k \in 1 .. N : l[K + M + k] = z[k]
    BY <1>1, Cat
<1>3. /\ r \in Seq(A) /\ Len(r) = K + (M + N)
      /\ \A k \in 1 .. K : r[k] = x[k]
      /\ \A k \in 1 .. M + N : r[K + k] = (y \o z)[k]
    BY <1>1, Cat
<1>4. /\ \A k \in 1 .. K : (x \o y)[k] = x[k]
      /\ \A k \in 1 .. M : (x \o y)[K + k] = y[k]
    BY Cat
<1>5. /\ \A k \in 1 .. M : (y \o z)[k] = y[k]
      /\ \A k \in 1 .. N : (y \o z)[M + k] = z[k]
    BY Cat
<1> HIDE DEF l, r, K, M, N
<1>6. ASSUME NEW k \in 1 .. K + M + N PROVE l[k] = r[k]
  <2>1. CASE k \in 1 .. K
    <3>1. k \in 1 .. K + M
      BY <1>1, <2>1
    <3> QED
      BY <1>2, <1>3, <1>4, <2>1, <3>1
  <2>2. CASE k \in K + 1 .. K + M
    <3> DEFINE i == k - K
    <3>1. i \in 1 .. M /\ k = K + i /\ i \in 1 .. M + N /\ k \in 1 .. K + M
      BY <1>1, <2>2
    <3> HIDE DEF i
    <3>2. l[k] = y[i]
      BY <1>2, <1>4, <3>1
    <3>3. r[k] = y[i]
      BY <1>3, <1>5, <3>1
    <3> QED
      BY <3>2, <3>3
  <2>3. CASE k \in K + M + 1 .. K + M + N
    <3> DEFINE i == k - (K + M)
    <3>1. i \in 1 .. N /\ k = K + M + i /\ M + i \in 1 .. M + N /\ k = K + (M + i)
      BY <1>1, <2>3
    <3> HIDE DEF i
    <3>2. l[k] = z[i]
      BY <1>2, <3>1
    <3>3. r[k] = z[i]
      BY <1>3, <1>5, <3>1
    <3> QED
      BY <3>2, <3>3
  <2>4. k \in 1 .. K \/ k \in K + 1 .. K + M \/ k \in K + M + 1 .. K + M + N
    BY <1>1
  <2> QED
    BY <2>1, <2>2, <2>3, <2>4
<1>7. K + (M + N) = K + M + N
    BY <1>1
<1>8. AreSame(l, r)
    BY <1>2, <1>3, <1>6, <1>7 DEF AreSame
<1>9. l = r
    BY <1>2, <1>3, <1>8, SameSeq
<1> QED
    BY <1>9 DEF l, r

Associates(A) == \A x, y, z \in Seq(A) : (x \o y) \o z = x \o (y \o z)

\* ... for all sequences over a set.
LEMMA CatAll ==
    ASSUME NEW A PROVE Associates(A)
    BY CatCat DEF Associates

\* Nothing added at either end.
LEMMA CatNothing ==
    ASSUME NEW A, NEW x \in Seq(A)
    PROVE  x \o <<>> = x /\ <<>> \o x = x
    OBVIOUS

\* The first n + 1 elements.
LEMMA PrefixGrows ==
    ASSUME NEW A, NEW w \in Seq(A), NEW n \in 0 .. Len(w) - 1
    PROVE  /\ SubSeq(w, 1, n) \in Seq(A)
           /\ Append(SubSeq(w, 1, n), w[n + 1]) = SubSeq(w, 1, n + 1)
<1>1. /\ Len(w) \in Nat /\ n \in Nat /\ n + 1 \in Nat /\ 1 <= n + 1 /\ 1 <= n + 1 + 1 /\ 1 \in Nat \ {0}
      /\ n <= Len(w) /\ n + 1 <= Len(w) /\ n + 1 \in 1 .. Len(w)
      /\ n - 1 + 1 = n /\ n + 1 - 1 + 1 = n + 1
    OBVIOUS
<1> DEFINE s == SubSeq(w, 1, n)
           t == SubSeq(w, 1, n + 1)
<1>2. s \in Seq(A) /\ IsPart(s, w, 1, n)
    BY <1>1, Part
<1>3. t \in Seq(A) /\ IsPart(t, w, 1, n + 1)
    BY <1>1, Part
<1>4. w[n + 1] \in A
    BY <1>1, Elements
<1> HIDE DEF s, t
<1>5. Len(s) = n /\ Len(t) = n + 1 /\ (\A k \in 1 .. n : s[k] = w[k]) /\ (\A k \in 1 .. n + 1 : t[k] = w[k])
    BY <1>1, <1>2, <1>3 DEF IsPart
<1>6. Append(s, w[n + 1]) \in Seq(A) /\ Len(Append(s, w[n + 1])) = n + 1
    BY <1>2, <1>4, <1>5
<1>7. ASSUME NEW k \in 1 .. n + 1 PROVE Append(s, w[n + 1])[k] = w[k]
  <2>1. CASE k = n + 1
    BY <1>2, <1>4, <1>5, <2>1
  <2>2. CASE k # n + 1
    <3>1. k \in 1 .. n
      BY <1>1, <2>2
    <3> QED
      BY <1>2, <1>4, <1>5, <3>1
  <2> QED
    BY <2>1, <2>2
<1> DEFINE u == Append(s, w[n + 1])
<1>8. u \in Seq(A) /\ AreSame(u, t)
    BY <1>5, <1>6, <1>7 DEF AreSame
<1> HIDE DEF u
<1>9. u = t
    BY <1>3, <1>8, SameSeq
<1> QED
    BY <1>2, <1>9 DEF s, t, u

\* SubSeq at its two ends
LEMMA Whole ==
    ASSUME NEW A, NEW w \in Seq(A)
    PROVE  SubSeq(w, 1, 0) = <<>> /\ SubSeq(w, 1, Len(w)) = w
<1>1. /\ Len(w) \in Nat /\ 1 \in Nat \ {0} /\ 1 <= Len(w) + 1 /\ Len(w) <= Len(w)
      /\ Len(w) - 1 + 1 = Len(w) /\ \A k \in 1 .. Len(w) : 1 + k - 1 = k
    OBVIOUS
<1>2. SubSeq(w, 1, 0) = <<>>
    OBVIOUS
<1> DEFINE t == SubSeq(w, 1, Len(w))
<1>3. t \in Seq(A) /\ IsPart(t, w, 1, Len(w))
    BY <1>1, Part
<1> HIDE DEF t
<1>4. AreSame(t, w)
    BY <1>1, <1>3 DEF IsPart, AreSame
<1>5. t = w
    BY <1>3, <1>4, SameSeq
<1> QED
    BY <1>2, <1>5 DEF t

\* between things, with a list of things read
Clean(l) == [Start EXCEPT !.things = l]

\* in a thing or after it, no character of which is outstanding
Rests(s, l) ==
    /\ s.esc = FALSE
    /\ (IF s.in_thing THEN Append(s.things, s.result) ELSE s.things) = l
    /\ s.in_thing = FALSE => s.result = <<>>

\* The record of the locals between things.
LEMMA CleanIs ==
    ASSUME NEW C, NEW l \in Seq(Seq(C))
    PROVE  Clean(l) = [things |-> l, in_thing |-> FALSE, esc |-> FALSE, result |-> <<>>]
<1> DEFINE a == Clean(l)
           b == [things |-> l, in_thing |-> FALSE, esc |-> FALSE, result |-> <<>>]
<1>1. a \in States(C) /\ b \in States(C)
  <2>1. <<>> \in Seq(C)
    OBVIOUS
  <2>2. a \in States(C)
    BY <2>1 DEF Clean, Start, States
  <2>3. b \in States(C)
    BY <2>1 DEF States
  <2> QED
    BY <2>2, <2>3
<1>2. a.things = b.things /\ a.in_thing = b.in_thing /\ a.esc = b.esc /\ a.result = b.result
    BY DEF Clean, Start
<1> HIDE DEF a, b
<1> QED
    BY <1>1, <1>2 DEF a, b, States

\* A blank ends what is read.
LEMMA Separated ==
    ASSUME NEW C, NEW s \in States(C), NEW l \in Seq(Seq(C)), Rests(s, l), Blank # Backslash
    PROVE  TakeCharacter(s, Blank) = Clean(l)
<1>1. CASE s.in_thing
  <2>1. TakeCharacter(s, Blank) = EndThing(s)
    BY <1>1 DEF TakeCharacter, Rests
  <2> QED
    BY <1>1, <2>1 DEF EndThing, Clean, Rests
<1>2. CASE ~s.in_thing
  <2>1. TakeCharacter(s, Blank) = s
    BY <1>2 DEF TakeCharacter, Rests
  <2>2. s.in_thing = FALSE /\ s.esc = FALSE /\ s.things = l /\ s.result = <<>>
    BY <1>2 DEF Rests, States
  <2>3. s = [things |-> s.things, in_thing |-> s.in_thing, esc |-> s.esc, result |-> s.result]
    BY DEF States
  <2>4. Clean(l) = [things |-> l, in_thing |-> FALSE, esc |-> FALSE, result |-> <<>>]
    BY CleanIs
  <2> QED
    BY <2>1, <2>2, <2>3, <2>4
<1> QED
    BY <1>1, <1>2

\* Between things, no character is outstanding.
LEMMA CleanRests ==
    ASSUME NEW l PROVE Rests(Clean(l), l)
    BY DEF Rests, Clean, Start

\* in the middle of a word, after n characters of it
Half(l, w, n) == [things |-> l, in_thing |-> n > 0, esc |-> FALSE, result |-> SubSeq(w, 1, n)]

\* A character that needs no backslash.
LEMMA PlainTaken ==
    ASSUME NEW l, NEW C, NEW w \in Seq(C), NEW n \in 0 .. Len(w) - 1, w[n + 1] \notin {Blank, Backslash}
    PROVE  TakeCharacter(Half(l, w, n), w[n + 1]) = Half(l, w, n + 1)
<1> DEFINE s == Half(l, w, n)
<1>1. TakeCharacter(s, w[n + 1]) = TakePlain(s, w[n + 1])
    BY DEF TakeCharacter, Half
<1>2. Append(SubSeq(w, 1, n), w[n + 1]) = SubSeq(w, 1, n + 1) /\ (n + 1 > 0) = TRUE
  <2>1. Append(SubSeq(w, 1, n), w[n + 1]) = SubSeq(w, 1, n + 1)
    BY PrefixGrows
  <2> QED
    BY <2>1
<1> QED
    BY <1>1, <1>2 DEF TakePlain, Half

\* A character after a backslash, whichever it is.
LEMMA EscapedTaken ==
    ASSUME NEW l, NEW C, NEW w \in Seq(C), NEW n \in 0 .. Len(w) - 1,
           Blank # Backslash
    PROVE  TakeCharacter(TakeCharacter(Half(l, w, n), Backslash), w[n + 1]) = Half(l, w, n + 1)
<1> DEFINE s == Half(l, w, n)
<1>1. TakeCharacter(s, Backslash) = TakeBackslash(s)
    BY DEF TakeCharacter, Half
<1>2. TakeCharacter(TakeBackslash(s), w[n + 1]) = TakeEscaped(TakeBackslash(s), w[n + 1])
    BY DEF TakeCharacter, TakeBackslash, Half
<1>3. Append(SubSeq(w, 1, n), w[n + 1]) = SubSeq(w, 1, n + 1) /\ (n + 1 > 0) = TRUE
  <2>1. Append(SubSeq(w, 1, n), w[n + 1]) = SubSeq(w, 1, n + 1)
    BY PrefixGrows
  <2> QED
    BY <2>1
<1> QED
    BY <1>1, <1>2, <1>3 DEF TakeEscaped, TakeBackslash, Half

AreRounds(g, N, A, F) ==
    /\ g \in [0 .. N -> Seq(A)] /\ g[0] = <<>>
    /\ \A n \in 1 .. N : g[n] = g[n - 1] \o F[n]
    /\ g[N] = FlattenSeq(F)

\* The rounds of FlattenSeq once more, under a name.
LEMMA Rounds ==
    ASSUME NEW A, NEW N \in Nat, NEW F \in [1 .. N -> Seq(A)]
    PROVE  \E g : AreRounds(g, N, A, F)
<1>1. PICK g \in [0 .. N -> Seq(A)] :
            /\ g[0] = <<>>
            /\ \A n \in 1 .. N : g[n] = g[n - 1] \o F[n]
            /\ g[N] = FlattenSeq(F)
    BY Flattened, ZenonT(30)
<1>2. AreRounds(g, N, A, F)
    BY <1>1, Zenon DEF AreRounds
<1> QED
    BY <1>2

\* what is to be written for one character
Quoted(c) == IF c \in {Blank, Backslash} THEN <<Backslash, c>> ELSE <<c>>

\* what has been read when a word is added to a list
With(l, w) == IF w = <<>> THEN l ELSE Append(l, w)

\* A word at its beginning and at its end.
LEMMA HalfEnds ==
    ASSUME NEW C, NEW l \in Seq(Seq(C)), NEW w \in Seq(C)
    PROVE  Half(l, w, 0) = Clean(l) /\ Rests(Half(l, w, Len(w)), With(l, w))
<1>1. SubSeq(w, 1, 0) = <<>> /\ Len(w) \in Nat
    BY Whole
<1>2. Half(l, w, 0) = Clean(l)
  <2>1. Clean(l) = [things |-> l, in_thing |-> FALSE, esc |-> FALSE, result |-> <<>>]
    BY CleanIs
  <2>2. (0 > 0) = FALSE
    OBVIOUS
  <2> QED
    BY <1>1, <2>1, <2>2, Zenon DEF Half
<1>3. SubSeq(w, 1, Len(w)) = w
    BY Whole
<1>4. CASE w = <<>>
  <2>1. With(l, w) = l /\ Half(l, w, Len(w)) = Clean(l)
    BY <1>2, <1>4 DEF With
  <2> QED
    BY <1>2, <2>1, CleanRests
<1>5. CASE w # <<>>
  <2>1. Len(w) > 0 /\ (Len(w) > 0) = TRUE
    BY <1>1, <1>5
  <2>2. Half(l, w, Len(w)) = [things |-> l, in_thing |-> TRUE, esc |-> FALSE, result |-> w]
    BY <1>3, <2>1 DEF Half
  <2> QED
    BY <1>2, <1>5, <2>2 DEF Rests, With
<1> QED
    BY <1>4, <1>5

\* Whatever characters a word has, it is read as it is.
LEMMA WordRead ==
    ASSUME NEW C, Blank \in C, Backslash \in C, Blank # Backslash,
           NEW x \in Seq(C), NEW l \in Seq(Seq(C)), Reading(x) = Clean(l), NEW w \in Seq(C)
    PROVE  Quote(w) \in Seq(C) /\ Rests(Reading(x \o Quote(w)), With(l, w))
<1> DEFINE N == Len(w)
           F == [i \in 1 .. N |-> Quoted(w[i])]
<1>1. N \in Nat /\ \A i \in 1 .. N : w[i] \in C
    BY Elements
<1>2. F \in [1 .. N -> Seq(C)]
  <2>1. ASSUME NEW c \in C PROVE Quoted(c) \in Seq(C)
    BY DEF Quoted
  <2> HIDE DEF N
  <2> QED
    BY <1>1, <2>1
<1>3. FlattenSeq(F) = Quote(w)
    BY Zenon DEF Quote, Quoted
<1>4. \A i \in 1 .. N : F[i] = Quoted(w[i])
    OBVIOUS
<1> HIDE DEF F, N
<1>5. PICK g \in [0 .. N -> Seq(C)] :
        g[0] = <<>> /\ (\A n \in 1 .. N : g[n] = g[n - 1] \o F[n]) /\ g[N] = FlattenSeq(F)
  <2>1. PICK g : AreRounds(g, N, C, F)
    BY <1>1, <1>2, Rounds
  <2> QED
    BY <2>1, Zenon DEF AreRounds
<1> DEFINE S == {n \in 0 .. N : Reading(x \o g[n]) = Half(l, w, n)}
<1>6. 0 \in S
  <2>1. x \o g[0] = x
    BY <1>5, CatNothing
  <2>2. Half(l, w, 0) = Clean(l)
    BY HalfEnds
  <2>3. 0 \in 0 .. N
    BY <1>1
  <2>4. Reading(x \o g[0]) = Half(l, w, 0)
    BY <2>1, <2>2, Zenon
  <2> QED
    BY <2>3, <2>4
<1>7. ASSUME NEW n \in 0 .. N - 1, n \in S PROVE n + 1 \in S
  <2> DEFINE c == w[n + 1]
             y == x \o g[n]
  <2>1. n + 1 \in 1 .. N /\ n + 1 \in 0 .. N /\ (n + 1) - 1 = n /\ n \in 0 .. N /\ n \in 0 .. Len(w) - 1
    BY <1>1 DEF N
  <2>2. c \in C /\ g[n] \in Seq(C) /\ g[n + 1] = g[n] \o Quoted(c)
    BY <1>1, <1>4, <1>5, <2>1
  <2>3. y \in Seq(C) /\ Reading(y) = Half(l, w, n)
    BY <1>7, <2>2
  <2>4. CASE c \in {Blank, Backslash}
    <3>1. <<Backslash>> \in Seq(C) /\ <<c>> \in Seq(C) /\ Quoted(c) = <<Backslash>> \o <<c>>
      BY <2>2, <2>4 DEF Quoted
    <3>2. x \o g[n + 1] = (y \o <<Backslash>>) \o <<c>>
      <4>1. Associates(C)
        BY CatAll
      <4>2. g[n] \o <<Backslash>> \in Seq(C) /\ g[n] \in Seq(C)
        BY <2>2, <3>1
      <4>3. g[n + 1] = (g[n] \o <<Backslash>>) \o <<c>>
        <5>1. (g[n] \o <<Backslash>>) \o <<c>> = g[n] \o (<<Backslash>> \o <<c>>)
          <6>1. <<Backslash>> \in Seq(C) /\ <<c>> \in Seq(C) /\ g[n] \in Seq(C)
            BY <3>1, <4>2
          <6> HIDE DEF c
          <6> QED
            BY <4>1, <6>1, Z3T(30) DEF Associates
        <5> QED
          BY <2>2, <3>1, <5>1, Zenon
      <4>4. (x \o (g[n] \o <<Backslash>>)) \o <<c>> = x \o ((g[n] \o <<Backslash>>) \o <<c>>)
        BY <3>1, <4>1, <4>2, Zenon DEF Associates
      <4>5. (x \o g[n]) \o <<Backslash>> = x \o (g[n] \o <<Backslash>>)
        BY <3>1, <4>1, <4>2, Zenon DEF Associates
      <4> QED
        BY <4>3, <4>4, <4>5, Zenon
    <3> HIDE DEF c, y
    <3>3. Reading(y \o <<Backslash>>) = TakeCharacter(Half(l, w, n), Backslash) /\ y \o <<Backslash>> \in Seq(C)
      BY <2>3, <3>1, ReadMore
    <3>4. Reading((y \o <<Backslash>>) \o <<c>>) = TakeCharacter(TakeCharacter(Half(l, w, n), Backslash), c)
      BY <2>2, <3>3, ReadMore
    <3>5. TakeCharacter(TakeCharacter(Half(l, w, n), Backslash), w[n + 1]) = Half(l, w, n + 1)
      BY <2>1, EscapedTaken
    <3>6. Reading(x \o g[n + 1]) = Half(l, w, n + 1)
      BY <3>2, <3>4, <3>5 DEF c
    <3> QED
      BY <2>1, <3>6
  <2>5. CASE c \notin {Blank, Backslash}
    <3>1. <<c>> \in Seq(C) /\ Quoted(c) = <<c>>
      BY <2>2, <2>5 DEF Quoted
    <3>2. x \o g[n + 1] = y \o <<c>>
      <4>1. (x \o g[n]) \o <<c>> = x \o (g[n] \o <<c>>)
        <5>1. Associates(C)
          BY CatAll
        <5>2. g[n] \in Seq(C)
          BY <2>2
        <5> QED
          BY <3>1, <5>1, <5>2, Zenon DEF Associates
      <4> QED
        BY <2>2, <3>1, <4>1, Zenon
    <3> HIDE DEF y
    <3>3. Reading(y \o <<c>>) = TakeCharacter(Half(l, w, n), c)
      BY <2>2, <2>3, ReadMore
    <3>4. TakeCharacter(Half(l, w, n), w[n + 1]) = Half(l, w, n + 1)
      BY <2>1, <2>5, PlainTaken
    <3>5. Reading(x \o g[n + 1]) = Half(l, w, n + 1)
      BY <3>2, <3>3, <3>4
    <3> QED
      BY <2>1, <3>5
  <2> QED
    BY <2>4, <2>5
<1> HIDE DEF S
<1>8. N \in S
  <2>1. \A n \in 0 .. N - 1 : n \in S => n + 1 \in S
    BY <1>7
  <2>2. \A n \in 0 .. N : n \in S
    BY <1>1, <1>6, <2>1, InductiveTo
  <2> QED
    BY <1>1, <2>2
<1>9. g[N] = Quote(w) /\ g[N] \in Seq(C)
    BY <1>1, <1>3, <1>5
<1>10. Reading(x \o g[N]) = Half(l, w, N)
    BY <1>8 DEF S
<1>11. Rests(Half(l, w, Len(w)), With(l, w))
    BY HalfEnds
<1> QED
    BY <1>9, <1>10, <1>11 DEF N

\* l is what the first n of the fields are read as: those that are not empty
IsListOf(l, fields, n) ==
    /\ Len(l) <= n
    /\ \A i \in 1 .. n : IF i <= Len(l) THEN l[i] = fields[i] /\ fields[i] # <<>> ELSE fields[i] = <<>>

\* The list of what has been read, after one more field.  An empty one adds
\* nothing, and only empty ones follow it.
LEMMA ListGrows ==
    ASSUME NEW C, NEW fields \in Seq(Seq(C)), EmptyOnesLast(fields), NEW n \in 0 .. Len(fields) - 1,
           NEW l \in Seq(Seq(C)), IsListOf(l, fields, n)
    PROVE  /\ With(l, fields[n + 1]) \in Seq(Seq(C))
           /\ IsListOf(With(l, fields[n + 1]), fields, n + 1)
<1>1. /\ Len(fields) \in Nat /\ n \in Nat /\ n + 1 \in 1 .. Len(fields) /\ fields[n + 1] \in Seq(C)
      /\ Len(l) \in Nat
  <2>1. Len(fields) \in Nat /\ n + 1 \in 1 .. Len(fields)
    OBVIOUS
  <2>2. fields[n + 1] \in Seq(C)
    BY <2>1, Elements
  <2> QED
    BY <2>1, <2>2
<1>2. CASE fields[n + 1] = <<>>
  <2>1. With(l, fields[n + 1]) = l
    BY <1>2 DEF With
  <2>2. Len(l) <= n + 1
    BY <1>1 DEF IsListOf
  <2>3. ASSUME NEW i \in 1 .. n + 1
        PROVE  IF i <= Len(l) THEN l[i] = fields[i] /\ fields[i] # <<>> ELSE fields[i] = <<>>
    <3>1. CASE i = n + 1
      <4>1. ~(i <= Len(l))
        BY <1>1, <3>1 DEF IsListOf
      <4> QED
        BY <1>2, <3>1, <4>1
    <3>2. CASE i # n + 1
      <4>1. i \in 1 .. n
        BY <1>1, <3>2
      <4> QED
        BY <4>1, Zenon DEF IsListOf
    <3> QED
      BY <3>1, <3>2
  <2> QED
    BY <2>1, <2>2, <2>3 DEF IsListOf
<1>3. CASE fields[n + 1] # <<>>
  <2> DEFINE f == fields[n + 1]
  <2>1. With(l, f) = Append(l, f)
    BY <1>3 DEF With
  <2>2. Len(l) = n
    <3>1. ASSUME Len(l) < n PROVE FALSE
      <4>1. n \in 1 .. n /\ ~(n <= Len(l)) /\ n \in 1 .. Len(fields) /\ n < n + 1
        BY <1>1, <3>1
      <4>2. fields[n] = <<>>
        BY <4>1, Zenon DEF IsListOf
      <4>3. fields[n] # <<>>
        BY <1>1, <1>3, <4>1, Zenon DEF EmptyOnesLast
      <4> QED
        BY <4>2, <4>3
    <3> QED
      BY <1>1, <3>1 DEF IsListOf
  <2> DEFINE u == Append(l, f)
  <2>3. u \in Seq(Seq(C)) /\ Len(u) = n + 1 /\ u[n + 1] = f /\ \A i \in 1 .. n : u[i] = l[i]
    <3> DEFINE T == Seq(C)
    <3>1. f \in T /\ l \in Seq(T) /\ Len(l) \in Nat
      BY <1>1
    <3> HIDE DEF f, T
    <3>2. u \in Seq(T) /\ Len(u) = Len(l) + 1
      BY <3>1
    <3>3. u[Len(l) + 1] = f
      BY <3>1
    <3>4. \A i \in 1 .. Len(l) : u[i] = l[i]
      BY <3>1
    <3> QED
      BY <2>2, <3>2, <3>3, <3>4 DEF T
  <2> HIDE DEF u
  <2>4. ASSUME NEW i \in 1 .. n + 1
        PROVE  u[i] = fields[i] /\ fields[i] # <<>>
    <3>1. CASE i = n + 1
      BY <1>3, <2>3, <3>1
    <3>2. CASE i # n + 1
      <4>1. i \in 1 .. n /\ i <= Len(l)
        BY <1>1, <2>2, <3>2
      <4>2. l[i] = fields[i] /\ fields[i] # <<>>
        BY <4>1, Zenon DEF IsListOf
      <4> QED
        BY <2>3, <4>1, <4>2
    <3> QED
      BY <3>1, <3>2
  <2>5. IsListOf(u, fields, n + 1)
    <3>1. Len(u) <= n + 1 /\ \A i \in 1 .. n + 1 : i <= Len(u)
      BY <1>1, <2>3
    <3> QED
      BY <2>4, <3>1, Zenon DEF IsListOf
  <2> QED
    BY <2>1, <2>3, <2>5 DEF u
<1> QED
    BY <1>2, <1>3

\* x is a text that has been read as the first n fields
HasRead(x, fields, n, C) ==
    /\ x \in Seq(C)
    /\ \E l \in Seq(Seq(C)) : IsListOf(l, fields, n) /\ Rests(Reading(x), l)

\* the same, with nothing in hand
HasEnded(x, fields, n, C) ==
    /\ x \in Seq(C)
    /\ \E l \in Seq(Seq(C)) : IsListOf(l, fields, n) /\ Reading(x) = Clean(l)

\* Nothing has been read between things as well.
LEMMA CleanStart == Reading(<<>>) = Clean(<<>>)
<1>1. Clean(<<>>) = Start
    BY DEF Clean, Start
<1> QED
    BY <1>1, ReadNothing

\* Before the first field.
LEMMA NothingRead ==
    ASSUME NEW C, NEW fields \in Seq(Seq(C))
    PROVE  HasEnded(<<>>, fields, 0, C)
<1>1. Clean(<<>>) = Start
    BY DEF Clean, Start
<1>2. <<>> \in Seq(C) /\ <<>> \in Seq(Seq(C)) /\ IsListOf(<<>>, fields, 0)
    BY DEF IsListOf
<1> QED
    BY <1>1, <1>2, ReadNothing DEF HasEnded

\* What has ended has been read.
LEMMA EndedIsRead ==
    ASSUME NEW C, NEW fields, NEW n, NEW x, HasEnded(x, fields, n, C)
    PROVE  HasRead(x, fields, n, C)
<1>1. PICK l \in Seq(Seq(C)) : IsListOf(l, fields, n) /\ Reading(x) = Clean(l)
    BY DEF HasEnded
<1>2. Rests(Reading(x), l)
    BY <1>1, CleanRests
<1> QED
    BY <1>1, <1>2, Zenon DEF HasRead, HasEnded

\* A blank ends what has been read, or adds nothing.
LEMMA BlankEnds ==
    ASSUME NEW C, Blank \in C, Blank # Backslash, NEW fields, NEW n, NEW x, HasRead(x, fields, n, C)
    PROVE  HasEnded(x \o <<Blank>>, fields, n, C)
<1>1. x \in Seq(C) /\ <<Blank>> \in Seq(C) /\ x \o <<Blank>> \in Seq(C)
    BY DEF HasRead
<1>2. PICK l \in Seq(Seq(C)) : IsListOf(l, fields, n) /\ Rests(Reading(x), l)
    BY DEF HasRead
<1>3. Reading(x \o <<Blank>>) = TakeCharacter(Reading(x), Blank) /\ Reading(x) \in States(C)
    BY <1>1, ReadMore
<1>4. TakeCharacter(Reading(x), Blank) = Clean(l)
    BY <1>2, <1>3, Separated
<1>5. Reading(x \o <<Blank>>) = Clean(l)
    BY <1>3, <1>4, Zenon
<1> QED
    BY <1>1, <1>2, <1>5, Zenon DEF HasEnded

\* One more field, after a blank.
LEMMA FieldRead ==
    ASSUME NEW C, Blank \in C, Backslash \in C, Blank # Backslash,
           NEW fields \in Seq(Seq(C)), EmptyOnesLast(fields), NEW n \in 0 .. Len(fields) - 1,
           NEW x, HasEnded(x, fields, n, C)
    PROVE  HasRead(x \o Quote(fields[n + 1]), fields, n + 1, C)
<1>1. x \in Seq(C)
    BY DEF HasEnded
<1>2. PICK l \in Seq(Seq(C)) : IsListOf(l, fields, n) /\ Reading(x) = Clean(l)
    BY DEF HasEnded
<1>3. fields[n + 1] \in Seq(C)
  <2>1. n + 1 \in 1 .. Len(fields)
    OBVIOUS
  <2> QED
    BY <2>1, Elements
<1> DEFINE w == fields[n + 1]
<1>4. With(l, w) \in Seq(Seq(C)) /\ IsListOf(With(l, w), fields, n + 1)
    BY <1>2, ListGrows
<1> HIDE DEF w
<1>5. Quote(w) \in Seq(C) /\ Rests(Reading(x \o Quote(w)), With(l, w))
  <2>1. w \in Seq(C) /\ Reading(x) = Clean(l)
    BY <1>2, <1>3 DEF w
  <2> QED
    BY <1>1, <2>1, WordRead
<1>6. x \o Quote(w) \in Seq(C)
    BY <1>1, <1>5
<1>7. HasRead(x \o Quote(w), fields, n + 1, C)
    BY <1>4, <1>5, <1>6, Zenon DEF HasRead
<1> QED
    BY <1>7 DEF w

\* All the fields in a text: what the calls of read_thing return.
LEMMA AllRead ==
    ASSUME NEW C, NEW fields \in Seq(Seq(C)), NEW x, HasRead(x, fields, Len(fields), C),
           NEW m \in Nat, Len(fields) <= m
    PROVE  read_things(x, m) = [i \in 1 .. m |-> IF i <= Len(fields) THEN fields[i] ELSE <<>>]
<1>1. PICK l \in Seq(Seq(C)) : IsListOf(l, fields, Len(fields)) /\ Rests(Reading(x), l)
    BY DEF HasRead
<1> DEFINE s == Reading(x)
           things == IF s.in_thing THEN EndThing(s).things ELSE s.things
<1>2. read_things(x, m) = [i \in 1 .. m |-> IF i <= Len(things) THEN things[i] ELSE <<>>]
    BY Zenon DEF read_things, Reading
<1> HIDE DEF s
<1>3. things = l
  <2>1. EndThing(s).things = Append(s.things, s.result)
    BY DEF EndThing, Start
  <2> QED
    BY <1>1, <2>1, Zenon DEF Rests, s
<1> HIDE DEF things
<1>4. Len(l) \in Nat /\ Len(fields) \in Nat /\ Len(l) <= Len(fields)
    BY <1>1 DEF IsListOf
<1>5. ASSUME NEW i \in 1 .. m
      PROVE  (IF i <= Len(things) THEN things[i] ELSE <<>>) = IF i <= Len(fields) THEN fields[i] ELSE <<>>
  <2>1. CASE i <= Len(fields)
    <3>1. i \in 1 .. Len(fields)
      BY <1>4, <2>1
    <3>2. IF i <= Len(l) THEN l[i] = fields[i] /\ fields[i] # <<>> ELSE fields[i] = <<>>
      BY <1>1, <3>1, Zenon DEF IsListOf
    <3> QED
      BY <1>3, <2>1, <3>2
  <2>2. CASE ~(i <= Len(fields))
    <3>1. ~(i <= Len(l))
      BY <1>4, <2>2
    <3> QED
      BY <1>3, <2>2, <3>1
  <2> QED
    BY <2>1, <2>2
<1> QED
    BY <1>2, <1>5

\* Each field an argument of its own: what the tool's loop has after n of them.
LEMMA JoinedRead ==
    ASSUME NEW C, Blank \in C, Backslash \in C, Blank # Backslash,
           NEW fields \in Seq(Seq(C)), EmptyOnesLast(fields)
    PROVE  HasRead(Joined([i \in 1 .. Len(fields) |-> Quote(fields[i])]), fields, Len(fields), C)
<1> DEFINE argv == [i \in 1 .. Len(fields) |-> Quote(fields[i])]
           N == Len(argv)
           A == Seq(C)
           E(b, n) == (IF b = <<>> THEN <<>> ELSE b \o <<Blank>>) \o argv[n]
           Step == [x \in A \X (1 .. N) |-> E(x[1], x[2])]
           Is(f) == f = [n \in 0 .. N |-> IF n = 0 THEN <<>> ELSE E(f[n - 1], n)]
           msg == CHOOSE f : Is(f)
<1>1. Len(fields) \in Nat /\ <<>> \in A /\ <<Blank>> \in A
    OBVIOUS
<1>2. \A w \in Seq(C) : Quote(w) \in Seq(C)
  <2>1. <<>> \in Seq(C) /\ <<>> \in Seq(Seq(C))
    OBVIOUS
  <2> QED
    BY <2>1, CleanStart, WordRead
<1>3. \A n \in 1 .. Len(fields) : fields[n] \in Seq(C) /\ argv[n] = Quote(fields[n])
    BY Elements
<1>4. N = Len(fields) /\ N \in Nat
  <2>1. \A n \in 1 .. Len(fields) : argv[n] \in Seq(C)
    BY <1>2, <1>3
  <2>2. argv = [n \in 1 .. Len(fields) |-> argv[n]]
    OBVIOUS
  <2> HIDE DEF argv
  <2>3. Len(argv) = Len(fields)
    BY <1>1, <2>1, <2>2, IsSeq
  <2> QED
    BY <1>1, <2>3
<1> HIDE DEF argv, N
<1>5. ASSUME NEW n \in 1 .. N, NEW b \in A PROVE E(b, n) \in A
  <2>1. argv[n] \in Seq(C)
    BY <1>2, <1>3, <1>4
  <2> QED
    BY <1>1, <2>1
<1> HIDE DEF A, E
<1>6. Step \in [A \X (1 .. N) -> A] /\ \A b \in A, n \in 1 .. N : Step[<<b, n>>] = E(b, n)
    BY <1>5
<1> HIDE DEF Step
<1>7. PICK h : h \in Courses(A, N, <<>>, Step)
  <2>1. Courses(A, N, <<>>, Step) # {}
    BY <1>1, <1>4, <1>6, Recursion
  <2> QED
    BY <2>1
<1>8. Is(h)
  <2>1. h \in [0 .. N -> A] /\ h[0] = <<>> /\ \A n \in 1 .. N : h[n] = Step[<<h[n - 1], n>>]
    BY <1>7 DEF Courses
  <2>2. ASSUME NEW n \in 1 .. N PROVE h[n] = E(h[n - 1], n)
    <3>1. h[n - 1] \in A
      <4>1. n - 1 \in 0 .. N /\ h \in [0 .. N -> A]
        BY <1>4, <2>1
      <4> QED
        BY <4>1
    <3> QED
      BY <1>6, <2>1, <3>1
  <2>3. \A n \in 0 .. N : h[n] = IF n = 0 THEN <<>> ELSE E(h[n - 1], n)
    BY <1>4, <2>1, <2>2
  <2> QED
    BY <2>1, <2>3
<1> HIDE DEF Is
<1>9. Is(msg)
    BY <1>8
<1> HIDE DEF msg
<1>10. msg[0] = <<>> /\ \A n \in 1 .. N : msg[n] = E(msg[n - 1], n)
  <2>1. msg = [n \in 0 .. N |-> IF n = 0 THEN <<>> ELSE E(msg[n - 1], n)]
    BY <1>9, Zenon DEF Is
  <2>2. 0 \in 0 .. N /\ \A n \in 1 .. N : n \in 0 .. N /\ n # 0
    BY <1>4
  <2> QED
    BY <2>1, <2>2
<1> DEFINE S == {n \in 0 .. N : HasRead(msg[n], fields, n, C)}
<1>11. 0 \in S
  <2>1. HasRead(<<>>, fields, 0, C)
    BY NothingRead, EndedIsRead
  <2> QED
    BY <1>4, <1>10, <2>1
<1>12. ASSUME NEW n \in 0 .. N - 1, n \in S PROVE n + 1 \in S
  <2> DEFINE x == IF msg[n] = <<>> THEN <<>> ELSE msg[n] \o <<Blank>>
  <2>1. n + 1 \in 1 .. N /\ n + 1 \in 0 .. N /\ (n + 1) - 1 = n /\ n \in 0 .. Len(fields) - 1
    BY <1>4
  <2>2. HasRead(msg[n], fields, n, C)
    BY <1>12
  <2>3. HasEnded(x, fields, n, C)
    <3>1. CASE msg[n] = <<>>
      <4>1. PICK l \in Seq(Seq(C)) : IsListOf(l, fields, n) /\ Rests(Reading(<<>>), l)
        BY <2>2, <3>1 DEF HasRead
      <4>2. Reading(<<>>) = Clean(l)
        <5>1. l = <<>>
          BY <4>1, ReadNothing DEF Rests, Start
        <5> QED
          BY <5>1, CleanStart, Zenon
      <4> QED
        BY <3>1, <4>1, <4>2 DEF HasEnded
    <3>2. CASE msg[n] # <<>>
      <4>1. HasEnded(msg[n] \o <<Blank>>, fields, n, C)
        BY <2>2, BlankEnds
      <4> QED
        BY <3>2, <4>1
    <3> QED
      BY <3>1, <3>2
  <2> HIDE DEF x
  <2>4. HasRead(x \o Quote(fields[n + 1]), fields, n + 1, C)
    BY <2>1, <2>3, FieldRead
  <2>5. msg[n + 1] = x \o Quote(fields[n + 1])
    BY <1>3, <1>4, <1>10, <2>1, Zenon DEF E, x
  <2> QED
    BY <2>1, <2>4, <2>5
<1> HIDE DEF S
<1>13. N \in S
  <2>1. \A n \in 0 .. N - 1 : n \in S => n + 1 \in S
    BY <1>12
  <2>2. \A n \in 0 .. N : n \in S
    BY <1>4, <1>11, <2>1, InductiveTo
  <2> QED
    BY <1>4, <2>2
<1>14. Joined(argv) = msg[N]
    BY Zenon DEF Joined, msg, Is, E, N
<1> QED
    BY <1>4, <1>13, <1>14 DEF S, argv

\* All of them in one argument, with blanks before and after each.
LEMMA OneTextRead ==
    ASSUME NEW C, Blank \in C, Backslash \in C, Blank # Backslash,
           NEW fields \in Seq(Seq(C)), EmptyOnesLast(fields)
    PROVE  LET txt == FlattenSeq([i \in 1 .. Len(fields) |-> <<Blank>> \o Quote(fields[i]) \o <<Blank>>])
           IN  txt \in Seq(C) /\ HasRead(txt, fields, Len(fields), C)
<1> DEFINE N == Len(fields)
           P(w) == <<Blank>> \o Quote(w) \o <<Blank>>
           F == [i \in 1 .. N |-> P(fields[i])]
<1>1. N \in Nat /\ \A i \in 1 .. N : fields[i] \in Seq(C)
    BY Elements
<1>2. \A w \in Seq(C) : Quote(w) \in Seq(C)
  <2>1. <<>> \in Seq(C) /\ <<>> \in Seq(Seq(C))
    OBVIOUS
  <2> QED
    BY <2>1, CleanStart, WordRead
<1>3. <<Blank>> \in Seq(C)
    OBVIOUS
<1>4. \A w \in Seq(C) : P(w) \in Seq(C)
    BY <1>2, <1>3
<1> HIDE DEF N
<1>5. F \in [1 .. N -> Seq(C)] /\ \A i \in 1 .. N : F[i] = P(fields[i])
  <2> HIDE DEF P
  <2> QED
    BY <1>1, <1>4
<1> HIDE DEF F
<1>6. PICK g : AreRounds(g, N, C, F)
    BY <1>1, <1>5, Rounds
<1>7. /\ g \in [0 .. N -> Seq(C)] /\ g[0] = <<>> /\ g[N] = FlattenSeq(F)
      /\ \A n \in 1 .. N : g[n] = g[n - 1] \o F[n]
    BY <1>6, Zenon DEF AreRounds
<1> DEFINE S == {n \in 0 .. N : HasRead(g[n], fields, n, C)}
<1>8. 0 \in S
  <2>1. HasRead(<<>>, fields, 0, C)
    BY NothingRead, EndedIsRead
  <2> QED
    BY <1>1, <1>7, <2>1
<1>9. ASSUME NEW n \in 0 .. N - 1, n \in S PROVE n + 1 \in S
  <2> DEFINE q == Quote(fields[n + 1])
             b == <<Blank>>
  <2>1. n + 1 \in 1 .. N /\ n + 1 \in 0 .. N /\ (n + 1) - 1 = n /\ n \in 0 .. N /\ n \in 0 .. Len(fields) - 1
    BY <1>1 DEF N
  <2>2. HasRead(g[n], fields, n, C)
    BY <1>9
  <2>3. HasEnded(g[n] \o b, fields, n, C)
    BY <2>2, BlankEnds
  <2>4. HasRead((g[n] \o b) \o q, fields, n + 1, C)
    <3> HIDE DEF b
    <3> DEFINE y == g[n] \o b
    <3>1. HasEnded(y, fields, n, C)
      BY <2>3
    <3> HIDE DEF y
    <3>2. HasRead(y \o Quote(fields[n + 1]), fields, n + 1, C)
      BY <2>1, <3>1, FieldRead
    <3> QED
      BY <3>2 DEF y
  <2>5. HasEnded(((g[n] \o b) \o q) \o b, fields, n + 1, C)
    <3> DEFINE y == (g[n] \o b) \o q
    <3>1. HasRead(y, fields, n + 1, C)
      BY <2>4
    <3> HIDE DEF y
    <3>2. HasEnded(y \o <<Blank>>, fields, n + 1, C)
      BY <3>1, BlankEnds
    <3> QED
      BY <3>2 DEF y
  <2>6. g[n] \in Seq(C) /\ q \in Seq(C) /\ b \in Seq(C)
    BY <1>1, <1>2, <1>3, <1>7, <2>1
  <2>7. g[n + 1] = g[n] \o ((b \o q) \o b)
    BY <1>5, <1>7, <2>1
  <2> HIDE DEF b, q
  <2>8. g[n] \o b \in Seq(C) /\ b \o q \in Seq(C)
    BY <2>6
  <2>9. Associates(C)
    BY CatAll
  <2>10. ((g[n] \o b) \o q) \o b = g[n] \o ((b \o q) \o b)
    <3>1. (g[n] \o b) \o q = g[n] \o (b \o q)
      BY <2>6, <2>9, Zenon DEF Associates
    <3>2. (g[n] \o (b \o q)) \o b = g[n] \o ((b \o q) \o b)
      BY <2>6, <2>8, <2>9, ZenonT(30) DEF Associates
    <3> QED
      BY <3>1, <3>2, Zenon
  <2>11. HasRead(g[n + 1], fields, n + 1, C)
    <3>1. HasEnded(g[n + 1], fields, n + 1, C)
      BY <2>5, <2>7, <2>10, Zenon
    <3> QED
      BY <3>1, EndedIsRead
  <2> QED
    BY <2>1, <2>11
<1> HIDE DEF S
<1>10. N \in S
  <2>1. \A n \in 0 .. N - 1 : n \in S => n + 1 \in S
    BY <1>9
  <2>2. \A n \in 0 .. N : n \in S
    BY <1>1, <1>8, <2>1, InductiveTo
  <2> QED
    BY <1>1, <2>2
<1>11. g[N] \in Seq(C)
    BY <1>1, <1>7
<1> QED
    BY <1>7, <1>10, <1>11 DEF S, F, N

\* One argument is joined to itself.
LEMMA JoinedOne ==
    ASSUME NEW C, NEW txt \in Seq(C)
    PROVE  Joined(<<txt>>) = txt
<1> DEFINE E(b, n) == (IF b = <<>> THEN <<>> ELSE b \o <<Blank>>) \o <<txt>>[n]
           Is(f) == f = [n \in 0 .. 1 |-> IF n = 0 THEN <<>> ELSE E(f[n - 1], n)]
           h == [n \in 0 .. 1 |-> IF n = 0 THEN <<>> ELSE E(<<>>, n)]
           msg == CHOOSE f : Is(f)
<1>1. Is(h)
  <2> HIDE DEF E
  <2>1. ASSUME NEW n \in 0 .. 1, n # 0 PROVE n - 1 = 0 /\ h[n - 1] = <<>>
    BY <2>1
  <2>2. \A n \in 0 .. 1 : (IF n = 0 THEN <<>> ELSE E(<<>>, n)) = IF n = 0 THEN <<>> ELSE E(h[n - 1], n)
    BY <2>1
  <2> QED
    BY <2>2
<1> HIDE DEF Is
<1>2. Is(msg)
    BY <1>1
<1> HIDE DEF msg
<1>3. msg[0] = <<>> /\ msg[1] = E(msg[0], 1)
  <2> HIDE DEF E
  <2>1. msg = [n \in 0 .. 1 |-> IF n = 0 THEN <<>> ELSE E(msg[n - 1], n)]
    BY <1>2 DEF Is
  <2>2. 0 \in 0 .. 1 /\ 1 \in 0 .. 1 /\ 1 - 1 = 0
    OBVIOUS
  <2> QED
    BY <2>1, <2>2
<1>4. msg[1] = txt
  <2>1. <<txt>>[1] = txt /\ <<>> \o txt = txt
    OBVIOUS
  <2> QED
    BY <1>3, <2>1
<1>5. Len(<<txt>>) = 1
    OBVIOUS
<1>6. Joined(<<txt>>) = msg[1]
    BY <1>5, Zenon DEF Joined, msg, Is, E
<1> QED
    BY <1>4, <1>6

\* The README's rule is enough: what an administrator writes by it is read as
\* what they mean.
THEOREM FieldsAreReadHolds == CallSpec => []FieldsAreRead
<1>1. CallInv => FieldsAreRead
  <2> SUFFICES ASSUME CallInv, Called("command"), result # NotYet
               PROVE  result = [i \in 1 .. MaxFields |-> IF i <= Len(call[2]) THEN call[2][i] ELSE <<>>]
    BY Zenon DEF FieldsAreRead
  <2> DEFINE U == UNION {Range(w) : w \in Words}
             C == U \cup {Blank, Backslash}
             fields == call[2]
             argv == [i \in 1 .. Len(fields) |-> Quote(fields[i])]
             txt == FlattenSeq([i \in 1 .. Len(fields) |-> <<Blank>> \o argv[i] \o <<Blank>>])
  <2>1. fields \in BoundedSeq(Words, MaxFields) /\ EmptyOnesLast(fields) /\ call[3] \in Written(fields)
    BY Asked DEF CallInv
  <2>2. result = read_things(Joined(call[3]), MaxFields)
    BY Zenon DEF CallInv, Outcome
  <2>3. Blank \in C /\ Backslash \in C /\ Blank # Backslash /\ MaxFields \in Nat
    <3>1. Blank # Backslash /\ MaxFields \in Nat
      BY CommandAssumption, Zenon
    <3>2. Blank \in C /\ Backslash \in C
      <4> HIDE DEF U
      <4> QED
        OBVIOUS
    <3> HIDE DEF C
    <3> QED
      BY <3>1, <3>2
  <2>4. Words \subseteq Seq(C)
    <3>1. ASSUME NEW w \in Words PROVE w \in Seq(C)
      <4>1. w \in Seq(Range(w)) /\ Range(w) \subseteq C
        BY CommandAssumption DEF IsText
      <4> HIDE DEF C
      <4> QED
        BY <4>1
    <3> QED
      BY <3>1
  <2> HIDE DEF C
  <2>5. fields \in Seq(Seq(C)) /\ Len(fields) \in Nat /\ Len(fields) <= MaxFields
    <3>1. PICK m \in 0 .. MaxFields : fields \in [1 .. m -> Words]
      BY <2>1 DEF BoundedSeq, SeqOf
    <3>2. fields \in Seq(Words) /\ Len(fields) = m
      BY <2>3, <3>1
    <3> QED
      BY <2>3, <2>4, <3>1, <3>2
  <2>6. HasRead(Joined(argv), fields, Len(fields), C)
    <3> HIDE DEF fields
    <3> QED
      BY <2>1, <2>3, <2>5, JoinedRead
  <2>7. txt \in Seq(C) /\ HasRead(txt, fields, Len(fields), C)
    <3> HIDE DEF fields
    <3>1. txt = FlattenSeq([i \in 1 .. Len(fields) |-> <<Blank>> \o Quote(fields[i]) \o <<Blank>>])
      OBVIOUS
    <3> HIDE DEF txt
    <3> QED
      BY <2>1, <2>3, <2>5, <3>1, OneTextRead
  <2>8. call[3] = argv \/ call[3] = <<txt>>
    BY <2>1, Zenon DEF Written
  <2> HIDE DEF argv, txt
  <2>9. HasRead(Joined(call[3]), fields, Len(fields), C)
    BY <2>6, <2>7, <2>8, JoinedOne
  <2> HIDE DEF fields
  <2>10. read_things(Joined(call[3]), MaxFields) = [i \in 1 .. MaxFields |-> IF i <= Len(fields) THEN fields[i] ELSE <<>>]
    <3> DEFINE x == Joined(call[3])
               S == Seq(Seq(C))
               m == MaxFields
    <3>1. fields \in S /\ HasRead(x, fields, Len(fields), C) /\ m \in Nat /\ Len(fields) <= m
      BY <2>3, <2>5, <2>9, Zenon
    <3> HIDE DEF x, m
    <3>2. read_things(x, m) = [i \in 1 .. m |-> IF i <= Len(fields) THEN fields[i] ELSE <<>>]
      BY <3>1, AllRead
    <3> QED
      BY <3>2 DEF x, m
  <2> QED
    BY <2>2, <2>10 DEF fields
<1> QED
    BY <1>1, CallInvHolds, PTL

-----------------------------------------------------------------------------
(* Forms *)

FormStart ==
    [result |-> <<<<<<>>, <<>>>>>>, filling_second |-> FALSE, skip |-> 0, broken |-> FALSE]

\* what the loop of split_html_query goes through
IsFormRun(h, query) ==
    /\ h[0] = FormStart
    /\ \A i \in 1 .. Len(query) : h[i] = ReadByte(query, h[i - 1], i)
    /\ split_html_query(query) =
        IF query = <<>> \/ h[Len(query)].broken THEN <<>> ELSE h[Len(query)].result

\* The rounds of split_html_query, as a function.
LEMMA FormRun ==
    ASSUME NEW C, NEW query \in Seq(C)
    PROVE  \E h : IsFormRun(h, query)
<1> DEFINE E(b, n) == ReadByte(query, b, n)
           Is(f, m) == f = [n \in 0 .. m |-> IF n = 0 THEN FormStart ELSE E(f[n - 1], n)]
           S == {m \in Nat : \E f : Is(f, m)}
           N == Len(query)
           Run(f) == f = [n \in 0 .. N |-> IF n = 0 THEN FormStart ELSE E(f[n - 1], n)]
           after == CHOOSE f : Run(f)
<1> HIDE DEF E
<1>1. 0 \in S
  <2> DEFINE f == [n \in 0 .. 0 |-> FormStart]
  <2>1. \A n \in 0 .. 0 : FormStart = IF n = 0 THEN FormStart ELSE E(f[n - 1], n)
    OBVIOUS
  <2>2. Is(f, 0)
    BY <2>1
  <2> HIDE DEF f, Is
  <2> QED
    BY <2>2
<1>2. ASSUME NEW m \in S PROVE m + 1 \in S
  <2>1. PICK f : Is(f, m)
    OBVIOUS
  <2>2. \A n \in 0 .. m : f[n] = IF n = 0 THEN FormStart ELSE E(f[n - 1], n)
    BY <2>1
  <2> DEFINE g == [n \in 0 .. m + 1 |-> IF n = 0 THEN FormStart ELSE E(f[n - 1], n)]
  <2>3. ASSUME NEW n \in 0 .. m PROVE g[n] = f[n]
    <3>1. n \in 0 .. m + 1
      OBVIOUS
    <3>2. g[n] = IF n = 0 THEN FormStart ELSE E(f[n - 1], n)
      BY <3>1
    <3> QED
      BY <2>2, <3>2
  <2>4. ASSUME NEW n \in 0 .. m + 1
        PROVE  (IF n = 0 THEN FormStart ELSE E(f[n - 1], n)) = IF n = 0 THEN FormStart ELSE E(g[n - 1], n)
    <3>1. CASE n = 0
      BY <3>1
    <3>2. CASE n # 0
      <4>1. n - 1 \in 0 .. m
        BY <3>2
      <4>2. g[n - 1] = f[n - 1]
        BY <2>3, <4>1
      <4> HIDE DEF g
      <4> QED
        BY <4>2
    <3> QED
      BY <3>1, <3>2
  <2>5. Is(g, m + 1)
    BY <2>4
  <2> HIDE DEF g, Is
  <2> QED
    BY <2>5
<1>3. N \in S
  <2>1. S \in SUBSET Nat /\ N \in Nat
    OBVIOUS
  <2> HIDE DEF S, N
  <2> QED
    BY <1>1, <1>2, <2>1, Inductive
<1>4. PICK h : Run(h)
  <2>1. \E f : Is(f, N)
    BY <1>3
  <2> QED
    BY <2>1
<1> HIDE DEF Run
<1>5. Run(after)
    BY <1>4
<1> HIDE DEF after
<1>6. after[0] = FormStart /\ \A n \in 1 .. N : after[n] = E(after[n - 1], n)
  <2>1. after = [n \in 0 .. N |-> IF n = 0 THEN FormStart ELSE E(after[n - 1], n)]
    BY <1>5, Zenon DEF Run
  <2>2. 0 \in 0 .. N /\ \A n \in 1 .. N : n \in 0 .. N /\ n # 0
    OBVIOUS
  <2> HIDE DEF N
  <2> QED
    BY <2>1, <2>2
<1>7. split_html_query(query) = IF query = <<>> \/ after[N].broken THEN <<>> ELSE after[N].result
    BY Zenon DEF split_html_query, after, Run, E, N, FormStart
<1>8. IsFormRun(after, query)
    BY <1>6, <1>7, Zenon DEF IsFormRun, N, E
<1> QED
    BY <1>8

\* In the middle of a form: the fields before, then name and value, one of
\* which is being filled with t.
Filling(d, f, a, t) ==
    [result |-> Append(d, IF f THEN <<a, t>> ELSE <<t, <<>>>>),
     filling_second |-> f, skip |-> 0, broken |-> FALSE]

ByteTexts == Seq(0 .. 255)

\* The last element of a sequence, replaced.
LEMMA LastReplaced ==
    ASSUME NEW P, NEW d \in Seq(P), NEW x \in P, NEW y \in P
    PROVE  [Append(d, x) EXCEPT ![Len(Append(d, x))] = y] = Append(d, y)
<1> DEFINE l == [Append(d, x) EXCEPT ![Len(Append(d, x))] = y]
           r == Append(d, y)
<1>1. Len(d) \in Nat /\ Len(Append(d, x)) = Len(d) + 1 /\ Append(d, x) \in Seq(P)
    OBVIOUS
<1>2. r \in Seq(P) /\ Len(r) = Len(d) + 1 /\ r[Len(d) + 1] = y /\ \A k \in 1 .. Len(d) : r[k] = d[k]
    OBVIOUS
<1>3. \A k \in 1 .. Len(d) : Append(d, x)[k] = d[k]
    OBVIOUS
<1> DEFINE u == Append(d, x)
           n == Len(u)
<1>4. u \in Seq(P) /\ n = Len(d) + 1 /\ n \in Nat
    BY <1>1
<1> HIDE DEF u
<1>10. u \in [1 .. n -> P]
    BY <1>4
<1> HIDE DEF n
<1>11. l = [u EXCEPT ![n] = y]
    BY DEF u, n
<1>5. l \in [1 .. Len(d) + 1 -> P] /\ l[Len(d) + 1] = y /\ \A k \in 1 .. Len(d) : l[k] = Append(d, x)[k]
  <2> HIDE DEF l
  <2>1. l \in [1 .. n -> P] /\ l[n] = y /\ \A k \in 1 .. Len(d) : l[k] = u[k]
    BY <1>1, <1>4, <1>10, <1>11
  <2> QED
    BY <1>4, <2>1 DEF u
<1> HIDE DEF l, r
<1>6. l \in Seq(P) /\ Len(l) = Len(d) + 1
    BY <1>1, <1>5
<1>7. ASSUME NEW k \in 1 .. Len(d) + 1 PROVE l[k] = r[k]
  <2>1. CASE k = Len(d) + 1
    BY <1>2, <1>5, <2>1
  <2>2. CASE k # Len(d) + 1
    <3>1. k \in 1 .. Len(d)
      BY <1>1, <2>2
    <3> QED
      BY <1>2, <1>3, <1>5, <3>1
  <2> QED
    BY <2>1, <2>2
<1>8. AreSame(l, r)
    BY <1>2, <1>6, <1>7 DEF AreSame
<1>9. l = r
    BY <1>2, <1>6, <1>8, SameSeq
<1> QED
    BY <1>9 DEF l, r

\* One side of a pair, replaced.
LEMMA PairReplaced ==
    ASSUME NEW T, NEW a \in T, NEW b \in T, NEW z \in T
    PROVE  [<<a, b>> EXCEPT ![1] = z] = <<z, b>> /\ [<<a, b>> EXCEPT ![2] = z] = <<a, z>>
    OBVIOUS

Appends(d, f, a, t, c) == Put(Filling(d, f, a, t), c) = Filling(d, f, a, Append(t, c))

\* A byte is put at the end of what is being filled.
LEMMA PutAppends ==
    ASSUME NEW d \in Seq(ByteTexts \X ByteTexts), NEW f \in BOOLEAN, NEW a \in ByteTexts, NEW t \in ByteTexts, NEW c \in 0 .. 255
    PROVE  Appends(d, f, a, t, c)
<1> DEFINE s == Filling(d, f, a, t)
           P == ByteTexts \X ByteTexts
           x == IF f THEN <<a, t>> ELSE <<t, <<>>>>
           y == IF f THEN <<a, Append(t, c)>> ELSE <<Append(t, c), <<>>>>
           j == IF f THEN 2 ELSE 1
<1>1. Append(t, c) \in ByteTexts /\ <<>> \in ByteTexts
    BY DEF ByteTexts
<1>2. x \in P /\ y \in P
    BY <1>1
<1>3. s.result = Append(d, x) /\ s.filling_second = f
    BY DEF Filling
<1>4. Put(s, c) = [s EXCEPT !.result = [s.result EXCEPT ![Len(s.result)] =
                    [s.result[Len(s.result)] EXCEPT ![j] = Append(s.result[Len(s.result)][j], c)]]]
    BY <1>3 DEF Put
<1>5. s.result[Len(s.result)] = x
  <2> HIDE DEF x, s, P
  <2> QED
    BY <1>2, <1>3
<1>6. [x EXCEPT ![j] = Append(x[j], c)] = y
  <2>1. CASE f
    <3>1. x = <<a, t>> /\ j = 2 /\ y = <<a, Append(t, c)>> /\ x[j] = t
      BY <2>1
    <3> HIDE DEF x, y, j
    <3>2. [<<a, t>> EXCEPT ![2] = Append(t, c)] = <<a, Append(t, c)>>
      BY <1>1, PairReplaced
    <3> QED
      BY <3>1, <3>2, Zenon
  <2>2. CASE ~f
    <3>1. x = <<t, <<>>>> /\ j = 1 /\ y = <<Append(t, c), <<>>>> /\ x[j] = t
      BY <2>2
    <3> HIDE DEF x, y, j
    <3>2. [<<t, <<>>>> EXCEPT ![1] = Append(t, c)] = <<Append(t, c), <<>>>>
      BY <1>1, PairReplaced
    <3> QED
      BY <3>1, <3>2, Zenon
  <2> QED
    BY <2>1, <2>2
<1>7. [s.result EXCEPT ![Len(s.result)] = y] = Append(d, y)
  <2> HIDE DEF x, y, s, P
  <2>1. [Append(d, x) EXCEPT ![Len(Append(d, x))] = y] = Append(d, y)
    BY <1>2, LastReplaced DEF P
  <2> QED
    BY <1>3, <2>1, Zenon
<1>8. Put(s, c) = [s EXCEPT !.result = Append(d, y)]
  <2> HIDE DEF x, y, s, P, j
  <2> QED
    BY <1>4, <1>5, <1>6, <1>7, Zenon
<1>9. [s EXCEPT !.result = Append(d, y)] = Filling(d, f, a, Append(t, c))
  <2> DEFINE Z == [result : Seq(P), filling_second : BOOLEAN, skip : Nat, broken : BOOLEAN]
             m == [s EXCEPT !.result = Append(d, y)]
             n == [result |-> Append(d, y), filling_second |-> f, skip |-> 0, broken |-> FALSE]
  <2> HIDE DEF y, x, P
  <2>1. Append(d, y) \in Seq(P) /\ Append(d, x) \in Seq(P)
    BY <1>2 DEF P
  <2>2. s \in Z /\ s.filling_second = f /\ s.skip = 0 /\ s.broken = FALSE
    BY <2>1 DEF Filling, x
  <2> HIDE DEF s
  <2>3. m \in Z /\ m.result = Append(d, y) /\ m.filling_second = f /\ m.skip = 0 /\ m.broken = FALSE
    BY <2>1, <2>2
  <2>4. n \in Z /\ n.result = Append(d, y) /\ n.filling_second = f /\ n.skip = 0 /\ n.broken = FALSE
    BY <2>1
  <2> HIDE DEF m, n
  <2>5. m = n
    <3>1. \A v, w \in Z :
              (/\ v.result = w.result /\ v.filling_second = w.filling_second
               /\ v.skip = w.skip /\ v.broken = w.broken) => v = w
      OBVIOUS
    <3> HIDE DEF Z
    <3> QED
      BY <2>3, <2>4, <3>1, Zenon
  <2> USE DEF m, n
  <2> QED
    BY <2>5, Zenon DEF Filling, y
<1> QED
    BY <1>8, <1>9 DEF Appends

FormStates ==
    [result : Seq(ByteTexts \X ByteTexts), filling_second : BOOLEAN, skip : Nat, broken : BOOLEAN]

SameStates(v, w) ==
    /\ v.result = w.result /\ v.filling_second = w.filling_second
    /\ v.skip = w.skip /\ v.broken = w.broken

\* States that agree in all fields are equal.
LEMMA SameState ==
    ASSUME NEW v \in FormStates, NEW w \in FormStates, SameStates(v, w)
    PROVE  v = w
    BY DEF FormStates, SameStates

\* a state from which the next byte is read
IsState(s, f, r) ==
    s \in FormStates /\ s.filling_second = f /\ s.skip = 0 /\ s.broken = FALSE /\ s.result = r

\* The fields of a state in the middle of a form.
LEMMA FillingIs ==
    ASSUME NEW d \in Seq(ByteTexts \X ByteTexts), NEW f \in BOOLEAN, NEW a \in ByteTexts, NEW t \in ByteTexts
    PROVE  IsState(Filling(d, f, a, t), f, Append(d, IF f THEN <<a, t>> ELSE <<t, <<>>>>))
<1> DEFINE P == ByteTexts \X ByteTexts
           x == IF f THEN <<a, t>> ELSE <<t, <<>>>>
<1>1. <<>> \in ByteTexts
    BY DEF ByteTexts
<1>2. x \in P
    BY <1>1
<1> HIDE DEF x, P
<1>3. Append(d, x) \in Seq(P)
    BY <1>2 DEF P
<1>4. Filling(d, f, a, t) = [result |-> Append(d, x), filling_second |-> f, skip |-> 0, broken |-> FALSE]
    BY Zenon DEF Filling, x
<1>5. [result |-> Append(d, x), filling_second |-> f, skip |-> 0, broken |-> FALSE] \in FormStates
    BY <1>3 DEF FormStates, P
<1>6. Filling(d, f, a, t) \in FormStates
    BY <1>4, <1>5
<1>7. /\ Filling(d, f, a, t).filling_second = f /\ Filling(d, f, a, t).skip = 0
      /\ Filling(d, f, a, t).broken = FALSE /\ Filling(d, f, a, t).result = Append(d, x)
    BY <1>4
<1> QED
    BY <1>6, <1>7 DEF x, IsState

Reads(s) == s \in FormStates /\ s.skip = 0 /\ s.broken = FALSE

\* From such a state the next byte is read.
LEMMA FillingReads ==
    ASSUME NEW d \in Seq(ByteTexts \X ByteTexts), NEW f \in BOOLEAN, NEW a \in ByteTexts, NEW t \in ByteTexts
    PROVE  Reads(Filling(d, f, a, t))
<1>1. IsState(Filling(d, f, a, t), f, Append(d, IF f THEN <<a, t>> ELSE <<t, <<>>>>))
    BY FillingIs, Zenon
<1> QED
    BY <1>1, Zenon DEF IsState, Reads

\* After an escape its two digits are skipped.
LEMMA SkipAll ==
    ASSUME NEW s, Reads(s), NEW u, u = [s EXCEPT !.skip = 2],
           NEW query, NEW i, NEW j
    PROVE  ReadByte(query, ReadByte(query, u, i), j) = s
<1> DEFINE m == [s EXCEPT !.skip = 1]
           e == [m EXCEPT !.skip = 0]
<1>1. /\ u \in FormStates /\ u.skip = 2 /\ u.broken = FALSE /\ u.result = s.result
      /\ u.filling_second = s.filling_second
    BY DEF Reads, FormStates
<1>2. m \in FormStates /\ m.skip = 1 /\ m.broken = FALSE /\ m.result = s.result /\ m.filling_second = s.filling_second
    BY DEF Reads, FormStates
<1> HIDE DEF m
<1>3. e \in FormStates /\ SameStates(e, s)
    BY <1>2 DEF Reads, FormStates, SameStates
<1>4. e = s
  <2> HIDE DEF e
  <2> QED
    BY <1>3, SameState DEF Reads
<1>5. ReadByte(query, u, i) = [u EXCEPT !.skip = 1]
    BY <1>1 DEF ReadByte
<1>6. [u EXCEPT !.skip = 1] = m
  <2> DEFINE v == [u EXCEPT !.skip = 1]
  <2>1. v \in FormStates /\ SameStates(v, m)
    BY <1>1, <1>2 DEF FormStates, SameStates
  <2> HIDE DEF v
  <2>2. v = m
    BY <1>2, <2>1, SameState
  <2> QED
    BY <2>2 DEF v
<1>7. ReadByte(query, m, j) = e
    BY <1>2 DEF ReadByte
<1> QED
    BY <1>4, <1>5, <1>6, <1>7, Zenon

\* A byte that stands for itself.
LEMMA PlainByte ==
    ASSUME NEW s, Reads(s), NEW query, NEW i,
           query[i] \notin {Ampersand, Equals, Plus, Percent}
    PROVE  ReadByte(query, s, i) = Put(s, query[i])
<1>1. s.skip = 0 /\ s.broken = FALSE /\ ~(s.skip > 0)
    BY DEF Reads
<1> QED
    BY <1>1 DEF ReadByte, Ampersand, Equals, Plus, Percent

\* A plus, which stands for a space.
LEMMA PlusByte ==
    ASSUME NEW s, Reads(s), NEW query, NEW i, query[i] = Plus
    PROVE  ReadByte(query, s, i) = Put(s, Space)
<1>1. s.skip = 0 /\ s.broken = FALSE /\ ~(s.skip > 0)
    BY DEF Reads
<1> QED
    BY <1>1 DEF ReadByte, Ampersand, Equals, Plus, Percent

\* A percent with two more bytes after it.
LEMMA PercentByte ==
    ASSUME NEW s, Reads(s), NEW query, NEW i, query[i] = Percent, ~IsCutOff(query, i)
    PROVE  ReadByte(query, s, i) =
            [Put(s, ByteOf(readhex(query[i + 1]), readhex(query[i + 2]))) EXCEPT !.skip = 2]
<1>1. s.skip = 0 /\ s.broken = FALSE /\ ~(s.skip > 0)
    BY DEF Reads
<1> QED
    BY <1>1 DEF ReadByte, Ampersand, Equals, Plus, Percent

\* An equals sign ends the name.
LEMMA EqualsByte ==
    ASSUME NEW s, Reads(s), NEW query, NEW i, query[i] = Equals
    PROVE  ReadByte(query, s, i) = [s EXCEPT !.filling_second = TRUE]
<1>1. s.skip = 0 /\ s.broken = FALSE /\ ~(s.skip > 0)
    BY DEF Reads
<1> QED
    BY <1>1 DEF ReadByte, Ampersand, Equals, Plus, Percent

\* An ampersand begins a field.
LEMMA AmpersandByte ==
    ASSUME NEW s, Reads(s), NEW query, NEW i, query[i] = Ampersand
    PROVE  ReadByte(query, s, i) =
            [s EXCEPT !.result = Append(@, <<<<>>, <<>>>>), !.filling_second = FALSE]
<1>1. s.skip = 0 /\ s.broken = FALSE /\ ~(s.skip > 0)
    BY DEF Reads
<1> QED
    BY <1>1 DEF ReadByte, Ampersand, Equals, Plus, Percent

\* A hexadecimal digit is read as the number it was written for.
LEMMA HexBack ==
    ASSUME NEW n \in 0 .. 15
    PROVE  HexDigit(n) \in 48 .. 70 /\ readhex(HexDigit(n)) = n
<1>1. CASE n < 10
  <2>1. HexDigit(n) = 48 + n /\ 48 + n \in 48 .. 57 /\ (48 + n) - 48 = n
    BY <1>1 DEF HexDigit
  <2> QED
    BY <2>1 DEF readhex
<1>2. CASE ~(n < 10)
  <2>1. HexDigit(n) = 65 + n - 10 /\ 65 + n - 10 \in 65 .. 70 /\ (65 + n - 10) - 65 + 10 = n
    BY <1>2 DEF HexDigit
  <2> QED
    BY <2>1 DEF readhex
<1> QED
    BY <1>1, <1>2

\* A byte is its two digits.
LEMMA ByteSplit ==
    ASSUME NEW c \in 0 .. 255
    PROVE  c \div 16 \in 0 .. 15 /\ c % 16 \in 0 .. 15 /\ (16 * (c \div 16) + (c % 16)) % 256 = c
<1>1. c \div 16 \in 0 .. 15 /\ c % 16 \in 0 .. 15 /\ 16 * (c \div 16) + (c % 16) = c
    OBVIOUS
<1>2. c % 256 = c
    OBVIOUS
<1> QED
    BY <1>1, <1>2

\* what the browser writes for one byte
Coded(c) ==
    IF c = Space THEN <<Plus>>
    ELSE IF IsPlain(c) THEN <<c>>
    ELSE <<Percent, HexDigit(c \div 16), HexDigit(c % 16)>>

\* The code of a byte is one byte, or three.
LEMMA CodeIsText ==
    ASSUME NEW c \in 0 .. 255
    PROVE  Coded(c) \in Seq(0 .. 255) /\ Len(Coded(c)) \in {1, 3}
<1>1. HexDigit(c \div 16) \in 0 .. 255 /\ HexDigit(c % 16) \in 0 .. 255
  <2>1. HexDigit(c \div 16) \in 48 .. 70 /\ HexDigit(c % 16) \in 48 .. 70
    BY ByteSplit, HexBack
  <2> QED
    BY <2>1
<1> DEFINE x == HexDigit(c \div 16)
           y == HexDigit(c % 16)
<1> HIDE DEF x, y
<1>2. <<Percent, x, y>> \in Seq(0 .. 255) /\ Len(<<Percent, x, y>>) = 3
    BY <1>1 DEF Percent, x, y
<1>3. <<Plus>> \in Seq(0 .. 255) /\ Len(<<Plus>>) = 1 /\ <<c>> \in Seq(0 .. 255) /\ Len(<<c>>) = 1
    BY DEF Plus
<1>4. Coded(c) \in {<<Plus>>, <<c>>, <<Percent, x, y>>}
    BY Zenon DEF Coded, x, y
<1> QED
    BY <1>2, <1>3, <1>4

\* q goes on with t after position p
IsAt(q, p, t) ==
    /\ p + Len(t) <= Len(q)
    /\ \A k \in 1 .. Len(t) : q[p + k] = t[k]

\* Two texts, one after the other, in a query.
LEMMA PartsAt ==
    ASSUME NEW A, NEW B, NEW q \in Seq(B), NEW p \in Nat, NEW x \in Seq(A), NEW y \in Seq(A), IsAt(q, p, x \o y)
    PROVE  IsAt(q, p, x) /\ IsAt(q, p + Len(x), y)
<1>1. /\ Len(x) \in Nat /\ Len(y) \in Nat /\ Len(q) \in Nat /\ Len(x \o y) = Len(x) + Len(y)
      /\ \A k \in 1 .. Len(x) : (x \o y)[k] = x[k]
      /\ \A k \in 1 .. Len(y) : (x \o y)[Len(x) + k] = y[k]
    BY Cat
<1>2. p + (Len(x) + Len(y)) <= Len(q) /\ \A k \in 1 .. Len(x) + Len(y) : q[p + k] = (x \o y)[k]
    BY <1>1, Zenon DEF IsAt
<1>3. p + Len(x) <= Len(q) /\ (p + Len(x)) + Len(y) <= Len(q)
    BY <1>1, <1>2
<1>4. ASSUME NEW k \in 1 .. Len(x) PROVE q[p + k] = x[k]
  <2>1. k \in 1 .. Len(x) + Len(y)
    BY <1>1
  <2> QED
    BY <1>1, <1>2, <2>1
<1>5. ASSUME NEW k \in 1 .. Len(y) PROVE q[(p + Len(x)) + k] = y[k]
  <2>1. Len(x) + k \in 1 .. Len(x) + Len(y) /\ (p + Len(x)) + k = p + (Len(x) + k)
    BY <1>1
  <2>2. q[p + (Len(x) + k)] = (x \o y)[Len(x) + k]
    BY <1>2, <2>1
  <2>3. (x \o y)[Len(x) + k] = y[k]
    BY <1>1
  <2> QED
    BY <2>1, <2>2, <2>3
<1> QED
    BY <1>3, <1>4, <1>5 DEF IsAt

\* One of the pieces of a text, in a query.
LEMMA PieceAt ==
    ASSUME NEW A, NEW B, NEW q \in Seq(B), NEW p \in Nat, NEW N \in Nat, NEW F \in [1 .. N -> Seq(A)],
           NEW off, AreEnds(off, N, F), IsAt(q, p, FlattenSeq(F)), NEW n \in 1 .. N
    PROVE  IsAt(q, p + off[n - 1], F[n])
<1> DEFINE x == FlattenSeq(F)
           o == off[n - 1]
           l == Len(F[n])
<1>1. /\ off \in [0 .. N -> Nat] /\ off[n] = off[n - 1] + Len(F[n]) /\ off[n] <= off[N] /\ Len(x) = off[N]
      /\ \A k \in 1 .. Len(F[n]) : x[off[n - 1] + k] = F[n][k]
    BY Zenon DEF AreEnds
<1>2. o \in Nat /\ l \in Nat /\ Len(x) \in Nat /\ o + l <= Len(x) /\ Len(q) \in Nat
  <2>1. n - 1 \in 0 .. N /\ n \in 0 .. N /\ N \in 0 .. N
    OBVIOUS
  <2>2. off[n - 1] \in Nat /\ off[n] \in Nat /\ off[N] \in Nat
    BY <1>1, <2>1
  <2>3. Len(F[n]) \in Nat
    OBVIOUS
  <2> QED
    BY <1>1, <2>2, <2>3
<1>3. p + Len(x) <= Len(q) /\ \A k \in 1 .. Len(x) : q[p + k] = x[k]
    BY Zenon DEF IsAt
<1>4. \A k \in 1 .. l : x[o + k] = F[n][k]
    BY <1>1
<1> HIDE DEF x, o, l
<1>5. (p + o) + l <= Len(q)
    BY <1>2, <1>3
<1>6. ASSUME NEW k \in 1 .. l PROVE q[(p + o) + k] = F[n][k]
  <2>1. o + k \in 1 .. Len(x) /\ (p + o) + k = p + (o + k)
    BY <1>2
  <2>2. q[p + (o + k)] = x[o + k]
    BY <1>3, <2>1
  <2> QED
    BY <1>4, <2>1, <2>2
<1> QED
    BY <1>5, <1>6 DEF IsAt, o, l

\* at position p t has been filled in
IsFilled(h, p, d, f, a, t) == h[p] = Filling(d, f, a, t)

CodesRead(query, h, d, f, a) ==
    \A t \in ByteTexts, c \in 0 .. 255, p \in Nat :
        IsFilled(h, p, d, f, a, t) /\ IsAt(query, p, Coded(c))
            => IsFilled(h, p + Len(Coded(c)), d, f, a, Append(t, c))

\* The code of a byte is read as the byte.
LEMMA CodeRead ==
    ASSUME NEW query \in Seq(0 .. 255), NEW h, IsFormRun(h, query),
           NEW d \in Seq(ByteTexts \X ByteTexts), NEW f \in BOOLEAN, NEW a \in ByteTexts
    PROVE  CodesRead(query, h, d, f, a)
<1> SUFFICES ASSUME NEW t \in ByteTexts, NEW c \in 0 .. 255, NEW p \in Nat,
                    IsFilled(h, p, d, f, a, t), IsAt(query, p, Coded(c))
             PROVE  IsFilled(h, p + Len(Coded(c)), d, f, a, Append(t, c))
    BY Zenon DEF CodesRead
<1> DEFINE s == Filling(d, f, a, t)
           e == Filling(d, f, a, Append(t, c))
<1>1. Reads(s) /\ Put(s, c) = e
  <2>1. Reads(s)
    BY FillingReads
  <2>2. Put(s, c) = e
    <3>1. Appends(d, f, a, t, c)
      BY PutAppends
    <3> QED
      BY <3>1, Zenon DEF Appends
  <2> QED
    BY <2>1, <2>2
<1>2. Append(t, c) \in ByteTexts
    BY DEF ByteTexts
<1>3. Reads(e)
    BY <1>2, FillingReads
<1>4. Len(query) \in Nat /\ \A i \in 1 .. Len(query) : h[i] = ReadByte(query, h[i - 1], i)
    BY DEF IsFormRun
<1> HIDE DEF s, e
<1>5. h[p] = s
    BY DEF s, IsFilled
<1>6. ASSUME Len(Coded(c)) = 1, NEW ch, Coded(c) = <<ch>>
      PROVE  h[p + 1] = ReadByte(query, s, p + 1) /\ query[p + 1] = ch
  <2>1. p + 1 <= Len(query) /\ query[p + 1] = Coded(c)[1]
    BY <1>6 DEF IsAt
  <2>2. p + 1 \in 1 .. Len(query) /\ (p + 1) - 1 = p
    BY <1>4, <2>1
  <2> QED
    BY <1>4, <1>5, <1>6, <2>1, <2>2
<1>7. CASE c = Space
  <2>1. Coded(c) = <<Plus>> /\ Len(Coded(c)) = 1
    BY <1>7 DEF Coded
  <2>2. h[p + 1] = ReadByte(query, s, p + 1) /\ query[p + 1] = Plus
    BY <1>6, <2>1
  <2>3. h[p + 1] = e
    BY <1>1, <1>7, <2>2, PlusByte
  <2> QED
    BY <2>1, <2>3 DEF e, IsFilled
<1>8. CASE c # Space /\ IsPlain(c)
  <2>1. Coded(c) = <<c>> /\ Len(Coded(c)) = 1
    BY <1>8 DEF Coded
  <2>2. h[p + 1] = ReadByte(query, s, p + 1) /\ query[p + 1] = c
    BY <1>6, <2>1
  <2>3. c \notin {Ampersand, Equals, Plus, Percent}
    BY <1>8 DEF IsPlain, Ampersand, Equals, Plus, Percent
  <2>4. ReadByte(query, s, p + 1) = Put(s, c)
    BY <1>1, <2>2, <2>3, PlainByte
  <2> QED
    BY <1>1, <2>1, <2>2, <2>4 DEF e, IsFilled
<1>9. CASE c # Space /\ ~IsPlain(c)
  <2> DEFINE x == HexDigit(c \div 16)
             y == HexDigit(c % 16)
  <2>1. Coded(c) = <<Percent, x, y>>
    BY <1>9, Zenon DEF Coded
  <2>2. readhex(x) = c \div 16 /\ readhex(y) = c % 16
    BY ByteSplit, HexBack, ZenonT(30)
  <2>3. ByteOf(readhex(x), readhex(y)) = c
    <3>1. ~(c % 16 > 15)
      BY ByteSplit
    <3> HIDE DEF x, y
    <3>2. ByteOf(c \div 16, c % 16) = (16 * (c \div 16) + (c % 16)) % 256
      BY <3>1, Zenon DEF ByteOf
    <3> QED
      BY <2>2, <3>2, ByteSplit, ZenonT(30)
  <2> HIDE DEF x, y
  <2>4. Len(Coded(c)) = 3 /\ Coded(c)[1] = Percent /\ Coded(c)[2] = x /\ Coded(c)[3] = y
    BY <2>1
  <2>5. p + 3 <= Len(query) /\ query[p + 1] = Percent /\ query[p + 2] = x /\ query[p + 3] = y
    <3>1. 1 \in 1 .. 3 /\ 2 \in 1 .. 3 /\ 3 \in 1 .. 3
      OBVIOUS
    <3> QED
      BY <2>4, <3>1, Zenon DEF IsAt
  <2>6. /\ p + 1 \in 1 .. Len(query) /\ p + 2 \in 1 .. Len(query) /\ p + 3 \in 1 .. Len(query)
        /\ (p + 1) - 1 = p /\ (p + 2) - 1 = p + 1 /\ (p + 3) - 1 = p + 2
        /\ (p + 1) + 1 = p + 2 /\ (p + 1) + 2 = p + 3
    BY <1>4, <2>5
  <2>7. ~IsCutOff(query, p + 1)
    BY <1>4, <2>5 DEF IsCutOff
  <2>8. ReadByte(query, s, p + 1) = [e EXCEPT !.skip = 2]
    <3>1. ReadByte(query, s, p + 1) =
            [Put(s, ByteOf(readhex(query[(p + 1) + 1]), readhex(query[(p + 1) + 2]))) EXCEPT !.skip = 2]
      BY <1>1, <2>5, <2>7, PercentByte
    <3> QED
      BY <1>1, <2>3, <2>5, <2>6, <3>1, Zenon
  <2> DEFINE u == [e EXCEPT !.skip = 2]
  <2>9. ReadByte(query, ReadByte(query, u, p + 2), p + 3) = e
    <3>1. u = [e EXCEPT !.skip = 2]
      OBVIOUS
    <3> HIDE DEF u
    <3> QED
      BY <1>3, <3>1, SkipAll
  <2> HIDE DEF u
  <2>10. h[p + 1] = u
    BY <1>4, <1>5, <2>6, <2>8, Zenon DEF u
  <2>11. h[p + 2] = ReadByte(query, u, p + 2)
    BY <1>4, <2>6, <2>10
  <2>12. h[p + 3] = e
    BY <1>4, <2>6, <2>9, <2>11
  <2> QED
    BY <2>4, <2>12 DEF e, IsFilled
<1> QED
    BY <1>7, <1>8, <1>9

TextsRead(query, h, d, f, a) ==
    \A w \in ByteTexts, p \in Nat :
        IsFilled(h, p, d, f, a, <<>>) /\ IsAt(query, p, Urlencoded(w))
            => IsFilled(h, p + Len(Urlencoded(w)), d, f, a, w)

\* The code of a text is read as the text.
LEMMA TextRead ==
    ASSUME NEW query \in Seq(0 .. 255), NEW h, IsFormRun(h, query),
           NEW d \in Seq(ByteTexts \X ByteTexts), NEW f \in BOOLEAN, NEW a \in ByteTexts
    PROVE  TextsRead(query, h, d, f, a)
<1> SUFFICES ASSUME NEW w \in ByteTexts, NEW p \in Nat,
                    IsFilled(h, p, d, f, a, <<>>), IsAt(query, p, Urlencoded(w))
             PROVE  IsFilled(h, p + Len(Urlencoded(w)), d, f, a, w)
    BY Zenon DEF TextsRead
<1> DEFINE N == Len(w)
           F == [i \in 1 .. N |-> Coded(w[i])]
<1>1. w \in Seq(0 .. 255) /\ N \in Nat /\ \A i \in 1 .. N : w[i] \in 0 .. 255
  <2>1. w \in Seq(0 .. 255)
    BY DEF ByteTexts
  <2> QED
    BY <2>1, Elements
<1>2. \A i \in 1 .. N : F[i] = Coded(w[i]) /\ Coded(w[i]) \in Seq(0 .. 255)
  <2>1. ASSUME NEW i \in 1 .. N PROVE Coded(w[i]) \in Seq(0 .. 255)
    <3>1. w[i] \in 0 .. 255
      BY <1>1
    <3> QED
      BY <3>1, CodeIsText
  <2> QED
    BY <2>1
<1>3. Urlencoded(w) = FlattenSeq(F)
    BY Zenon DEF Urlencoded, Coded
<1>4. F \in [1 .. N -> Seq(0 .. 255)]
    BY <1>2
<1> HIDE DEF F, N
<1>5. PICK off : AreEnds(off, N, F)
    BY <1>1, <1>4, Pieces
<1>6. off \in [0 .. N -> Nat] /\ off[0] = 0 /\ (\A n \in 1 .. N : off[n] = off[n - 1] + Len(F[n]))
      /\ Len(FlattenSeq(F)) = off[N]
    BY <1>5, Zenon DEF AreEnds
<1>12. CodesRead(query, h, d, f, a)
    BY CodeRead
<1> DEFINE S == {n \in 0 .. N : IsFilled(h, p + off[n], d, f, a, SubSeq(w, 1, n))}
<1>7. 0 \in S
  <2>1. SubSeq(w, 1, 0) = <<>>
    BY <1>1, Whole
  <2>2. p + off[0] = p /\ 0 \in 0 .. N
    BY <1>1, <1>6
  <2>3. IsFilled(h, p + off[0], d, f, a, SubSeq(w, 1, 0))
    BY <2>1, <2>2, Zenon
  <2> QED
    BY <2>2, <2>3
<1>8. ASSUME NEW n \in 0 .. N - 1, n \in S PROVE n + 1 \in S
  <2> DEFINE o == p + off[n]
             t == SubSeq(w, 1, n)
             c == w[n + 1]
  <2>1. n + 1 \in 1 .. N /\ n + 1 \in 0 .. N /\ (n + 1) - 1 = n /\ n \in 0 .. N /\ n \in 0 .. Len(w) - 1
    BY <1>1 DEF N
  <2>2. o \in Nat /\ IsFilled(h, o, d, f, a, t)
    <3>1. off[n] \in Nat
      BY <1>6, <2>1
    <3> QED
      BY <1>8, <3>1
  <2>3. t \in ByteTexts /\ Append(t, c) = SubSeq(w, 1, n + 1)
    BY <1>1, <2>1, PrefixGrows DEF ByteTexts
  <2>4. c \in 0 .. 255 /\ F[n + 1] = Coded(c)
    BY <1>1, <1>2, <2>1
  <2>5. IsAt(query, o, F[n + 1])
    <3>1. IsAt(query, p + off[(n + 1) - 1], F[n + 1])
      <4>1. IsAt(query, p, FlattenSeq(F))
        BY <1>3
      <4> QED
        BY <1>1, <1>4, <1>5, <2>1, <4>1, PieceAt
    <3> QED
      BY <2>1, <3>1
  <2>6. p + off[n + 1] = o + Len(F[n + 1])
    <3>1. off[n + 1] = off[n] + Len(F[n + 1])
      BY <1>6, <2>1
    <3>2. off[n] \in Nat /\ Len(F[n + 1]) \in Nat
      BY <1>4, <1>6, <2>1, Z3T(30)
    <3> QED
      BY <3>1, <3>2
  <2> HIDE DEF o, t, c
  <2>7. IsFilled(h, o + Len(Coded(c)), d, f, a, Append(t, c))
    <3>1. IsAt(query, o, Coded(c)) /\ c \in 0 .. 255 /\ t \in ByteTexts /\ o \in Nat
      BY <2>2, <2>3, <2>4, <2>5
    <3> QED
      BY <1>12, <2>2, <3>1, Zenon DEF CodesRead
  <2>8. IsFilled(h, p + off[n + 1], d, f, a, SubSeq(w, 1, n + 1))
    BY <2>3, <2>4, <2>6, <2>7, Zenon
  <2> QED
    BY <2>1, <2>8
<1> HIDE DEF S
<1>9. N \in S
  <2>1. \A n \in 0 .. N - 1 : n \in S => n + 1 \in S
    BY <1>8
  <2>2. \A n \in 0 .. N : n \in S
    BY <1>1, <1>7, <2>1, InductiveTo
  <2> QED
    BY <1>1, <2>2
<1>10. IsFilled(h, p + off[N], d, f, a, SubSeq(w, 1, N))
    BY <1>9 DEF S
<1>11. SubSeq(w, 1, N) = w
    BY <1>1, Whole DEF N
<1> QED
    BY <1>3, <1>6, <1>10, <1>11, Zenon

\* What the browser writes are bytes.
LEMMA CodedIsText ==
    ASSUME NEW w \in ByteTexts PROVE Urlencoded(w) \in Seq(0 .. 255)
<1> DEFINE N == Len(w)
           F == [i \in 1 .. N |-> Coded(w[i])]
<1>1. w \in Seq(0 .. 255) /\ N \in Nat /\ \A i \in 1 .. N : w[i] \in 0 .. 255
  <2>1. w \in Seq(0 .. 255)
    BY DEF ByteTexts
  <2> QED
    BY <2>1, Elements
<1>2. ASSUME NEW i \in 1 .. N PROVE Coded(w[i]) \in Seq(0 .. 255)
  <2>1. w[i] \in 0 .. 255
    BY <1>1
  <2> QED
    BY <2>1, CodeIsText
<1>3. Urlencoded(w) = FlattenSeq(F)
    BY Zenon DEF Urlencoded, Coded
<1>4. F \in [1 .. N -> Seq(0 .. 255)]
    BY <1>2
<1> HIDE DEF F, N
<1>5. FlattenSeq(F) \in Seq(0 .. 255)
    BY <1>1, <1>4, Pieces
<1> QED
    BY <1>3, <1>5

Turns(query, i, s, e) == ReadByte(query, s, i) = e

\* between the fields, and between a name and its value
LEMMA NameEnds ==
    ASSUME NEW d \in Seq(ByteTexts \X ByteTexts), NEW a \in ByteTexts, NEW n \in ByteTexts, NEW query, NEW i, query[i] = Equals
    PROVE  Turns(query, i, Filling(d, FALSE, a, n), Filling(d, TRUE, n, <<>>))
<1> DEFINE s == Filling(d, FALSE, a, n)
           e == Filling(d, TRUE, n, <<>>)
           m == [s EXCEPT !.filling_second = TRUE]
<1>0. <<>> \in ByteTexts
    BY DEF ByteTexts
<1>1. s \in FormStates /\ s.skip = 0 /\ s.broken = FALSE /\ s.result = Append(d, <<n, <<>>>>)
    BY FillingIs, ZenonT(30) DEF IsState
<1>2. e \in FormStates /\ e.skip = 0 /\ e.broken = FALSE /\ e.filling_second = TRUE /\ e.result = Append(d, <<n, <<>>>>)
  <2>1. IsState(Filling(d, TRUE, n, <<>>), TRUE, Append(d, <<n, <<>>>>))
    BY <1>0, FillingIs
  <2> QED
    BY <2>1 DEF IsState
<1> HIDE DEF s, e
<1>3. m \in FormStates /\ SameStates(m, e)
    BY <1>1, <1>2 DEF FormStates, SameStates
<1>4. ReadByte(query, s, i) = m
  <2>1. Reads(s)
    BY <1>1 DEF Reads
  <2> HIDE DEF m
  <2>2. ReadByte(query, s, i) = [s EXCEPT !.filling_second = TRUE]
    BY <2>1, EqualsByte
  <2> QED
    BY <2>2 DEF m
<1> HIDE DEF m
<1>5. m = e
    BY <1>2, <1>3, SameState
<1> QED
    BY <1>4, <1>5 DEF s, e, Turns

\* An ampersand ends a field, which is kept.
LEMMA FieldEnds ==
    ASSUME NEW d \in Seq(ByteTexts \X ByteTexts), NEW n \in ByteTexts, NEW v \in ByteTexts, NEW query, NEW i, query[i] = Ampersand
    PROVE  /\ Append(d, <<n, v>>) \in Seq(ByteTexts \X ByteTexts)
           /\ Turns(query, i, Filling(d, TRUE, n, v), Filling(Append(d, <<n, v>>), FALSE, <<>>, <<>>))
<1> DEFINE s == Filling(d, TRUE, n, v)
           c == Append(d, <<n, v>>)
           e == Filling(c, FALSE, <<>>, <<>>)
           m == [s EXCEPT !.result = Append(@, <<<<>>, <<>>>>), !.filling_second = FALSE]
<1>0. <<>> \in ByteTexts
    BY DEF ByteTexts
<1>1. s \in FormStates /\ s.skip = 0 /\ s.broken = FALSE /\ s.result = Append(d, <<n, v>>)
    BY FillingIs, ZenonT(30) DEF IsState
<1>2. c \in Seq(ByteTexts \X ByteTexts)
  <2> DEFINE P == ByteTexts \X ByteTexts
  <2>1. <<n, v>> \in P
    OBVIOUS
  <2> HIDE DEF P
  <2>2. d \in Seq(P)
    BY DEF P
  <2>3. Append(d, <<n, v>>) \in Seq(P)
    BY <2>1, <2>2
  <2> QED
    BY <2>3 DEF P
<1> HIDE DEF c
<1>3. e \in FormStates /\ e.skip = 0 /\ e.broken = FALSE /\ e.filling_second = FALSE /\ e.result = Append(c, <<<<>>, <<>>>>)
  <2>1. IsState(Filling(c, FALSE, <<>>, <<>>), FALSE, Append(c, <<<<>>, <<>>>>))
    BY <1>0, <1>2, FillingIs
  <2> QED
    BY <2>1 DEF IsState
<1>4. s.result = c
    BY <1>1 DEF c
<1> HIDE DEF s, e
<1>5. Append(c, <<<<>>, <<>>>>) \in Seq(ByteTexts \X ByteTexts)
    BY <1>3 DEF FormStates
<1> DEFINE z == Append(c, <<<<>>, <<>>>>)
<1>6. m = [s EXCEPT !.result = z, !.filling_second = FALSE]
    BY <1>4
<1> HIDE DEF z
<1>7. z \in Seq(ByteTexts \X ByteTexts) /\ e.result = z
    BY <1>3, <1>5 DEF z
<1>8. m \in FormStates /\ SameStates(m, e)
  <2> HIDE DEF m
  <2>1. m.result = z /\ m.filling_second = FALSE /\ m.skip = s.skip /\ m.broken = s.broken /\ m \in FormStates
    BY <1>1, <1>6, <1>7 DEF FormStates
  <2> QED
    BY <1>1, <1>3, <1>7, <2>1 DEF SameStates
<1>9. ReadByte(query, s, i) = m
  <2>1. Reads(s)
    BY <1>1 DEF Reads
  <2> QED
    BY <2>1, AmpersandByte
<1> HIDE DEF m
<1>10. m = e
    BY <1>3, <1>8, SameState
<1> QED
    BY <1>2, <1>9, <1>10 DEF s, e, c, Turns

\* a field, after what comes before it, is in a query from p on
IsFieldAt(query, p, x, n, v) ==
    /\ IsAt(query, p, x)
    /\ IsAt(query, p + Len(x), Urlencoded(n))
    /\ IsAt(query, p + Len(x) + Len(Urlencoded(n)), <<Equals>>)
    /\ IsAt(query, p + Len(x) + Len(Urlencoded(n)) + 1, Urlencoded(v))

FieldText(x, n, v) == x \o Urlencoded(n) \o <<Equals>> \o Urlencoded(v)

\* The parts of a field, in a query.
LEMMA FieldAt ==
    ASSUME NEW query \in Seq(0 .. 255), NEW p \in Nat, NEW x \in Seq(0 .. 255), NEW n \in ByteTexts, NEW v \in ByteTexts
    PROVE  /\ FieldText(x, n, v) \in Seq(0 .. 255)
           /\ Len(FieldText(x, n, v)) = Len(x) + Len(Urlencoded(n)) + 1 + Len(Urlencoded(v))
           /\ IsAt(query, p, FieldText(x, n, v)) => IsFieldAt(query, p, x, n, v)
<1> DEFINE y == Urlencoded(n)
           e == <<Equals>>
           z == Urlencoded(v)
           B == 0 .. 255
           a == x \o y
           b == a \o e
<1>1. x \in Seq(B) /\ y \in Seq(B) /\ e \in Seq(B) /\ z \in Seq(B) /\ Len(e) = 1
    BY CodedIsText DEF Equals
<1>2. FieldText(x, n, v) = b \o z
    BY Zenon DEF FieldText
<1> HIDE DEF y, e, z, B
<1>3. a \in Seq(B) /\ Len(a) = Len(x) + Len(y)
    BY <1>1
<1> HIDE DEF a
<1>4. b \in Seq(B) /\ Len(b) = Len(a) + 1
  <2>1. a \o e \in Seq(B) /\ Len(a \o e) = Len(a) + Len(e)
    BY <1>1, <1>3, Cat, Zenon
  <2> QED
    BY <1>1, <2>1
<1> HIDE DEF b
<1>5. b \o z \in Seq(B) /\ Len(b \o z) = Len(b) + Len(z)
    BY <1>1, <1>4, Cat
<1>6. query \in Seq(B)
    BY DEF B
<1>7. ASSUME IsAt(query, p, b \o z)
      PROVE  IsAt(query, p, x) /\ IsAt(query, p + Len(x), y) /\ IsAt(query, p + Len(x) + Len(y), e)
             /\ IsAt(query, p + Len(x) + Len(y) + 1, z)
  <2>1. IsAt(query, p, b) /\ IsAt(query, p + Len(b), z)
    BY <1>1, <1>4, <1>6, <1>7, PartsAt
  <2>2. IsAt(query, p, a) /\ IsAt(query, p + Len(a), e)
    BY <1>1, <1>3, <1>6, <2>1, PartsAt DEF b
  <2>3. IsAt(query, p, x) /\ IsAt(query, p + Len(x), y)
    BY <1>1, <1>6, <2>2, PartsAt DEF a
  <2>4. Len(x) \in Nat /\ Len(y) \in Nat
    BY <1>1
  <2>5. p + Len(a) = p + Len(x) + Len(y) /\ p + Len(b) = p + Len(x) + Len(y) + 1
    BY <1>3, <1>4, <2>4
  <2> QED
    BY <2>1, <2>2, <2>3, <2>5
<1>8. Len(b \o z) = Len(x) + Len(y) + 1 + Len(z)
    BY <1>1, <1>3, <1>4, <1>5
<1>9. IsAt(query, p, b \o z) => IsFieldAt(query, p, x, n, v)
    BY <1>7, Zenon DEF IsFieldAt, y, e, z
<1> QED
    BY <1>2, <1>5, <1>8, <1>9 DEF B, y, z

\* How long a field is.
LEMMA FieldLen ==
    ASSUME NEW x \in Seq(0 .. 255), NEW n \in ByteTexts, NEW v \in ByteTexts
    PROVE  Len(FieldText(x, n, v)) = Len(x) + Len(Urlencoded(n)) + 1 + Len(Urlencoded(v))
<1>1. <<>> \in Seq(0 .. 255) /\ 0 \in Nat
    OBVIOUS
<1> QED
    BY <1>1, FieldAt

FieldsRead(query, h) ==
    \A d \in Seq(ByteTexts \X ByteTexts), n \in ByteTexts, v \in ByteTexts, p \in Nat, x \in ByteTexts :
        IsFilled(h, p + Len(x), d, FALSE, <<>>, <<>>) /\ IsFieldAt(query, p, x, n, v)
            => IsFilled(h, p + Len(FieldText(x, n, v)), d, TRUE, n, v)

\* A field is read as its name and its value.
LEMMA PairRead ==
    ASSUME NEW query \in Seq(0 .. 255), NEW h, IsFormRun(h, query)
    PROVE  FieldsRead(query, h)
<1> DEFINE D == Seq(ByteTexts \X ByteTexts)
<1> SUFFICES ASSUME NEW d \in D, NEW n \in ByteTexts, NEW v \in ByteTexts, NEW p \in Nat, NEW x \in ByteTexts,
                    IsFilled(h, p + Len(x), d, FALSE, <<>>, <<>>), IsFieldAt(query, p, x, n, v)
             PROVE  IsFilled(h, p + Len(FieldText(x, n, v)), d, TRUE, n, v)
    BY Zenon DEF FieldsRead
<1>0. x \in Seq(0 .. 255)
    BY Zenon DEF ByteTexts
<1> DEFINE o == p + Len(x)
           q == o + Len(Urlencoded(n))
<1>1. Len(x) \in Nat /\ Len(Urlencoded(n)) \in Nat /\ Len(Urlencoded(v)) \in Nat /\ Len(query) \in Nat
    BY <1>0, CodedIsText
<1>2. o \in Nat /\ q \in Nat /\ q + 1 \in Nat /\ (q + 1) - 1 = q
    BY <1>1
<1>3. <<>> \in ByteTexts
    BY DEF ByteTexts
<1>4. TextsRead(query, h, d, FALSE, <<>>)
    BY <1>3, TextRead
<1>5. TextsRead(query, h, d, TRUE, n)
    BY TextRead
<1>6. /\ IsAt(query, o, Urlencoded(n)) /\ IsAt(query, q, <<Equals>>) /\ IsAt(query, q + 1, Urlencoded(v))
      /\ IsFilled(h, o, d, FALSE, <<>>, <<>>)
    BY Zenon DEF IsFieldAt
<1>7. p + Len(FieldText(x, n, v)) = (q + 1) + Len(Urlencoded(v))
  <2>1. Len(FieldText(x, n, v)) = Len(x) + Len(Urlencoded(n)) + 1 + Len(Urlencoded(v))
    BY <1>0, FieldAt
  <2> QED
    BY <1>1, <2>1
<1> HIDE DEF o, q
<1>8. IsFilled(h, q, d, FALSE, <<>>, n)
    BY <1>2, <1>4, <1>6, Zenon DEF TextsRead, q
<1>9. q + 1 \in 1 .. Len(query) /\ query[q + 1] = Equals
  <2>1. Len(<<Equals>>) = 1 /\ <<Equals>>[1] = Equals /\ 1 \in 1 .. 1
    OBVIOUS
  <2>2. q + 1 <= Len(query) /\ query[q + 1] = Equals
    BY <1>6, <2>1, Zenon DEF IsAt
  <2> QED
    BY <1>1, <1>2, <2>2
<1>10. IsFilled(h, q + 1, d, TRUE, n, <<>>)
  <2>1. h[q + 1] = ReadByte(query, h[(q + 1) - 1], q + 1)
    BY <1>9, Zenon DEF IsFormRun
  <2>2. h[q + 1] = ReadByte(query, Filling(d, FALSE, <<>>, n), q + 1)
    BY <1>2, <1>8, <2>1, Zenon DEF IsFilled
  <2>3. Turns(query, q + 1, Filling(d, FALSE, <<>>, n), Filling(d, TRUE, n, <<>>))
    BY <1>3, <1>9, NameEnds
  <2> QED
    BY <2>2, <2>3, Zenon DEF IsFilled, Turns
<1>11. IsFilled(h, (q + 1) + Len(Urlencoded(v)), d, TRUE, n, v)
    BY <1>2, <1>5, <1>6, <1>10, Zenon DEF TextsRead
<1> QED
    BY <1>7, <1>11

\* A form, however many fields it has.
LEMMA FormRead ==
    ASSUME NEW fields \in Seq(ByteTexts \X ByteTexts)
    PROVE  split_html_query(Submitted(fields)) = fields
<1> DEFINE P == ByteTexts \X ByteTexts
           N == Len(fields)
           X(i) == IF i = 1 THEN <<>> ELSE <<Ampersand>>
           T(i) == FieldText(X(i), fields[i][1], fields[i][2])
           F == [i \in 1 .. N |-> T(i)]
           query == Submitted(fields)
<1>1. N \in Nat /\ \A i \in 1 .. N : fields[i] \in P
    BY Elements
<1>2. \A i \in 1 .. N : /\ fields[i][1] \in ByteTexts /\ fields[i][2] \in ByteTexts
                        /\ fields[i] = <<fields[i][1], fields[i][2]>>
    BY <1>1
<1>3. \A i : X(i) \in Seq(0 .. 255)
  <2>1. <<>> \in Seq(0 .. 255) /\ <<Ampersand>> \in Seq(0 .. 255)
    BY DEF Ampersand
  <2> QED
    BY <2>1
<1> HIDE DEF X, N, P
<1>4. ASSUME NEW i \in 1 .. N PROVE T(i) \in Seq(0 .. 255)
    BY <1>2, <1>3, FieldAt
<1>5. query = FlattenSeq(F)
    BY Zenon DEF Submitted, FieldText, X, N
<1> HIDE DEF query, T
<1>6. F \in [1 .. N -> Seq(0 .. 255)] /\ \A i \in 1 .. N : F[i] = T(i)
    BY <1>4
<1> HIDE DEF F
<1>7. PICK off : AreEnds(off, N, F)
    BY <1>1, <1>6, Pieces
<1>8. /\ off \in [0 .. N -> Nat] /\ off[0] = 0 /\ \A n \in 1 .. N : off[n] = off[n - 1] + Len(F[n])
    BY <1>7, Zenon DEF AreEnds
<1>9. Len(query) = off[N]
    BY <1>5, <1>7, Zenon DEF AreEnds
<1>10. query \in Seq(0 .. 255) /\ Len(query) \in Nat
  <2>1. FlattenSeq(F) \in Seq(0 .. 255)
    BY <1>1, <1>6, Pieces
  <2>2. query \in Seq(0 .. 255)
    BY <1>5, <2>1
  <2> QED
    BY <2>2
<1>11. PICK h : IsFormRun(h, query)
    BY <1>10, FormRun
<1>12. ASSUME NEW n \in 1 .. N PROVE IsAt(query, off[n - 1], F[n]) /\ off[n - 1] \in Nat
  <2>1. IsAt(query, 0, FlattenSeq(F))
    <3>1. 0 + Len(query) <= Len(query) /\ \A k \in 1 .. Len(query) : 0 + k = k
      BY <1>10
    <3>2. IsAt(query, 0, query)
      BY <1>10, <3>1 DEF IsAt
    <3> QED
      BY <1>5, <3>2
  <2>2. IsAt(query, 0 + off[n - 1], F[n])
    <3>1. 0 \in Nat
      OBVIOUS
    <3> QED
      BY <1>1, <1>6, <1>7, <1>10, <2>1, <3>1, PieceAt
  <2>3. off[n - 1] \in Nat /\ 0 + off[n - 1] = off[n - 1]
    BY <1>1, <1>8
  <2> QED
    BY <2>2, <2>3
<1>13. <<>> \in ByteTexts
    BY DEF ByteTexts
<1>14. IsFilled(h, 0, <<>>, FALSE, <<>>, <<>>)
  <2>1. h[0] = FormStart
    BY <1>11 DEF IsFormRun
  <2>2. Append(<<>>, <<<<>>, <<>>>>) = <<<<<<>>, <<>>>>>>
    OBVIOUS
  <2> QED
    BY <2>1, <2>2 DEF FormStart, IsFilled, Filling
<1> DEFINE S == {i \in 0 .. N : i > 0 =>
                    IsFilled(h, off[i], SubSeq(fields, 1, i - 1), TRUE, fields[i][1], fields[i][2])}
<1>15. 0 \in S
    BY <1>1
<1>16. ASSUME NEW i \in 0 .. N - 1, i \in S PROVE i + 1 \in S
  <2> DEFINE d == SubSeq(fields, 1, i)
             p == off[i]
             x == X(i + 1)
             n == fields[i + 1][1]
             v == fields[i + 1][2]
  <2>1. i + 1 \in 1 .. N /\ i + 1 \in 0 .. N /\ (i + 1) - 1 = i /\ i \in 0 .. Len(fields) - 1 /\ i \in 0 .. N
    BY <1>1 DEF N
  <2>2. IsAt(query, p, F[i + 1]) /\ p \in Nat
    BY <1>12, <2>1
  <2>3. n \in ByteTexts /\ v \in ByteTexts /\ x \in Seq(0 .. 255) /\ F[i + 1] = FieldText(x, n, v)
    BY <1>2, <1>3, <1>6, <2>1 DEF T
  <2>4. d \in Seq(ByteTexts \X ByteTexts)
    BY <2>1, PrefixGrows
  <2> HIDE DEF d, p, x, n, v
  <2>5. IsFieldAt(query, p, x, n, v)
    BY <1>10, <2>2, <2>3, FieldAt
  <2>6. IsFilled(h, p + Len(x), d, FALSE, <<>>, <<>>)
    <3>1. CASE i = 0
      <4>1. x = <<>> /\ Len(x) = 0 /\ p = 0 /\ d = <<>> /\ p + Len(x) = 0
        <5>1. SubSeq(fields, 1, 0) = <<>>
          BY Whole
        <5> QED
          BY <1>8, <3>1, <5>1 DEF x, X, p, d
      <4> QED
        BY <1>14, <4>1
    <3>2. CASE i # 0
      <4> DEFINE j == i - 1
                 c == SubSeq(fields, 1, j)
                 m == fields[i][1]
                 w == fields[i][2]
      <4>1. i > 0 /\ i \in 1 .. N /\ i + 1 # 1 /\ j \in 0 .. Len(fields) - 1 /\ j + 1 = i
        BY <1>1, <2>1, <3>2 DEF N
      <4>2. c \in Seq(ByteTexts \X ByteTexts) /\ Append(c, fields[i]) = d
        <5>1. c \in Seq(ByteTexts \X ByteTexts) /\ Append(c, fields[j + 1]) = SubSeq(fields, 1, j + 1)
          <6> HIDE DEF j
          <6> QED
            BY <4>1, PrefixGrows
        <5> QED
          BY <4>1, <5>1 DEF d
      <4>3. m \in ByteTexts /\ w \in ByteTexts /\ fields[i] = <<m, w>>
        BY <1>2, <4>1
      <4>4. IsFilled(h, p, c, TRUE, m, w)
        BY <1>16, <4>1 DEF p
      <4>5. x = <<Ampersand>> /\ Len(x) = 1 /\ x[1] = Ampersand
        BY <4>1 DEF x, X
      <4> HIDE DEF c, m, w, j
      <4>6. p + 1 \in 1 .. Len(query) /\ query[p + 1] = Ampersand /\ (p + 1) - 1 = p
        <5>1. p + 1 <= Len(query) /\ query[p + 1] = Ampersand
          <6>1. 1 \in 1 .. 1
            OBVIOUS
          <6> QED
            BY <2>5, <4>5, <6>1, Zenon DEF IsFieldAt, IsAt
        <5> QED
          BY <1>10, <2>2, <5>1
      <4>7. h[p + 1] = ReadByte(query, Filling(c, TRUE, m, w), p + 1)
        <5>1. h[p + 1] = ReadByte(query, h[(p + 1) - 1], p + 1)
          BY <1>11, <4>6, Zenon DEF IsFormRun
        <5> QED
          BY <4>4, <4>6, <5>1, Zenon DEF IsFilled
      <4>8. Turns(query, p + 1, Filling(c, TRUE, m, w), Filling(Append(c, <<m, w>>), FALSE, <<>>, <<>>))
        BY <4>2, <4>3, <4>6, FieldEnds
      <4>9. Append(c, <<m, w>>) = d
        BY <4>2, <4>3
      <4> QED
        BY <4>5, <4>7, <4>8, <4>9, Zenon DEF IsFilled, Turns
    <3> QED
      BY <3>1, <3>2
  <2>7. IsFilled(h, p + Len(FieldText(x, n, v)), d, TRUE, n, v)
    <3>1. FieldsRead(query, h)
      BY <1>10, <1>11, PairRead
    <3>2. x \in ByteTexts
      BY <2>2, <2>3, <2>4, <2>5, Zenon DEF ByteTexts
    <3> QED
      BY <2>2, <2>3, <2>4, <2>5, <2>6, <3>1, <3>2, Zenon DEF FieldsRead
  <2>8. off[i + 1] = p + Len(FieldText(x, n, v))
    BY <1>8, <2>1, <2>3 DEF p
  <2>9. IsFilled(h, off[i + 1], SubSeq(fields, 1, (i + 1) - 1), TRUE, fields[i + 1][1], fields[i + 1][2])
    BY <2>1, <2>7, <2>8, Zenon DEF d, n, v
  <2> QED
    BY <2>1, <2>9
<1> HIDE DEF S
<1>17. N \in S
  <2>1. \A n \in 0 .. N - 1 : n \in S => n + 1 \in S
    BY <1>16
  <2>2. \A n \in 0 .. N : n \in S
    BY <1>1, <1>15, <2>1, InductiveTo
  <2> QED
    BY <1>1, <2>2
<1>18. CASE N = 0
  <2>1. fields = <<>>
    BY <1>18 DEF N
  <2>2. query = <<>>
    BY <1>8, <1>9, <1>10, <1>18
  <2>3. split_html_query(query) = <<>>
    BY <1>11, <2>2, Zenon DEF IsFormRun
  <2> QED
    BY <2>1, <2>3 DEF query
<1>19. CASE N > 0
  <2> DEFINE e == Filling(SubSeq(fields, 1, N - 1), TRUE, fields[N][1], fields[N][2])
  <2>1. N \in 1 .. N /\ N - 1 \in 0 .. Len(fields) - 1 /\ (N - 1) + 1 = N
    BY <1>1, <1>19 DEF N
  <2>2. h[Len(query)] = e
    BY <1>9, <1>17, <1>19 DEF S, IsFilled
  <2>3. SubSeq(fields, 1, N - 1) \in Seq(ByteTexts \X ByteTexts) /\ Append(SubSeq(fields, 1, N - 1), fields[N]) = fields
    <3>1. /\ SubSeq(fields, 1, N - 1) \in Seq(ByteTexts \X ByteTexts)
          /\ Append(SubSeq(fields, 1, N - 1), fields[(N - 1) + 1]) = SubSeq(fields, 1, (N - 1) + 1)
      <4> DEFINE k == N - 1
      <4>1. k \in 0 .. Len(fields) - 1
        BY <2>1
      <4> HIDE DEF k
      <4>2. SubSeq(fields, 1, k) \in Seq(ByteTexts \X ByteTexts) /\ Append(SubSeq(fields, 1, k), fields[k + 1]) = SubSeq(fields, 1, k + 1)
        BY <4>1, PrefixGrows
      <4> QED
        BY <4>2 DEF k
    <3>2. SubSeq(fields, 1, N) = fields
      BY Whole DEF N
    <3> QED
      BY <2>1, <3>1, <3>2
  <2>4. e.broken = FALSE /\ e.result = Append(SubSeq(fields, 1, N - 1), <<fields[N][1], fields[N][2]>>)
    BY DEF Filling
  <2>5. e.result = fields
    BY <1>2, <2>1, <2>3, <2>4
  <2>6. query # <<>>
    <3>1. Len(F[N]) >= 1 /\ off[N - 1] \in Nat /\ off[N] = off[N - 1] + Len(F[N])
      <4>1. F[N] = T(N) /\ off[N] = off[N - 1] + Len(F[N]) /\ off[N - 1] \in Nat
        BY <1>6, <1>8, <1>12, <2>1
      <4>2. Len(T(N)) = Len(X(N)) + Len(Urlencoded(fields[N][1])) + 1 + Len(Urlencoded(fields[N][2]))
        BY <1>2, <1>3, <2>1, FieldLen DEF T
      <4>3. Len(X(N)) \in Nat /\ Len(Urlencoded(fields[N][1])) \in Nat /\ Len(Urlencoded(fields[N][2])) \in Nat
        BY <1>2, <1>3, <2>1, CodedIsText
      <4> QED
        BY <4>1, <4>2, <4>3
    <3> QED
      BY <1>9, <1>10, <3>1
  <2>7. split_html_query(query) = IF query = <<>> \/ h[Len(query)].broken THEN <<>> ELSE h[Len(query)].result
    BY <1>11, Zenon DEF IsFormRun
  <2> HIDE DEF e
  <2>8. split_html_query(query) = fields
    BY <2>2, <2>4, <2>5, <2>6, <2>7
  <2> QED
    BY <2>8 DEF query
<1> QED
  <2>1. N = 0 \/ N > 0
    BY <1>1
  <2> QED
    BY <1>18, <1>19, <2>1

\* Whatever characters the fields of a form have, the server reads what was
\* entered.
THEOREM FormsAreReadHolds == CallSpec => []FormsAreRead
<1>1. CallInv => FormsAreRead
  <2> SUFFICES ASSUME CallInv, Called("form"), result # NotYet PROVE result = call[2]
    BY Zenon DEF FormsAreRead
  <2>1. call[2] \in Seq(ByteTexts \X ByteTexts)
    <3>1. call[2] \in Forms
      BY Asked DEF CallInv
    <3> QED
      BY <3>1, FormAssumption DEF ByteTexts
  <2>2. result = split_html_query(Submitted(call[2]))
    BY Zenon DEF CallInv, Outcome
  <2> QED
    BY <2>1, <2>2, FormRead
<1> QED
    BY <1>1, CallInvHolds, PTL

-----------------------------------------------------------------------------
(* Addresses *)

Symbols == Nat \cup {Colon}

\* t is the numbers s with a colon between each two
AreColons(t, s) ==
    /\ Len(t) = IF Len(s) = 0 THEN 0 ELSE 2 * Len(s) - 1
    /\ \A j \in 1 .. Len(s) : t[2 * j - 1] = s[j]
    /\ \A j \in 1 .. Len(s) - 1 : t[2 * j] = Colon

\* What Colons puts where.
LEMMA ColonsAre ==
    ASSUME NEW s \in Seq(Nat)
    PROVE  Colons(s) \in Seq(Symbols) /\ AreColons(Colons(s), s)
<1> DEFINE N == Len(s)
           F == [i \in 1 .. N |-> IF i = 1 THEN <<s[i]>> ELSE <<Colon, s[i]>>]
           t == FlattenSeq(F)
<1>1. N \in Nat /\ \A i \in 1 .. N : s[i] \in Symbols /\ Colon \in Symbols
    BY DEF Symbols
<1>2. \A i \in 1 .. N : F[i] = IF i = 1 THEN <<s[i]>> ELSE <<Colon, s[i]>>
    OBVIOUS
<1>3. F \in [1 .. N -> Seq(Symbols)]
  <2>1. ASSUME NEW i \in 1 .. N PROVE (IF i = 1 THEN <<s[i]>> ELSE <<Colon, s[i]>>) \in Seq(Symbols)
    <3> DEFINE a == s[i]
               S == Symbols
    <3>1. a \in S /\ Colon \in S
      BY <1>1, <2>1
    <3> HIDE DEF a, S
    <3>2. <<a>> \in Seq(S) /\ <<Colon, a>> \in Seq(S)
      BY <3>1
    <3> QED
      BY <3>2 DEF a, S
  <2> QED
    BY <2>1
<1>4. Colons(s) = t
    BY Zenon DEF Colons
<1> HIDE DEF F, N
<1>5. t \in Seq(Symbols) /\ \E off : AreEnds(off, N, F)
    BY <1>1, <1>3, Pieces
<1>6. PICK off : AreEnds(off, N, F)
    BY <1>5
<1> HIDE DEF t
<1>7. /\ off \in [0 .. N -> Nat] /\ off[0] = 0 /\ Len(t) = off[N]
      /\ \A n \in 1 .. N : off[n] = off[n - 1] + Len(F[n])
      /\ \A n \in 1 .. N : \A k \in 1 .. Len(F[n]) : t[off[n - 1] + k] = F[n][k]
    BY <1>6, Zenon DEF AreEnds, t
<1>8. \A n \in 0 .. N : off[n] = IF n = 0 THEN 0 ELSE 2 * n - 1
  <2> DEFINE S == {n \in Nat : off[n] = IF n = 0 THEN 0 ELSE 2 * n - 1}
  <2>1. 0 \in S
    BY <1>7
  <2>2. ASSUME NEW n \in 0 .. N - 1, n \in S PROVE n + 1 \in S
    <3>1. n + 1 \in 1 .. N /\ (n + 1) - 1 = n /\ n + 1 \in Nat
      BY <1>1
    <3>2. Len(F[n + 1]) = IF n = 0 THEN 1 ELSE 2
      <4>1. n + 1 = 1 <=> n = 0
        OBVIOUS
      <4>2. F[n + 1] = IF n = 0 THEN <<s[n + 1]>> ELSE <<Colon, s[n + 1]>>
        BY <1>2, <3>1, <4>1
      <4> QED
        BY <4>2
    <3>3. off[n + 1] = off[n] + Len(F[n + 1])
      BY <1>7, <3>1
    <3>4. off[n] = IF n = 0 THEN 0 ELSE 2 * n - 1
      BY <2>2
    <3>5. off[n + 1] = 2 * (n + 1) - 1
      BY <3>2, <3>3, <3>4
    <3> QED
      BY <3>1, <3>5
  <2> HIDE DEF S
  <2>3. \A n \in 0 .. N - 1 : n \in S => n + 1 \in S
    BY <2>2
  <2>4. \A n \in 0 .. N : n \in S
    BY <1>1, <2>1, <2>3, InductiveTo
  <2> QED
    BY <2>4 DEF S
<1>9. ASSUME NEW j \in 1 .. N PROVE t[2 * j - 1] = s[j]
  <2>1. j - 1 \in 0 .. N /\ (j - 1 = 0 <=> j = 1)
    BY <1>1
  <2>2. CASE j = 1
    <3>1. F[1] = <<s[1]>> /\ off[0] = 0 /\ 1 \in 1 .. N
      BY <1>2, <1>7, <2>2
    <3>2. Len(F[1]) = 1 /\ F[1][1] = s[1] /\ 1 - 1 = 0 /\ 0 + 1 = 1 /\ 1 \in 1 .. 1
      BY <3>1
    <3>3. t[off[1 - 1] + 1] = F[1][1]
      BY <1>7, <3>1, <3>2
    <3> QED
      BY <2>2, <3>1, <3>2, <3>3
  <2>3. CASE j # 1
    <3>1. F[j] = <<Colon, s[j]>> /\ off[j - 1] = 2 * (j - 1) - 1
      BY <1>2, <1>8, <2>1, <2>3
    <3>2. Len(F[j]) = 2 /\ F[j][2] = s[j] /\ 2 \in 1 .. 2
      BY <3>1
    <3>3. t[off[j - 1] + 2] = F[j][2]
      BY <1>7, <3>2
    <3>4. off[j - 1] + 2 = 2 * j - 1
      BY <3>1
    <3> QED
      BY <3>2, <3>3, <3>4
  <2> QED
    BY <2>2, <2>3
<1>10. ASSUME NEW j \in 1 .. N - 1 PROVE t[2 * j] = Colon
  <2>1. j + 1 \in 1 .. N /\ (j + 1) - 1 = j /\ j \in 0 .. N /\ j # 0 /\ j + 1 # 1
    BY <1>1
  <2>2. F[j + 1] = <<Colon, s[j + 1]>> /\ off[j] = 2 * j - 1
    BY <1>2, <1>8, <2>1
  <2>3. Len(F[j + 1]) = 2 /\ F[j + 1][1] = Colon /\ 1 \in 1 .. 2
    BY <2>2
  <2>4. t[off[j] + 1] = Colon
    BY <1>7, <2>1, <2>3
  <2>5. off[j] + 1 = 2 * j
    BY <2>2
  <2> QED
    BY <2>4, <2>5
<1>11. Len(t) = IF N = 0 THEN 0 ELSE 2 * N - 1
    BY <1>1, <1>7, <1>8
<1> QED
    BY <1>4, <1>5, <1>9, <1>10, <1>11 DEF AreColons, N

\* Every place is an odd one or an even one.
LEMMA OddOrEven ==
    ASSUME NEW k \in Nat \ {0}
    PROVE  \E j \in Nat \ {0} : k = 2 * j - 1 \/ k = 2 * j
<1> DEFINE S == {i \in Nat : \E j \in Nat \ {0} : i + 1 = 2 * j - 1 \/ i + 1 = 2 * j}
<1>1. 0 \in S
  <2>1. 1 \in Nat \ {0} /\ 0 + 1 = 2 * 1 - 1
    OBVIOUS
  <2> QED
    BY <2>1
<1>2. ASSUME NEW i \in S PROVE i + 1 \in S
  <2>1. PICK j \in Nat \ {0} : i + 1 = 2 * j - 1 \/ i + 1 = 2 * j
    OBVIOUS
  <2>2. i + 1 \in Nat
    OBVIOUS
  <2>3. CASE i + 1 = 2 * j - 1
    <3>1. (i + 1) + 1 = 2 * j
      BY <2>3
    <3> QED
      BY <2>2, <3>1
  <2>4. CASE i + 1 = 2 * j
    <3>1. (i + 1) + 1 = 2 * (j + 1) - 1 /\ j + 1 \in Nat \ {0}
      BY <2>4
    <3> QED
      BY <2>2, <3>1
  <2> QED
    BY <2>1, <2>3, <2>4
<1>3. S \in SUBSET Nat
    OBVIOUS
<1>4. k - 1 \in Nat /\ (k - 1) + 1 = k
    OBVIOUS
<1> HIDE DEF S
<1>5. k - 1 \in S
    BY <1>1, <1>2, <1>3, <1>4, Inductive
<1> QED
    BY <1>4, <1>5 DEF S

\* There is one text that is these numbers with colons between them.
LEMMA OnlyColons ==
    ASSUME NEW A, NEW B, NEW t \in Seq(A), NEW u \in Seq(B), NEW s \in Seq(Nat),
           AreColons(t, s), AreColons(u, s)
    PROVE  t = u
<1>1. Len(s) \in Nat /\ Len(t) \in Nat
    OBVIOUS
<1>2. /\ Len(t) = IF Len(s) = 0 THEN 0 ELSE 2 * Len(s) - 1
      /\ \A j \in 1 .. Len(s) : t[2 * j - 1] = s[j]
      /\ \A j \in 1 .. Len(s) - 1 : t[2 * j] = Colon
    BY DEF AreColons
<1>3. /\ Len(u) = IF Len(s) = 0 THEN 0 ELSE 2 * Len(s) - 1
      /\ \A j \in 1 .. Len(s) : u[2 * j - 1] = s[j]
      /\ \A j \in 1 .. Len(s) - 1 : u[2 * j] = Colon
    BY DEF AreColons
<1>4. ASSUME NEW k \in 1 .. Len(t) PROVE t[k] = u[k]
  <2>0. k \in Nat \ {0}
    BY <1>1
  <2>1. PICK j \in Nat \ {0} : k = 2 * j - 1 \/ k = 2 * j
    BY <2>0, OddOrEven
  <2>2. CASE k = 2 * j - 1
    <3>1. j \in 1 .. Len(s)
      BY <1>1, <1>2, <2>2
    <3> QED
      BY <1>2, <1>3, <2>2, <3>1
  <2>3. CASE k = 2 * j
    <3>1. j \in 1 .. Len(s) - 1
      BY <1>1, <1>2, <2>3
    <3> QED
      BY <1>2, <1>3, <2>3, <3>1
  <2> QED
    BY <2>1, <2>2, <2>3
<1>5. AreSame(t, u)
    BY <1>2, <1>3, <1>4 DEF AreSame
<1> QED
    BY <1>5, SameSeq

\* t is the numbers x, what skips zeros, and the numbers y
IsShort(t, x, y) ==
    LET n == SkipAt(Len(x))
    IN  /\ Len(t) = n + (IF Len(y) = 0 THEN 1 ELSE 2 * Len(y))
        /\ Len(x) = 0 => t[1] = Colon
        /\ \A j \in 1 .. Len(x) : t[2 * j - 1] = x[j] /\ t[2 * j] = Colon
        /\ Len(y) = 0 => t[n + 1] = Colon
        /\ \A j \in 1 .. Len(y) : t[n + 2 * j - 1] = Colon /\ t[n + 2 * j] = y[j]

\* There is one such text.
LEMMA OnlyShort ==
    ASSUME NEW A, NEW B, NEW t \in Seq(A), NEW u \in Seq(B), NEW x \in Seq(Nat), NEW y \in Seq(Nat),
           IsShort(t, x, y), IsShort(u, x, y)
    PROVE  t = u
<1> DEFINE K == Len(x)
           M == Len(y)
           n == SkipAt(K)
<1>1. K \in Nat /\ M \in Nat /\ Len(t) \in Nat /\ n \in Nat /\ n = IF K = 0 THEN 1 ELSE 2 * K
    BY DEF SkipAt
<1>2. /\ Len(t) = n + (IF M = 0 THEN 1 ELSE 2 * M)
      /\ K = 0 => t[1] = Colon
      /\ \A j \in 1 .. K : t[2 * j - 1] = x[j] /\ t[2 * j] = Colon
      /\ M = 0 => t[n + 1] = Colon
      /\ \A j \in 1 .. M : t[n + 2 * j - 1] = Colon /\ t[n + 2 * j] = y[j]
    BY Zenon DEF IsShort
<1>3. /\ Len(u) = n + (IF M = 0 THEN 1 ELSE 2 * M)
      /\ K = 0 => u[1] = Colon
      /\ \A j \in 1 .. K : u[2 * j - 1] = x[j] /\ u[2 * j] = Colon
      /\ M = 0 => u[n + 1] = Colon
      /\ \A j \in 1 .. M : u[n + 2 * j - 1] = Colon /\ u[n + 2 * j] = y[j]
    BY Zenon DEF IsShort
<1> HIDE DEF K, M, n
<1>4. ASSUME NEW k \in 1 .. Len(t) PROVE t[k] = u[k]
  <2>1. CASE k <= n /\ K = 0
    <3>1. k = 1
      BY <1>1, <2>1
    <3> QED
      BY <1>2, <1>3, <2>1, <3>1
  <2>2. CASE k <= n /\ K # 0
    <3>0. k \in Nat \ {0}
      BY <1>1
    <3>1. PICK j \in Nat \ {0} : k = 2 * j - 1 \/ k = 2 * j
      BY <3>0, OddOrEven
    <3>2. j \in 1 .. K
      BY <1>1, <2>2, <3>1
    <3>3. t[2 * j - 1] = u[2 * j - 1] /\ t[2 * j] = u[2 * j]
      BY <1>2, <1>3, <3>2
    <3> QED
      BY <3>1, <3>3
  <2>3. CASE ~(k <= n) /\ M = 0
    <3>1. k = n + 1
      BY <1>1, <1>2, <2>3
    <3> QED
      BY <1>2, <1>3, <2>3, <3>1
  <2>4. CASE ~(k <= n) /\ M # 0
    <3>1. k - n \in Nat \ {0}
      BY <1>1, <2>4
    <3>2. PICK j \in Nat \ {0} : k - n = 2 * j - 1 \/ k - n = 2 * j
      BY <3>1, OddOrEven
    <3>3. j \in 1 .. M /\ (k = n + 2 * j - 1 \/ k = n + 2 * j)
      BY <1>1, <1>2, <2>4, <3>2
    <3>4. t[n + 2 * j - 1] = u[n + 2 * j - 1] /\ t[n + 2 * j] = u[n + 2 * j]
      BY <1>2, <1>3, <3>3
    <3> QED
      BY <3>3, <3>4
  <2> QED
    BY <2>1, <2>2, <2>3, <2>4
<1>5. AreSame(t, u)
    BY <1>2, <1>3, <1>4 DEF AreSame
<1> QED
    BY <1>5, SameSeq

ShortText(x, y) == Colons(x) \o <<Colon, Colon>> \o Colons(y)

\* It is what an address with zeros left out is written as.
LEMMA ShortIs ==
    ASSUME NEW x \in Seq(Nat), NEW y \in Seq(Nat)
    PROVE  ShortText(x, y) \in Seq(Symbols) /\ IsShort(ShortText(x, y), x, y)
<1> DEFINE K == Len(x)
           M == Len(y)
           n == SkipAt(K)
           a == Colons(x)
           b == Colons(y)
           c == <<Colon, Colon>>
           d == a \o c
           t == d \o b
           S == Symbols
<1>1. K \in Nat /\ M \in Nat /\ n = IF K = 0 THEN 1 ELSE 2 * K
    BY DEF SkipAt
<1>2. a \in Seq(S) /\ b \in Seq(S) /\ c \in Seq(S) /\ Len(c) = 2 /\ c[1] = Colon /\ c[2] = Colon
    BY ColonsAre DEF Symbols
<1>3. /\ Len(a) = IF K = 0 THEN 0 ELSE 2 * K - 1
      /\ \A j \in 1 .. K : a[2 * j - 1] = x[j]
      /\ \A j \in 1 .. K - 1 : a[2 * j] = Colon
    BY ColonsAre, Zenon DEF AreColons
<1>4. /\ Len(b) = IF M = 0 THEN 0 ELSE 2 * M - 1
      /\ \A j \in 1 .. M : b[2 * j - 1] = y[j]
      /\ \A j \in 1 .. M - 1 : b[2 * j] = Colon
    BY ColonsAre, Zenon DEF AreColons
<1>5. ShortText(x, y) = t
    BY Zenon DEF ShortText
<1> HIDE DEF a, b, c, S, K, M, n
<1>6. /\ d \in Seq(S) /\ Len(d) = Len(a) + Len(c) /\ \A k \in 1 .. Len(a) : d[k] = a[k]
      /\ \A k \in 1 .. Len(c) : d[Len(a) + k] = c[k]
  <2>1. a \in Seq(S) /\ c \in Seq(S)
    BY <1>2
  <2> QED
    BY <2>1, Cat
<1> HIDE DEF d
<1>7. /\ t \in Seq(S) /\ Len(t) = Len(d) + Len(b) /\ \A k \in 1 .. Len(d) : t[k] = d[k]
      /\ \A k \in 1 .. Len(b) : t[Len(d) + k] = b[k]
  <2>1. d \in Seq(S) /\ b \in Seq(S)
    BY <1>2, <1>6
  <2> QED
    BY <2>1, Cat
<1> HIDE DEF t
<1>8. n = Len(a) + 1 /\ Len(d) = n + 1 /\ n \in Nat \ {0}
    BY <1>1, <1>2, <1>3, <1>6
<1>9. \A k \in 1 .. n - 1 : t[k] = a[k]
    BY <1>6, <1>7, <1>8
<1>10. t[n] = Colon /\ t[n + 1] = Colon
  <2>1. n \in 1 .. Len(d) /\ n + 1 \in 1 .. Len(d) /\ n = Len(a) + 1 /\ n + 1 = Len(a) + 2
    BY <1>3, <1>1, <1>8
  <2>2. 1 \in 1 .. Len(c) /\ 2 \in 1 .. Len(c)
    BY <1>2
  <2>3. d[n] = Colon /\ d[n + 1] = Colon
    BY <1>2, <1>6, <2>1, <2>2
  <2> QED
    BY <1>7, <2>1, <2>3
<1>11. \A k \in 1 .. Len(b) : t[(n + 1) + k] = b[k]
    BY <1>7, <1>8
<1>12. ASSUME NEW j \in 1 .. K PROVE t[2 * j - 1] = x[j] /\ t[2 * j] = Colon
  <2>1. 2 * j - 1 \in 1 .. n - 1
    BY <1>1, <1>12
  <2>2. t[2 * j - 1] = x[j]
    BY <1>3, <1>9, <2>1
  <2>3. CASE j = K
    <3>1. 2 * j = n
      BY <1>1, <2>3
    <3> QED
      BY <1>10, <2>2, <3>1
  <2>4. CASE j # K
    <3>1. j \in 1 .. K - 1 /\ 2 * j \in 1 .. n - 1
      BY <1>1, <2>4
    <3>2. a[2 * j] = Colon /\ t[2 * j] = a[2 * j]
      BY <1>3, <1>9, <3>1
    <3> QED
      BY <2>2, <3>2
  <2> QED
    BY <2>3, <2>4
<1>13. ASSUME NEW j \in 1 .. M PROVE t[n + 2 * j - 1] = Colon /\ t[n + 2 * j] = y[j]
  <2>1. 2 * j - 1 \in 1 .. Len(b) /\ (n + 1) + (2 * j - 1) = n + 2 * j
    BY <1>1, <1>4, <1>8
  <2>2. t[(n + 1) + (2 * j - 1)] = b[2 * j - 1]
    BY <1>11, <2>1
  <2>3. t[n + 2 * j] = y[j]
    BY <1>4, <2>1, <2>2
  <2>4. CASE j = 1
    <3>1. n + 2 * j - 1 = n + 1
      BY <1>8, <2>4
    <3> QED
      BY <1>10, <2>3, <3>1
  <2>5. CASE j # 1
    <3>1. /\ j - 1 \in 1 .. M - 1 /\ 2 * (j - 1) \in 1 .. Len(b)
          /\ (n + 1) + 2 * (j - 1) = n + 2 * j - 1
      BY <1>1, <1>4, <1>8, <2>5
    <3>2. t[(n + 1) + 2 * (j - 1)] = b[2 * (j - 1)]
      BY <1>11, <3>1
    <3>3. b[2 * (j - 1)] = Colon
      BY <1>4, <3>1
    <3> QED
      BY <2>3, <3>1, <3>2, <3>3
  <2> QED
    BY <2>4, <2>5
<1>14. Len(t) = n + (IF M = 0 THEN 1 ELSE 2 * M)
  <2>1. Len(t) = (n + 1) + Len(b)
    BY <1>7, <1>8
  <2>2. CASE M = 0
    <3>1. Len(b) = 0
      BY <1>4, <2>2
    <3> QED
      BY <1>8, <2>1, <2>2, <3>1
  <2>3. CASE M # 0
    <3>1. Len(b) = 2 * M - 1
      BY <1>4, <2>3
    <3>2. M \in Nat /\ n \in Nat
      BY <1>1, <1>8
    <3>3. Len(t) = n + 2 * M
      BY <2>1, <3>1, <3>2
    <3> QED
      BY <2>3, <3>3
  <2> QED
    BY <2>2, <2>3
<1>15. K = 0 => t[1] = Colon
    BY <1>1, <1>10
<1>16. IsShort(t, x, y)
    BY <1>10, <1>12, <1>13, <1>14, <1>15, Zenon DEF IsShort, K, M, n
<1> QED
    BY <1>5, <1>7, <1>16, Zenon DEF S

\* Odd and even places.
LEMMA Parity ==
    ASSUME NEW j \in Nat \ {0}
    PROVE  (2 * j - 1) % 2 = 1 /\ (2 * j) % 2 = 0
    OBVIOUS

\* numbers and colons by turns
Alternates(u, k) == \A j \in 1 .. k : IsInt6(u[2 * j - 1]) /\ u[2 * j] = Colon

\* reg_6LFT_rep, by pairs
LEMMA LeftIs ==
    ASSUME NEW A, NEW u \in Seq(A), NEW k \in Nat
    PROVE  IsLeft(u, k) <=> Len(u) = 2 * k /\ Alternates(u, k)
<1>1. ASSUME IsLeft(u, k) PROVE Len(u) = 2 * k /\ Alternates(u, k)
  <2>1. /\ Len(u) = 2 * k
        /\ \A i \in 1 .. Len(u) : IF i % 2 = 1 THEN IsInt6(u[i]) ELSE u[i] = Colon
    BY <1>1, Zenon DEF IsLeft
  <2>2. ASSUME NEW j \in 1 .. k PROVE IsInt6(u[2 * j - 1]) /\ u[2 * j] = Colon
    <3>1. 2 * j - 1 \in 1 .. Len(u) /\ 2 * j \in 1 .. Len(u) /\ j \in Nat \ {0}
      BY <2>1
    <3>2. (2 * j - 1) % 2 = 1 /\ (2 * j) % 2 = 0
      BY <3>1, Parity
    <3>3. (2 * j) % 2 # 1
      BY <3>2
    <3> QED
      BY <2>1, <3>1, <3>2, <3>3, Zenon
  <2> QED
    BY <2>1, <2>2, Zenon DEF Alternates
<1>2. ASSUME Len(u) = 2 * k, Alternates(u, k) PROVE IsLeft(u, k)
  <2>1. \A j \in 1 .. k : IsInt6(u[2 * j - 1]) /\ u[2 * j] = Colon
    BY <1>2, Zenon DEF Alternates
  <2>2. ASSUME NEW i \in 1 .. Len(u)
        PROVE  IF i % 2 = 1 THEN IsInt6(u[i]) ELSE u[i] = Colon
    <3>0. i \in Nat \ {0}
      BY <1>2
    <3>1. PICK j \in Nat \ {0} : i = 2 * j - 1 \/ i = 2 * j
      BY <3>0, OddOrEven
    <3>2. j \in 1 .. k
      BY <1>2, <3>1
    <3>3. (2 * j - 1) % 2 = 1 /\ (2 * j) % 2 # 1
      BY Parity
    <3>4. IsInt6(u[2 * j - 1]) /\ u[2 * j] = Colon
      BY <2>1, <3>2, Zenon
    <3>5. CASE i = 2 * j - 1
      BY <3>3, <3>4, <3>5, Zenon
    <3>6. CASE i = 2 * j
      BY <3>3, <3>4, <3>6, Zenon
    <3> QED
      BY <3>1, <3>5, <3>6
  <2> QED
    BY <1>2, <2>2, Zenon DEF IsLeft
<1> QED
    BY <1>1, <1>2

\* colons and numbers by turns
AlternatesRight(u, q) == \A j \in 1 .. q : u[2 * j - 1] = Colon /\ IsInt6(u[2 * j])

IsPairs(u) == \A i \in 1 .. Len(u) : IF i % 2 = 0 THEN IsInt6(u[i]) ELSE u[i] = Colon

\* reg_6RHT_rep, by pairs
LEMMA PairsAre ==
    ASSUME NEW A, NEW u \in Seq(A), NEW q \in Nat, Len(u) = 2 * q
    PROVE  IsPairs(u) <=> AlternatesRight(u, q)
<1>1. ASSUME IsPairs(u) PROVE AlternatesRight(u, q)
  <2>1. \A i \in 1 .. Len(u) : IF i % 2 = 0 THEN IsInt6(u[i]) ELSE u[i] = Colon
    BY <1>1, Zenon DEF IsPairs
  <2>2. ASSUME NEW j \in 1 .. q PROVE u[2 * j - 1] = Colon /\ IsInt6(u[2 * j])
    <3>1. 2 * j - 1 \in 1 .. Len(u) /\ 2 * j \in 1 .. Len(u) /\ j \in Nat \ {0}
      OBVIOUS
    <3>2. (2 * j - 1) % 2 # 0 /\ (2 * j) % 2 = 0
      BY <3>1, Parity
    <3> QED
      BY <2>1, <3>1, <3>2, Zenon
  <2> QED
    BY <2>2, Zenon DEF AlternatesRight
<1>2. ASSUME AlternatesRight(u, q) PROVE IsPairs(u)
  <2>1. \A j \in 1 .. q : u[2 * j - 1] = Colon /\ IsInt6(u[2 * j])
    BY <1>2, Zenon DEF AlternatesRight
  <2>2. ASSUME NEW i \in 1 .. Len(u)
        PROVE  IF i % 2 = 0 THEN IsInt6(u[i]) ELSE u[i] = Colon
    <3>0. i \in Nat \ {0}
      OBVIOUS
    <3>1. PICK j \in Nat \ {0} : i = 2 * j - 1 \/ i = 2 * j
      BY <3>0, OddOrEven
    <3>2. j \in 1 .. q
      BY <3>1
    <3>3. (2 * j - 1) % 2 # 0 /\ (2 * j) % 2 = 0
      BY Parity
    <3>4. u[2 * j - 1] = Colon /\ IsInt6(u[2 * j])
      BY <2>1, <3>2, Zenon
    <3>5. CASE i = 2 * j - 1
      BY <3>3, <3>4, <3>5, Zenon
    <3>6. CASE i = 2 * j
      BY <3>3, <3>4, <3>6, Zenon
    <3> QED
      BY <3>1, <3>5, <3>6
  <2> QED
    BY <2>2, Zenon DEF IsPairs
<1> QED
    BY <1>1, <1>2

\* Skips, place by place
SkipsAt(t, k) ==
    LET n == SkipAt(k)
    IN  /\ Len(t) > n
        /\ k = 0 => t[1] = Colon
        /\ Alternates(t, k)
        /\ \/ Len(t) = n + 1 /\ t[n + 1] = Colon
           \/ \E m \in 1 .. 6 - k :
                /\ Len(t) = n + 2 * m
                /\ \A j \in 1 .. m : t[n + 2 * j - 1] = Colon /\ IsInt6(t[n + 2 * j])

\* What is before the zeros that are skipped.
LEMMA BeforeSkip ==
    ASSUME NEW A, NEW t \in Seq(A), NEW k \in Nat, Len(t) > SkipAt(k)
    PROVE  LET left == SubSeq(t, 1, SkipAt(k))
           IN  (IF k = 0 THEN left = <<Colon>> ELSE IsLeft(left, k))
                <=> (k = 0 => t[1] = Colon) /\ Alternates(t, k)
<1> DEFINE n == SkipAt(k)
           left == SubSeq(t, 1, n)
<1>1. n \in Nat \ {0} /\ (k = 0 => n = 1) /\ (k # 0 => n = 2 * k)
    BY DEF SkipAt
<1>2. Len(t) \in Nat /\ n <= Len(t) /\ 1 <= n + 1 /\ 1 \in Nat \ {0} /\ n - 1 + 1 = n /\ n \in Nat
    BY <1>1
<1> HIDE DEF n
<1>3. left \in Seq(A) /\ IsPart(left, t, 1, n)
    BY <1>2, Part
<1> HIDE DEF left
<1>4. Len(left) = n /\ \A i \in 1 .. n : left[i] = t[i]
    BY <1>2, <1>3 DEF IsPart
<1>5. CASE k = 0
  <2>1. Len(left) = 1 /\ left[1] = t[1]
    BY <1>1, <1>4, <1>5
  <2>2. left = <<Colon>> <=> t[1] = Colon
    BY <1>3, <2>1
  <2>3. Alternates(t, k)
    BY <1>5 DEF Alternates
  <2> QED
    BY <1>5, <2>2, <2>3 DEF left, n
<1>6. CASE k # 0
  <2>1. IsLeft(left, k) <=> Alternates(left, k)
    BY <1>1, <1>3, <1>4, <1>6, LeftIs
  <2>2. \A j \in 1 .. k : left[2 * j - 1] = t[2 * j - 1] /\ left[2 * j] = t[2 * j]
    BY <1>1, <1>4, <1>6
  <2>3. Alternates(left, k) <=> Alternates(t, k)
    BY <2>2, Zenon DEF Alternates
  <2> QED
    BY <1>6, <2>1, <2>3 DEF left, n
<1> QED
    BY <1>5, <1>6

\* Adding the same.
LEMMA Cancel ==
    \A n \in Nat, a \in Nat, b \in Nat : n + a = n + b => a = b
    OBVIOUS

\* What is after the zeros that are skipped, with m numbers.
LEMMA PairsAfter ==
    ASSUME NEW A, NEW t \in Seq(A), NEW n \in Nat, NEW u \in Seq(A), NEW m \in Nat,
           Len(u) = 2 * m, Len(t) = n + Len(u), \A i \in 1 .. Len(u) : u[i] = t[n + i]
    PROVE  IsPairs(u) <=> \A j \in 1 .. m : t[n + 2 * j - 1] = Colon /\ IsInt6(t[n + 2 * j])
<1>1. IsPairs(u) <=> AlternatesRight(u, m)
    BY PairsAre
<1>2. ASSUME NEW j \in 1 .. m
      PROVE  u[2 * j - 1] = t[n + 2 * j - 1] /\ u[2 * j] = t[n + 2 * j]
  <2>1. 2 * j - 1 \in 1 .. Len(u) /\ 2 * j \in 1 .. Len(u) /\ n + (2 * j - 1) = n + 2 * j - 1
    OBVIOUS
  <2>2. u[2 * j - 1] = t[n + (2 * j - 1)] /\ u[2 * j] = t[n + 2 * j]
    BY <2>1
  <2> QED
    BY <2>1, <2>2
<1> QED
    BY <1>1, <1>2, Zenon DEF AlternatesRight

EndsAt(t, n, mt) ==
    \/ Len(t) = n + 1 /\ t[n + 1] = Colon
    \/ \E m \in 1 .. mt :
        /\ Len(t) = n + 2 * m
        /\ \A j \in 1 .. m : t[n + 2 * j - 1] = Colon /\ IsInt6(t[n + 2 * j])

\* ... with any number of them that is allowed, or none.
LEMMA AfterSkip ==
    ASSUME NEW A, NEW t \in Seq(A), NEW n \in Nat, Len(t) > n, NEW mt \in Nat
    PROVE  IsRight(SubSeq(t, n + 1, Len(t)), mt) <=> EndsAt(t, n, mt)
<1> DEFINE u == SubSeq(t, n + 1, Len(t))
           N == Len(t)
<1>1. /\ N \in Nat /\ n + 1 \in Nat \ {0} /\ n + 1 <= N + 1 /\ N <= Len(t)
      /\ N - (n + 1) + 1 = N - n /\ N - n \in Nat
    OBVIOUS
<1>2. u \in Seq(A) /\ IsPart(u, t, n + 1, N)
    BY <1>1, Part
<1>3. u = SubSeq(t, n + 1, Len(t))
    OBVIOUS
<1> HIDE DEF u
<1>4. Len(u) = N - n /\ \A i \in 1 .. N - n : u[i] = t[n + i]
  <2>1. Len(u) = N - n /\ \A i \in 1 .. N - n : u[i] = t[(n + 1) + i - 1]
    BY <1>1, <1>2 DEF IsPart
  <2>2. \A i \in 1 .. N - n : (n + 1) + i - 1 = n + i
    OBVIOUS
  <2> QED
    BY <2>1, <2>2
<1>5. \A i \in 1 .. Len(u) : u[i] = t[n + i]
    BY <1>4
<1>6. Len(t) = n + Len(u)
    BY <1>1, <1>4
<1> HIDE DEF N
<1>7. u = <<Colon>> <=> Len(t) = n + 1 /\ t[n + 1] = Colon
  <2>1. ASSUME u = <<Colon>> PROVE Len(t) = n + 1 /\ t[n + 1] = Colon
    <3>1. Len(u) = 1 /\ u[1] = Colon /\ 1 \in 1 .. Len(u)
      BY <2>1
    <3> QED
      BY <1>5, <1>6, <3>1
  <2>2. ASSUME Len(t) = n + 1, t[n + 1] = Colon PROVE u = <<Colon>>
    <3>0. Len(u) \in Nat
      BY <1>2
    <3>1. Len(u) = 1
      BY <1>6, <2>2, <3>0, Cancel
    <3>2. u[1] = Colon
      BY <1>5, <2>2, <3>1
    <3> QED
      BY <1>2, <3>1, <3>2
  <2> QED
    BY <2>1, <2>2
<1>8. IsRight(u, mt) <=> u = <<Colon>> \/ (Len(u) \in {2 * q : q \in 1 .. mt} /\ IsPairs(u))
    BY Zenon DEF IsRight, IsPairs
<1>9. ASSUME NEW m \in 1 .. mt, Len(u) = 2 * m
      PROVE  IsPairs(u) <=> \A j \in 1 .. m : t[n + 2 * j - 1] = Colon /\ IsInt6(t[n + 2 * j])
  <2>1. m \in Nat
    OBVIOUS
  <2> QED
    BY <1>2, <1>5, <1>6, <1>9, <2>1, PairsAfter
<1>10. ASSUME NEW m \in 1 .. mt PROVE Len(u) = 2 * m <=> Len(t) = n + 2 * m
    BY <1>2, <1>6
<1>11. (Len(u) \in {2 * q : q \in 1 .. mt} /\ IsPairs(u)) <=>
        \E m \in 1 .. mt : /\ Len(t) = n + 2 * m
                           /\ \A j \in 1 .. m : t[n + 2 * j - 1] = Colon /\ IsInt6(t[n + 2 * j])
    BY <1>9, <1>10, Zenon
<1> QED
    BY <1>3, <1>7, <1>8, <1>11, Zenon DEF EndsAt

\* Skips, place by place.
LEMMA SkipsIs ==
    ASSUME NEW A, NEW t \in Seq(A), NEW k \in 0 .. 6
    PROVE  Skips(t, k) <=> SkipsAt(t, k)
<1> DEFINE n == SkipAt(k)
           left == SubSeq(t, 1, n)
<1>1. n \in Nat /\ k \in Nat /\ 6 - k \in Nat
    BY DEF SkipAt
<1>2. Skips(t, k) <=>
        /\ Len(t) > n
        /\ IF k = 0 THEN left = <<Colon>> ELSE IsLeft(left, k)
        /\ IsRight(SubSeq(t, n + 1, Len(t)), 6 - k)
    BY Zenon DEF Skips
<1>3. SkipsAt(t, k) <=>
        Len(t) > n /\ (k = 0 => t[1] = Colon) /\ Alternates(t, k) /\ EndsAt(t, n, 6 - k)
    BY Zenon DEF SkipsAt, EndsAt
<1>4. CASE Len(t) > n
  <2>1. (IF k = 0 THEN left = <<Colon>> ELSE IsLeft(left, k)) <=> (k = 0 => t[1] = Colon) /\ Alternates(t, k)
    BY <1>1, <1>4, BeforeSkip
  <2> HIDE DEF n, left
  <2>2. IsRight(SubSeq(t, n + 1, Len(t)), 6 - k) <=> EndsAt(t, n, 6 - k)
    BY <1>1, <1>4, AfterSkip
  <2> QED
    BY <1>2, <1>3, <2>1, <2>2, Zenon
<1>5. CASE ~(Len(t) > n)
    BY <1>2, <1>3, <1>5, Zenon
<1> QED
    BY <1>4, <1>5

\* A text that leaves out zeros after x does so there.
LEMMA ShortSkips ==
    ASSUME NEW A, NEW t \in Seq(A), NEW x \in Seq(Nat), NEW y \in Seq(Nat),
           IsShort(t, x, y), Len(x) + Len(y) <= 6
    PROVE  Len(x) \in 0 .. 6 /\ Skips(t, Len(x))
<1> DEFINE K == Len(x)
           M == Len(y)
           n == SkipAt(K)
<1>1. /\ K \in Nat /\ M \in Nat /\ n \in Nat /\ K + M <= 6
      /\ \A j \in 1 .. K : x[j] \in Nat
      /\ \A j \in 1 .. M : y[j] \in Nat
    BY DEF SkipAt
<1>2. /\ Len(t) = n + (IF M = 0 THEN 1 ELSE 2 * M)
      /\ K = 0 => t[1] = Colon
      /\ \A j \in 1 .. K : t[2 * j - 1] = x[j] /\ t[2 * j] = Colon
      /\ M = 0 => t[n + 1] = Colon
      /\ \A j \in 1 .. M : t[n + 2 * j - 1] = Colon /\ t[n + 2 * j] = y[j]
    BY Zenon DEF IsShort
<1>3. Alternates(t, K)
    BY <1>1, <1>2 DEF Alternates, IsInt6
<1>4. \A j \in 1 .. M : t[n + 2 * j - 1] = Colon /\ IsInt6(t[n + 2 * j])
    BY <1>1, <1>2 DEF IsInt6
<1>5. K \in 0 .. 6
  <2>1. K \in Nat /\ M \in Nat /\ K + M <= 6
    OBVIOUS
  <2> HIDE DEF K, M
  <2> QED
    BY <2>1
<1> HIDE DEF K, M, n
<1>6. Len(t) > n
    BY <1>1, <1>2
<1>7. EndsAt(t, n, 6 - K)
  <2>1. CASE M = 0
    <3>1. Len(t) = n + 1
      BY <1>2, <2>1
    <3> QED
      BY <1>2, <2>1, <3>1, Zenon DEF EndsAt
  <2>2. CASE M # 0
    <3>1. M \in 1 .. 6 - K
      BY <1>1, <2>2
    <3>2. Len(t) = n + 2 * M
      BY <1>2, <2>2
    <3> QED
      BY <1>4, <3>1, <3>2, Zenon DEF EndsAt
  <2> QED
    BY <2>1, <2>2
<1>8. SkipsAt(t, K)
    BY <1>2, <1>3, <1>6, <1>7, Zenon DEF SkipsAt, EndsAt, n
<1> QED
    BY <1>5, <1>8, SkipsIs DEF K

\* ... and nowhere else.
LEMMA ShortSkipsOnce ==
    ASSUME NEW A, NEW t \in Seq(A), NEW x \in Seq(Nat), NEW y \in Seq(Nat),
           IsShort(t, x, y), Colon \notin Nat, NEW i \in 0 .. 6, Skips(t, i)
    PROVE  i = Len(x)
<1> DEFINE K == Len(x)
           M == Len(y)
           n == SkipAt(K)
           p == SkipAt(i)
<1>1. /\ K \in Nat /\ M \in Nat /\ n = (IF K = 0 THEN 1 ELSE 2 * K) /\ p = (IF i = 0 THEN 1 ELSE 2 * i)
      /\ \A j \in 1 .. K : x[j] \in Nat
    BY DEF SkipAt
<1>2. /\ K = 0 => t[1] = Colon
      /\ \A j \in 1 .. K : t[2 * j - 1] = x[j] /\ t[2 * j] = Colon
      /\ M = 0 => t[n + 1] = Colon
      /\ \A j \in 1 .. M : t[n + 2 * j - 1] = Colon /\ t[n + 2 * j] = y[j]
    BY Zenon DEF IsShort
<1>3. SkipsAt(t, i)
    BY SkipsIs
<1>4. (i = 0 => t[1] = Colon) /\ Alternates(t, i) /\ EndsAt(t, p, 6 - i)
    BY <1>3, Zenon DEF SkipsAt, EndsAt
<1>5. \A j \in 1 .. i : t[2 * j - 1] \in Nat
    BY <1>4 DEF Alternates, IsInt6
<1> HIDE DEF K, M, n, p
<1>6. t[n + 1] = Colon
  <2>1. CASE M = 0
    BY <1>2, <2>1
  <2>2. CASE M # 0
    <3>1. 1 \in 1 .. M /\ n + 2 * 1 - 1 = n + 1
      BY <1>1, <2>2
    <3>2. t[n + 2 * 1 - 1] = Colon
      BY <1>2, <3>1, Zenon
    <3> QED
      BY <3>1, <3>2
  <2> QED
    BY <2>1, <2>2
<1>7. t[p + 1] = Colon
  <2>1. CASE Len(t) = p + 1 /\ t[p + 1] = Colon
    BY <2>1
  <2>2. ASSUME NEW m \in 1 .. 6 - i, \A j \in 1 .. m : t[p + 2 * j - 1] = Colon
        PROVE  t[p + 1] = Colon
    <3>1. 1 \in 1 .. m /\ p + 2 * 1 - 1 = p + 1
      BY <1>1
    <3>2. t[p + 2 * 1 - 1] = Colon
      BY <2>2, <3>1, Zenon
    <3> QED
      BY <3>1, <3>2
  <2> QED
    BY <1>4, <2>1, <2>2, Zenon DEF EndsAt
<1>8. \A j \in 1 .. K : t[2 * j - 1] \in Nat
    BY <1>1, <1>2
<1>9. ~(i < K)
  <2> SUFFICES ASSUME i < K PROVE FALSE
    OBVIOUS
  <2>1. CASE i = 0
    <3>1. 1 \in 1 .. K /\ 2 * 1 - 1 = 1
      BY <1>1, <2>1
    <3>2. t[1] \in Nat
      BY <1>8, <3>1
    <3> QED
      BY <1>4, <2>1, <3>2
  <2>2. CASE i # 0
    <3>1. i + 1 \in 1 .. K /\ 2 * (i + 1) - 1 = p + 1
      BY <1>1, <2>2
    <3>2. t[2 * (i + 1) - 1] \in Nat
      BY <1>8, <3>1
    <3> QED
      BY <1>7, <3>1, <3>2
  <2> QED
    BY <2>1, <2>2
<1>10. ~(K < i)
  <2> SUFFICES ASSUME K < i PROVE FALSE
    OBVIOUS
  <2>1. CASE K = 0
    <3>1. 1 \in 1 .. i /\ 2 * 1 - 1 = 1
      BY <2>1
    <3>2. t[1] \in Nat
      BY <1>5, <3>1
    <3> QED
      BY <1>2, <2>1, <3>2
  <2>2. CASE K # 0
    <3>1. K + 1 \in 1 .. i /\ 2 * (K + 1) - 1 = n + 1
      BY <1>1, <2>2
    <3>2. t[2 * (K + 1) - 1] \in Nat
      BY <1>5, <3>1
    <3> QED
      BY <1>6, <3>1, <3>2
  <2> QED
    BY <2>1, <2>2
<1> QED
  <2>1. i = K
    BY <1>1, <1>9, <1>10
  <2> QED
    BY <2>1 DEF K

\* A text that leaves out zeros has numbers before and after, up to six.
LEMMA SkipsShort ==
    ASSUME NEW A, NEW t \in Seq(A), NEW k \in 0 .. 6, Skips(t, k)
    PROVE  \E x \in Seq(Nat), y \in Seq(Nat) :
            Len(x) = k /\ Len(x) + Len(y) <= 6 /\ IsShort(t, x, y)
<1> DEFINE n == SkipAt(k)
           x == [j \in 1 .. k |-> t[2 * j - 1]]
<1>1. /\ (k = 0 => t[1] = Colon) /\ Alternates(t, k) /\ EndsAt(t, n, 6 - k)
    BY SkipsIs, Zenon DEF SkipsAt, EndsAt
<1>2. \A j \in 1 .. k : t[2 * j - 1] \in Nat /\ t[2 * j] = Colon
    BY <1>1, Zenon DEF Alternates, IsInt6
<1>3. x \in Seq(Nat) /\ Len(x) = k /\ \A j \in 1 .. k : x[j] = t[2 * j - 1]
    BY <1>2
<1>4. SkipAt(Len(x)) = n
    BY <1>3
<1> HIDE DEF n, x
<1>5. CASE Len(t) = n + 1 /\ t[n + 1] = Colon
  <2> DEFINE y == <<>>
  <2>1. y \in Seq(Nat) /\ Len(y) = 0
    OBVIOUS
  <2>2. Len(x) + Len(y) <= 6
    BY <1>3, <2>1
  <2>3. \A j \in 1 .. Len(y) : t[n + 2 * j - 1] = Colon /\ t[n + 2 * j] = y[j]
    BY <2>1
  <2> HIDE DEF y
  <2>4. Len(t) = n + (IF Len(y) = 0 THEN 1 ELSE 2 * Len(y))
    BY <1>5, <2>1, Zenon
  <2>5. \A j \in 1 .. Len(x) : t[2 * j - 1] = x[j] /\ t[2 * j] = Colon
    BY <1>2, <1>3, Zenon
  <2>6. Len(x) = 0 => t[1] = Colon
    BY <1>1, <1>3, Zenon
  <2>7. IsShort(t, x, y)
    BY <1>4, <1>5, <2>3, <2>4, <2>5, <2>6, Zenon DEF IsShort
  <2> QED
    BY <1>3, <2>1, <2>2, <2>7
<1>6. ASSUME NEW m \in 1 .. 6 - k, Len(t) = n + 2 * m,
             \A j \in 1 .. m : t[n + 2 * j - 1] = Colon /\ IsInt6(t[n + 2 * j])
      PROVE  \E z \in Seq(Nat), y \in Seq(Nat) :
                Len(z) = k /\ Len(z) + Len(y) <= 6 /\ IsShort(t, z, y)
  <2> DEFINE y == [j \in 1 .. m |-> t[n + 2 * j]]
  <2>1. \A j \in 1 .. m : t[n + 2 * j] \in Nat
    BY <1>6, Zenon DEF IsInt6
  <2>2. y \in Seq(Nat) /\ Len(y) = m /\ \A j \in 1 .. m : y[j] = t[n + 2 * j]
    BY <2>1
  <2> HIDE DEF y
  <2>3. Len(x) + Len(y) <= 6 /\ Len(y) # 0
    BY <1>3, <2>2
  <2>4. Len(t) = n + (IF Len(y) = 0 THEN 1 ELSE 2 * Len(y))
    BY <1>6, <2>2, <2>3, Zenon
  <2>5. \A j \in 1 .. Len(x) : t[2 * j - 1] = x[j] /\ t[2 * j] = Colon
    BY <1>2, <1>3, Zenon
  <2>6. Len(x) = 0 => t[1] = Colon
    BY <1>1, <1>3, Zenon
  <2>7. \A j \in 1 .. Len(y) : t[n + 2 * j - 1] = Colon /\ t[n + 2 * j] = y[j]
    BY <1>6, <2>2, Zenon
  <2>8. IsShort(t, x, y)
    BY <1>4, <2>3, <2>4, <2>5, <2>6, <2>7, Zenon DEF IsShort
  <2> QED
    BY <1>3, <2>2, <2>3, <2>8
<1> QED
  <2>1. EndsAt(t, n, 6 - k)
    BY <1>1
  <2>2. CASE Len(t) = n + 1 /\ t[n + 1] = Colon
    BY <1>5, <2>2
  <2>3. CASE \E m \in 1 .. 6 - k :
                /\ Len(t) = n + 2 * m
                /\ \A j \in 1 .. m : t[n + 2 * j - 1] = Colon /\ IsInt6(t[n + 2 * j])
    BY <1>6, <2>3, Zenon
  <2> QED
    BY <2>1, <2>2, <2>3, Zenon DEF EndsAt

\* All eight numbers.
WholeAt(t) ==
    Len(t) = 15 /\ (\A j \in 1 .. 8 : t[2 * j - 1] \in Nat) /\ \A j \in 1 .. 7 : t[2 * j] = Colon

\* The first alternative: eight numbers and seven colons.
LEMMA WholeIs ==
    ASSUME NEW A, NEW t \in Seq(A)
    PROVE  IsWhole(t) <=> WholeAt(t)
<1>1. CASE Len(t) # 15
    BY <1>1 DEF IsWhole, WholeAt
<1>2. CASE Len(t) = 15
  <2> DEFINE u == Front(t)
  <2>1. u = SubSeq(t, 1, 14)
    BY <1>2 DEF Front
  <2>2. 1 \in Nat \ {0} /\ 14 \in Nat /\ 1 <= 14 + 1 /\ 14 <= Len(t) /\ 14 - 1 + 1 = 14
    BY <1>2
  <2> HIDE DEF u
  <2>3. u \in Seq(A) /\ IsPart(u, t, 1, 14)
    BY <2>1, <2>2, Part
  <2>4. Len(u) = 14 /\ \A i \in 1 .. 14 : u[i] = t[i]
    BY <2>2, <2>3 DEF IsPart
  <2>5. IsLeft(u, 7) <=> Len(u) = 2 * 7 /\ Alternates(u, 7)
    BY <2>3, LeftIs
  <2>6. \A j \in 1 .. 7 : u[2 * j - 1] = t[2 * j - 1] /\ u[2 * j] = t[2 * j]
    BY <2>4
  <2>7. Alternates(u, 7) <=> \A j \in 1 .. 7 : t[2 * j - 1] \in Nat /\ t[2 * j] = Colon
    BY <2>6, Zenon DEF Alternates, IsInt6
  <2>8. (\A j \in 1 .. 8 : t[2 * j - 1] \in Nat) <=> (\A j \in 1 .. 7 : t[2 * j - 1] \in Nat) /\ t[15] \in Nat
    <3>1. \A j \in 1 .. 8 : j \in 1 .. 7 \/ j = 8
      OBVIOUS
    <3>2. \A j \in 1 .. 7 : j \in 1 .. 8
      OBVIOUS
    <3>3. 8 \in 1 .. 8 /\ 2 * 8 - 1 = 15
      OBVIOUS
    <3> QED
      BY <3>1, <3>2, <3>3, Zenon
  <2>9. IsWhole(t) <=> Len(t) = 15 /\ IsLeft(u, 7) /\ t[15] \in Nat
    BY Zenon DEF IsWhole, IsInt6, u
  <2>10. 2 * 7 = 14
    OBVIOUS
  <2> QED
    BY <1>2, <2>4, <2>5, <2>7, <2>8, <2>9, <2>10, Zenon DEF WholeAt
<1> QED
    BY <1>1, <1>2

\* Eight numbers with colons between them are taken for these numbers.
LEMMA ParseWhole ==
    ASSUME NEW A, NEW t \in Seq(A), NEW s \in Seq(Nat), Len(s) = 8, AreColons(t, s)
    PROVE  IsWhole(t) /\ parse_in6(t) = s
<1>1. s = [i \in 1 .. 8 |-> s[i]] /\ \A i \in 1 .. 8 : s[i] \in Nat
  <2>1. /\ \A i \in 1 .. Len(s) : s[i] \in Nat
        /\ s = [i \in 1 .. Len(s) |-> s[i]]
    BY Elements
  <2> QED
    BY <2>1
<1>2. Len(s) # 0 /\ Len(s) - 1 = 7 /\ 2 * Len(s) - 1 = 15
    OBVIOUS
<1>3. /\ Len(t) = 15
      /\ \A j \in 1 .. 8 : t[2 * j - 1] = s[j]
      /\ \A j \in 1 .. 7 : t[2 * j] = Colon
    BY <1>2, Zenon DEF AreColons
<1>4. \A j \in 1 .. 8 : s[j] \in Nat
    BY <1>1
<1>5. IsWhole(t)
  <2>1. WholeAt(t)
    BY <1>3, <1>4, Zenon DEF WholeAt
  <2> QED
    BY <2>1, WholeIs
<1>6. parse_in6(t) = [i \in 1 .. 8 |-> t[2 * i - 1]]
    BY <1>5, Zenon DEF parse_in6
<1>7. [i \in 1 .. 8 |-> t[2 * i - 1]] = [i \in 1 .. 8 |-> s[i]]
    BY <1>3
<1> QED
    BY <1>1, <1>5, <1>6, <1>7

\* ... and nothing else has that form.
LEMMA WholeParsed ==
    ASSUME NEW A, NEW t \in Seq(A), IsWhole(t)
    PROVE  parse_in6(t) \in Seq(Nat) /\ Len(parse_in6(t)) = 8 /\ AreColons(t, parse_in6(t))
<1> DEFINE s == [i \in 1 .. 8 |-> t[2 * i - 1]]
<1>1. /\ Len(t) = 15
      /\ \A j \in 1 .. 8 : t[2 * j - 1] \in Nat
      /\ \A j \in 1 .. 7 : t[2 * j] = Colon
    BY WholeIs DEF WholeAt
<1>2. parse_in6(t) = s
    BY Zenon DEF parse_in6
<1>3. s \in Seq(Nat) /\ Len(s) = 8 /\ \A j \in 1 .. 8 : s[j] = t[2 * j - 1]
    BY <1>1
<1> HIDE DEF s
<1>4. Len(s) # 0 /\ Len(s) - 1 = 7 /\ 2 * Len(s) - 1 = 15
    BY <1>3
<1>5. AreColons(t, s)
    BY <1>1, <1>3, <1>4, Zenon DEF AreColons
<1> QED
    BY <1>2, <1>3, <1>5

\* the eight numbers that x and y are the ends of
Filled(x, y) ==
    [i \in 1 .. 8 |-> IF i <= Len(x) THEN x[i]
                      ELSE IF i <= 8 - Len(y) THEN 0 ELSE y[i - (8 - Len(y))]]

\* The numbers after what is skipped are counted from the end.
LEMMA HowManyAfter ==
    \A n \in Nat, m \in Nat, l \in Nat : l = n + (IF m = 0 THEN 1 ELSE 2 * m) => (l - n) \div 2 = m
<1> SUFFICES ASSUME NEW n \in Nat, NEW m \in Nat, NEW l \in Nat, l = n + (IF m = 0 THEN 1 ELSE 2 * m)
             PROVE  (l - n) \div 2 = m
    OBVIOUS
<1>1. CASE m = 0
  <2>1. l - n = 1
    BY <1>1
  <2> QED
    BY <1>1, <2>1
<1>2. CASE m # 0
  <2>1. l - n = 2 * m
    BY <1>2
  <2>2. (2 * m) \div 2 = m
    OBVIOUS
  <2> QED
    BY <2>1, <2>2
<1> QED
    BY <1>1, <1>2

\* What leaves out zeros is not a whole address.
LEMMA ShortIsNotWhole ==
    ASSUME NEW A, NEW t \in Seq(A), NEW x \in Seq(Nat), NEW y \in Seq(Nat),
           IsShort(t, x, y), Len(x) + Len(y) <= 6, Colon \notin Nat
    PROVE  ~IsWhole(t)
<1> SUFFICES ASSUME IsWhole(t) PROVE FALSE
    OBVIOUS
<1> DEFINE K == Len(x)
           M == Len(y)
           n == SkipAt(K)
<1>1. K \in Nat /\ M \in Nat
    OBVIOUS
<1>2. n = IF K = 0 THEN 1 ELSE 2 * K
    BY DEF SkipAt
<1>3. \A j \in 1 .. 8 : t[2 * j - 1] \in Nat
    BY WholeIs DEF WholeAt
<1>4. /\ K = 0 => t[1] = Colon
      /\ M = 0 => t[n + 1] = Colon
      /\ \A j \in 1 .. M : t[n + 2 * j - 1] = Colon
    BY Zenon DEF IsShort
<1>5. K + M <= 6
    OBVIOUS
<1> HIDE DEF K, M, n
<1>6. CASE K = 0
  <2>1. 1 \in 1 .. 8 /\ 2 * 1 - 1 = 1
    OBVIOUS
  <2> QED
    BY <1>3, <1>4, <1>6, <2>1
<1>7. CASE K # 0
  <2>1. K + 1 \in 1 .. 8 /\ 2 * (K + 1) - 1 = n + 1
    BY <1>1, <1>2, <1>5, <1>7
  <2>2. t[n + 1] \in Nat
    BY <1>3, <2>1
  <2>3. t[n + 1] = Colon
    <3>1. CASE M = 0
      BY <1>4, <3>1
    <3>2. CASE M # 0
      <4>1. 1 \in 1 .. M /\ n + 2 * 1 - 1 = n + 1
        BY <1>1, <1>2, <3>2
      <4>2. t[n + 2 * 1 - 1] = Colon
        BY <1>4, <4>1, Zenon
      <4> QED
        BY <4>1, <4>2
    <3> QED
      BY <3>1, <3>2
  <2> QED
    BY <2>2, <2>3
<1> QED
    BY <1>6, <1>7

\* A text that leaves out zeros is taken for the address it spells.
LEMMA ParseShort ==
    ASSUME NEW A, NEW t \in Seq(A), NEW x \in Seq(Nat), NEW y \in Seq(Nat),
           IsShort(t, x, y), Len(x) + Len(y) <= 6, Colon \notin Nat
    PROVE  parse_in6(t) = Filled(x, y)
<1> DEFINE K == Len(x)
           M == Len(y)
           n == SkipAt(K)
           k == CHOOSE k \in 0 .. 6 : Skips(t, k)
           after == (Len(t) - SkipAt(k)) \div 2
           E(i) == CASE i <= k -> t[2 * i - 1]
                     [] k < i /\ i <= 8 - after -> 0
                     [] k < i /\ i > 8 - after -> t[Len(t) - 2 * (8 - i)]
           F(i) == IF i <= K THEN x[i] ELSE IF i <= 8 - M THEN 0 ELSE y[i - (8 - M)]
<1>1. K \in 0 .. 6 /\ Skips(t, K)
    BY ShortSkips
<1>2. \A i \in 0 .. 6 : Skips(t, i) => i = K
    BY ShortSkipsOnce
<1>3. ~IsWhole(t)
    BY ShortIsNotWhole
<1>4. k = K
  <2> HIDE DEF K
  <2>1. k \in 0 .. 6 /\ Skips(t, k)
    BY <1>1
  <2> HIDE DEF k
  <2> QED
    BY <1>2, <2>1
<1>5. parse_in6(t) = [i \in 1 .. 8 |-> E(i)]
  <2>1. parse_in6(t) =
            IF IsWhole(t) THEN [i \in 1 .. 8 |-> t[2 * i - 1]]
            ELSE IF \A i \in 0 .. 6 : ~Skips(t, i) THEN Refused
            ELSE [i \in 1 .. 8 |-> E(i)]
    BY Zenon DEF parse_in6
  <2> HIDE DEF K, k, after, E
  <2> QED
    BY <1>1, <1>3, <2>1, Zenon
<1>6. /\ Len(t) = n + (IF M = 0 THEN 1 ELSE 2 * M)
      /\ \A j \in 1 .. K : t[2 * j - 1] = x[j]
      /\ \A j \in 1 .. M : t[n + 2 * j] = y[j]
    BY Zenon DEF IsShort
<1>7. n \in Nat /\ M \in Nat /\ K \in Nat /\ K + M <= 6
    BY DEF SkipAt
<1>8. Len(t) \in Nat
    OBVIOUS
<1> HIDE DEF K, M, k
<1>9. after = M
  <2>1. after = (Len(t) - n) \div 2
    BY <1>4
  <2> HIDE DEF n, after
  <2> QED
    BY <1>6, <1>7, <1>8, <2>1, HowManyAfter
<1> HIDE DEF after, n
<1>10. ASSUME NEW i \in 1 .. 8 PROVE E(i) = F(i)
  <2>1. CASE i <= K
    <3>1. t[2 * i - 1] = x[i]
      BY <1>6, <1>7, <2>1
    <3>2. i <= k /\ ~(k < i)
      BY <1>4, <1>7, <2>1
    <3>3. E(i) = t[2 * i - 1]
      BY <3>2, Zenon
    <3>4. F(i) = x[i]
      BY <2>1, Zenon
    <3> QED
      BY <3>1, <3>3, <3>4
  <2>2. CASE ~(i <= K) /\ i <= 8 - M
    BY <1>4, <1>7, <1>9, <2>2, Z3T(30)
  <2>3. CASE ~(i <= K) /\ ~(i <= 8 - M)
    <3>1. i - (8 - M) \in 1 .. M /\ M # 0
      BY <1>7, <2>3
    <3>2. Len(t) = n + 2 * M
      BY <1>6, <3>1
    <3>3. Len(t) - 2 * (8 - i) = n + 2 * (i - (8 - M))
      BY <1>7, <3>2
    <3>4. t[n + 2 * (i - (8 - M))] = y[i - (8 - M)]
      BY <1>6, <3>1
    <3>5. E(i) = t[Len(t) - 2 * (8 - i)]
      BY <1>4, <1>7, <1>9, <2>3, Z3T(30)
    <3>6. F(i) = y[i - (8 - M)]
      BY <2>3
    <3> QED
      BY <3>3, <3>4, <3>5, <3>6
  <2> QED
    BY <2>1, <2>2, <2>3
<1>11. [i \in 1 .. 8 |-> E(i)] = [i \in 1 .. 8 |-> F(i)]
  <2> HIDE DEF E, F
  <2> QED
    BY <1>10
<1>12. Filled(x, y) = [i \in 1 .. 8 |-> F(i)]
    BY Zenon DEF Filled, K, M
<1> QED
  <2> HIDE DEF E, F
  <2> QED
    BY <1>5, <1>11, <1>12

\* t is the eight numbers of IP, or leaves out zeros of them
Spells(t, IP) ==
    \/ AreColons(t, IP)
    \/ \E x \in Seq(Nat), y \in Seq(Nat) :
        Len(x) + Len(y) <= 6 /\ IsShort(t, x, y) /\ IP = Filled(x, y)

\* the numbers of IP before and after its zeros from a to b
Before(IP, a) == SubSeq(IP, 1, a - 1)
After(IP, b) == SubSeq(IP, b + 1, 8)

\* What is before and after a run of zeros fills up to the address.
LEMMA FilledAgain ==
    ASSUME NEW IP \in Seq(Nat), Len(IP) = 8, NEW a \in 1 .. 8, NEW b \in 1 .. 8, a < b,
           \A i \in a .. b : IP[i] = 0
    PROVE  /\ Before(IP, a) \in Seq(Nat) /\ After(IP, b) \in Seq(Nat)
           /\ Len(Before(IP, a)) = a - 1 /\ Len(After(IP, b)) = 8 - b
           /\ IP = Filled(Before(IP, a), After(IP, b))
<1> DEFINE x == Before(IP, a)
           y == After(IP, b)
           F(i) == IF i <= Len(x) THEN x[i] ELSE IF i <= 8 - Len(y) THEN 0 ELSE y[i - (8 - Len(y))]
<1>1. /\ 1 \in Nat \ {0} /\ a - 1 \in Nat /\ 1 <= (a - 1) + 1 /\ a - 1 <= Len(IP) /\ (a - 1) - 1 + 1 = a - 1
      /\ b + 1 \in Nat \ {0} /\ 8 \in Nat /\ b + 1 <= 8 + 1 /\ 8 <= Len(IP) /\ 8 - (b + 1) + 1 = 8 - b
    OBVIOUS
<1>2. x = SubSeq(IP, 1, a - 1) /\ y = SubSeq(IP, b + 1, 8)
    BY Zenon DEF Before, After
<1> HIDE DEF x, y
<1>3. x \in Seq(Nat) /\ IsPart(x, IP, 1, a - 1)
    BY <1>1, <1>2, Part
<1>4. y \in Seq(Nat) /\ IsPart(y, IP, b + 1, 8)
    BY <1>1, <1>2, Part
<1>5. Len(x) = a - 1 /\ \A i \in 1 .. a - 1 : x[i] = IP[i]
    BY <1>1, <1>3 DEF IsPart
<1>6. Len(y) = 8 - b /\ \A i \in 1 .. 8 - b : y[i] = IP[b + i]
  <2>1. Len(y) = 8 - b /\ \A i \in 1 .. 8 - b : y[i] = IP[(b + 1) + i - 1]
    BY <1>1, <1>4 DEF IsPart
  <2>2. \A i \in 1 .. 8 - b : (b + 1) + i - 1 = b + i
    OBVIOUS
  <2> QED
    BY <2>1, <2>2
<1>7. ASSUME NEW i \in 1 .. 8 PROVE IP[i] = F(i)
  <2>1. CASE i <= a - 1
    BY <1>5, <2>1
  <2>2. CASE ~(i <= a - 1) /\ i <= b
    <3>1. i \in a .. b /\ i <= 8 - Len(y) /\ ~(i <= Len(x))
      BY <1>5, <1>6, <2>2
    <3> QED
      BY <3>1
  <2>3. CASE ~(i <= b)
    <3>1. i - b \in 1 .. 8 - b /\ b + (i - b) = i /\ 8 - Len(y) = b /\ ~(i <= Len(x)) /\ ~(i <= 8 - Len(y))
      BY <1>5, <1>6, <2>3
    <3>2. y[i - b] = IP[i]
      BY <1>6, <3>1
    <3>3. F(i) = y[i - b]
      BY <3>1
    <3> QED
      BY <3>2, <3>3
  <2> QED
    BY <2>1, <2>2, <2>3
<1>8. IP = [i \in 1 .. 8 |-> IP[i]]
  <2>1. IP = [i \in 1 .. Len(IP) |-> IP[i]]
    BY Elements
  <2> QED
    BY <2>1
<1>9. Filled(x, y) = [i \in 1 .. 8 |-> F(i)]
    BY Zenon DEF Filled
<1>10. IP = Filled(x, y)
  <2> HIDE DEF F
  <2> QED
    BY <1>7, <1>8, <1>9
<1> QED
    BY <1>3, <1>4, <1>5, <1>6, <1>10 DEF x, y

\* ... and what fills up to an address is before and after a run of zeros.
LEMMA FilledIs ==
    ASSUME NEW x \in Seq(Nat), NEW y \in Seq(Nat), Len(x) + Len(y) <= 6
    PROVE  LET IP == Filled(x, y)
               a == Len(x) + 1
               b == 8 - Len(y)
           IN  /\ IP \in Seq(Nat) /\ Len(IP) = 8 /\ a \in 1 .. 8 /\ b \in 1 .. 8 /\ a < b
               /\ \A i \in a .. b : IP[i] = 0
               /\ Before(IP, a) = x /\ After(IP, b) = y
<1> DEFINE K == Len(x)
           M == Len(y)
           a == K + 1
           b == 8 - M
           F(i) == IF i <= K THEN x[i] ELSE IF i <= b THEN 0 ELSE y[i - b]
           IP == Filled(x, y)
<1>1. K \in Nat /\ M \in Nat /\ K + M <= 6 /\ (\A i \in 1 .. K : x[i] \in Nat) /\ \A i \in 1 .. M : y[i] \in Nat
    BY Elements
<1>2. IP = [i \in 1 .. 8 |-> F(i)]
    BY Zenon DEF Filled
<1> HIDE DEF K, M, IP
<1>3. ASSUME NEW i \in 1 .. 8 PROVE F(i) \in Nat
  <2>1. CASE i <= K
    BY <1>1, <2>1
  <2>2. CASE ~(i <= K) /\ i <= b
    BY <2>2
  <2>3. CASE ~(i <= K) /\ ~(i <= b)
    <3>1. i - b \in 1 .. M
      BY <1>1, <2>3
    <3> QED
      BY <1>1, <2>3, <3>1
  <2> QED
    BY <2>1, <2>2, <2>3
<1>4. IP \in Seq(Nat) /\ Len(IP) = 8 /\ \A i \in 1 .. 8 : IP[i] = F(i)
  <2> HIDE DEF F
  <2> QED
    BY <1>2, <1>3
<1>5. a \in 1 .. 8 /\ b \in 1 .. 8 /\ a < b
    BY <1>1
<1>6. ASSUME NEW i \in a .. b PROVE IP[i] = 0
  <2>1. i \in 1 .. 8 /\ ~(i <= K) /\ i <= b
    BY <1>1, <1>5
  <2> QED
    BY <1>4, <2>1
<1>7. Before(IP, a) \in Seq(Nat) /\ After(IP, b) \in Seq(Nat) /\ Len(Before(IP, a)) = K /\ Len(After(IP, b)) = M
      /\ IP = Filled(Before(IP, a), After(IP, b))
  <2> HIDE DEF a, b
  <2>1. /\ Before(IP, a) \in Seq(Nat) /\ After(IP, b) \in Seq(Nat) /\ Len(Before(IP, a)) = a - 1
        /\ Len(After(IP, b)) = 8 - b /\ IP = Filled(Before(IP, a), After(IP, b))
    BY <1>4, <1>5, <1>6, FilledAgain
  <2>2. a - 1 = K /\ 8 - b = M
    BY <1>1 DEF a, b
  <2> QED
    BY <2>1, <2>2
<1>8. ASSUME NEW i \in 1 .. K PROVE Before(IP, a)[i] = x[i]
  <2>1. 1 \in Nat \ {0} /\ a - 1 \in Nat /\ 1 <= (a - 1) + 1 /\ a - 1 <= Len(IP) /\ a - 1 = K
    BY <1>1, <1>4
  <2>2. IsPart(Before(IP, a), IP, 1, a - 1)
    BY <1>4, <2>1, Part DEF Before
  <2>3. Before(IP, a)[i] = IP[i]
    BY <2>1, <2>2 DEF IsPart
  <2>4. i \in 1 .. 8 /\ i <= K
    BY <1>1
  <2> QED
    BY <1>4, <2>3, <2>4
<1>9. ASSUME NEW i \in 1 .. M PROVE After(IP, b)[i] = y[i]
  <2>1. b + 1 \in Nat \ {0} /\ 8 \in Nat /\ b + 1 <= 8 + 1 /\ 8 <= Len(IP) /\ 8 - (b + 1) + 1 = M
    BY <1>1, <1>4
  <2>2. IsPart(After(IP, b), IP, b + 1, 8)
    BY <1>4, <2>1, Part DEF After
  <2>3. After(IP, b)[i] = IP[(b + 1) + i - 1]
    BY <2>1, <2>2 DEF IsPart
  <2>4. /\ (b + 1) + i - 1 = b + i /\ b + i \in 1 .. 8 /\ ~(b + i <= K) /\ ~(b + i <= b)
        /\ (b + i) - b = i
    BY <1>1
  <2>5. IP[b + i] = F(b + i)
    BY <1>4, <2>4
  <2>6. F(b + i) = y[i]
    BY <2>4
  <2> QED
    BY <2>3, <2>4, <2>5, <2>6
<1>10. Before(IP, a) = x
  <2>1. AreSame(Before(IP, a), x)
    BY <1>7, <1>8 DEF AreSame, K
  <2> QED
    BY <1>7, <2>1, SameSeq
<1>11. After(IP, b) = y
  <2>1. AreSame(After(IP, b), y)
    BY <1>7, <1>9 DEF AreSame, M
  <2> QED
    BY <1>7, <2>1, SameSeq
<1> QED
  <2> HIDE DEF a, b
  <2>1. /\ IP \in Seq(Nat) /\ Len(IP) = 8 /\ a \in 1 .. 8 /\ b \in 1 .. 8 /\ a < b
        /\ (\A i \in a .. b : IP[i] = 0)
        /\ Before(IP, a) = x /\ After(IP, b) = y
    BY <1>4, <1>5, <1>6, <1>10, <1>11
  <2> QED
    BY <2>1, Zenon DEF IP, a, b, K, M

Runs(IP) == {q \in (1 .. 8) \X (1 .. 8) : q[1] < q[2] /\ \A i \in q[1] .. q[2] : IP[i] = 0}

\* How an address is written, place by place.
LEMMA SpellingsAre ==
    ASSUME NEW IP \in Seq(Nat), Len(IP) = 8, NEW A, NEW t \in Seq(A)
    PROVE  t \in Spellings(IP) <=> Spells(t, IP)
<1>1. t \in Spellings(IP) <=>
        t = Colons(IP) \/ \E r \in Runs(IP) : t = ShortText(Before(IP, r[1]), After(IP, r[2]))
    BY Zenon DEF Spellings, Runs, ShortText, Before, After
<1>2. Colons(IP) \in Seq(Symbols) /\ AreColons(Colons(IP), IP)
    BY ColonsAre
<1>3. t = Colons(IP) <=> AreColons(t, IP)
  <2>1. ASSUME AreColons(t, IP) PROVE t = Colons(IP)
    BY <1>2, <2>1, OnlyColons
  <2> QED
    BY <1>2, <2>1
<1>4. ASSUME NEW r \in Runs(IP), t = ShortText(Before(IP, r[1]), After(IP, r[2]))
      PROVE  Spells(t, IP)
  <2> DEFINE a == r[1]
             b == r[2]
             x == Before(IP, a)
             y == After(IP, b)
  <2>1. a \in 1 .. 8 /\ b \in 1 .. 8 /\ a < b /\ \A i \in a .. b : IP[i] = 0
    BY DEF Runs
  <2> HIDE DEF a, b
  <2>2. /\ x \in Seq(Nat) /\ y \in Seq(Nat) /\ Len(x) = a - 1 /\ Len(y) = 8 - b
        /\ IP = Filled(x, y)
    BY <2>1, FilledAgain
  <2>3. t = ShortText(x, y)
    BY <1>4, Zenon DEF a, b
  <2> HIDE DEF x, y
  <2>4. IsShort(t, x, y)
    BY <2>2, <2>3, ShortIs
  <2>5. Len(x) + Len(y) <= 6
    BY <2>1, <2>2
  <2> QED
    BY <2>2, <2>4, <2>5, Zenon DEF Spells
<1>5. ASSUME NEW x \in Seq(Nat), NEW y \in Seq(Nat), Len(x) + Len(y) <= 6, IsShort(t, x, y), IP = Filled(x, y)
      PROVE  \E r \in Runs(IP) : t = ShortText(Before(IP, r[1]), After(IP, r[2]))
  <2> DEFINE a == Len(x) + 1
             b == 8 - Len(y)
  <2>1. /\ a \in 1 .. 8 /\ b \in 1 .. 8 /\ a < b
        /\ \A i \in a .. b : IP[i] = 0
        /\ Before(IP, a) = x /\ After(IP, b) = y
    BY <1>5, FilledIs
  <2>2. t = ShortText(x, y)
    BY <1>5, ShortIs, OnlyShort
  <2> HIDE DEF a, b
  <2>3. <<a, b>> \in Runs(IP)
    BY <2>1 DEF Runs
  <2>4. <<a, b>>[1] = a /\ <<a, b>>[2] = b
    OBVIOUS
  <2> QED
    BY <2>1, <2>2, <2>3, <2>4, Zenon
<1> QED
    BY <1>1, <1>3, <1>4, <1>5, Zenon DEF Spells

\* Every spelling is taken for the address.
LEMMA SpelledIsParsed ==
    ASSUME NEW IP \in Seq(Nat), Len(IP) = 8, NEW A, NEW t \in Seq(A), Spells(t, IP), Colon \notin Nat
    PROVE  parse_in6(t) = IP
<1>1. CASE AreColons(t, IP)
    BY <1>1, ParseWhole
<1>2. ASSUME NEW x \in Seq(Nat), NEW y \in Seq(Nat), Len(x) + Len(y) <= 6, IsShort(t, x, y), IP = Filled(x, y)
      PROVE  parse_in6(t) = IP
  <2>1. parse_in6(t) = Filled(x, y)
    BY <1>2, ParseShort
  <2> QED
    BY <1>2, <2>1
<1> QED
    BY <1>1, <1>2, Zenon DEF Spells

\* What is taken for an address spells it.
LEMMA ParsedIsSpelled ==
    ASSUME NEW A, NEW t \in Seq(A), Colon \notin Nat, parse_in6(t) # Refused
    PROVE  parse_in6(t) \in Seq(Nat) /\ Len(parse_in6(t)) = 8 /\ Spells(t, parse_in6(t))
<1>1. CASE IsWhole(t)
    BY <1>1, WholeParsed DEF Spells
<1>2. CASE ~IsWhole(t)
  <2>1. PICK k \in 0 .. 6 : Skips(t, k)
    BY <1>2, Zenon DEF parse_in6
  <2>2. PICK x \in Seq(Nat), y \in Seq(Nat) : Len(x) + Len(y) <= 6 /\ IsShort(t, x, y)
    BY <2>1, SkipsShort
  <2>3. parse_in6(t) = Filled(x, y)
    BY <2>2, ParseShort
  <2>4. Filled(x, y) \in Seq(Nat) /\ Len(Filled(x, y)) = 8
    BY <2>2, FilledIs
  <2> QED
    BY <2>2, <2>3, <2>4, Zenon DEF Spells
<1> QED
    BY <1>1, <1>2

ZeroRuns == [sz : Nat, start : Int, cur : Nat]
NoRun == [sz |-> 0, start |-> 1, cur |-> 0]
AllZeros(IP, a, b) == \A i \in a .. b : IP[i] = 0

\* what the loop of stringify_socket_address goes through
IsZerosRun(h, IP) ==
    /\ h[0] = NoRun
    /\ \A n \in 1 .. 8 : h[n] = TakePiece(h[n - 1], IP[n], n)
    /\ LargestZeros(IP) = h[8]

\* what a round makes of s
IsTaken(t, s, piece, i) ==
    LET cur == IF piece = 0 THEN s.cur + 1 ELSE 0
    IN  /\ t \in ZeroRuns
        /\ t.cur = cur
        /\ t.sz = IF cur > s.sz THEN cur ELSE s.sz
        /\ t.start = IF cur > s.sz THEN i + 1 - cur ELSE s.start

\* A round leaves records of the same kind.
LEMMA PieceTyped ==
    ASSUME NEW s \in ZeroRuns, NEW piece, NEW i \in 1 .. 8
    PROVE  IsTaken(TakePiece(s, piece, i), s, piece, i)
<1> DEFINE cur == IF piece = 0 THEN s.cur + 1 ELSE 0
<1>1. s.sz \in Nat /\ s.start \in Int /\ s.cur \in Nat
    BY DEF ZeroRuns
<1>2. cur \in Nat
    BY <1>1
<1>3. TakePiece(s, piece, i) = IF cur > s.sz THEN [sz |-> cur, start |-> i + 1 - cur, cur |-> cur]
                               ELSE [s EXCEPT !.cur = cur]
    BY Zenon DEF TakePiece
<1> HIDE DEF cur
<1>4. \/ /\ cur > s.sz
         /\ TakePiece(s, piece, i) = [sz |-> cur, start |-> i + 1 - cur, cur |-> cur]
      \/ /\ ~(cur > s.sz)
         /\ TakePiece(s, piece, i) = [s EXCEPT !.cur = cur]
    BY <1>3
<1>5. [sz |-> cur, start |-> i + 1 - cur, cur |-> cur] \in ZeroRuns
    BY <1>2 DEF ZeroRuns
<1>6. /\ TakePiece(s, piece, i) \in ZeroRuns
      /\ TakePiece(s, piece, i).cur = cur
      /\ TakePiece(s, piece, i).sz = IF cur > s.sz THEN cur ELSE s.sz
      /\ TakePiece(s, piece, i).start = IF cur > s.sz THEN i + 1 - cur ELSE s.start
  <2>1. CASE cur > s.sz
    BY <1>4, <1>5, <2>1
  <2>2. CASE ~(cur > s.sz)
    BY <1>1, <1>2, <1>4, <2>2 DEF ZeroRuns
  <2> QED
    BY <2>1, <2>2
<1> QED
    BY <1>6, Zenon DEF IsTaken, cur

\* The rounds of the loop, as a function.
LEMMA ZerosRun ==
    ASSUME NEW IP
    PROVE  \E h : IsZerosRun(h, IP)
<1> DEFINE A == ZeroRuns
           E(b, n) == TakePiece(b, IP[n], n)
           Step == [x \in A \X (1 .. 8) |-> E(x[1], x[2])]
           Is(f) == f = [n \in 0 .. 8 |-> IF n = 0 THEN NoRun ELSE E(f[n - 1], n)]
           course == CHOOSE f : Is(f)
<1>1. NoRun \in A
    BY DEF NoRun, ZeroRuns
<1>2. ASSUME NEW n \in 1 .. 8, NEW b \in A PROVE E(b, n) \in A
  <2>1. IsTaken(TakePiece(b, IP[n], n), b, IP[n], n)
    BY PieceTyped
  <2> QED
    BY <2>1, Zenon DEF IsTaken
<1> HIDE DEF A, E
<1>4. Step \in [A \X (1 .. 8) -> A] /\ \A b \in A, n \in 1 .. 8 : Step[<<b, n>>] = E(b, n)
    BY <1>2
<1> HIDE DEF Step
<1>5. PICK h : h \in Courses(A, 8, NoRun, Step)
  <2>1. Courses(A, 8, NoRun, Step) # {}
    BY <1>1, <1>4, Recursion
  <2> QED
    BY <2>1
<1>6. Is(h)
  <2>1. h \in [0 .. 8 -> A] /\ h[0] = NoRun /\ \A n \in 1 .. 8 : h[n] = Step[<<h[n - 1], n>>]
    BY <1>5 DEF Courses
  <2>2. ASSUME NEW n \in 1 .. 8 PROVE h[n] = E(h[n - 1], n)
    <3>1. h[n - 1] \in A
      BY <2>1
    <3> QED
      BY <1>4, <2>1, <3>1
  <2>3. \A n \in 0 .. 8 : h[n] = IF n = 0 THEN NoRun ELSE E(h[n - 1], n)
    <3>1. \A n \in 0 .. 8 : n = 0 \/ n \in 1 .. 8
      OBVIOUS
    <3>2. \A n \in 1 .. 8 : n # 0
      OBVIOUS
    <3> QED
      BY <2>1, <2>2, <3>1, <3>2, Zenon
  <2> QED
    BY <2>1, <2>3
<1> HIDE DEF Is
<1>7. Is(course)
    BY <1>6
<1> HIDE DEF course
<1>8. course[0] = NoRun /\ \A n \in 1 .. 8 : course[n] = E(course[n - 1], n)
    BY <1>7 DEF Is
<1>9. LargestZeros(IP) = course[8]
    BY Zenon DEF LargestZeros, course, Is, E, NoRun
<1> QED
    BY <1>8, <1>9, Zenon DEF IsZerosRun, E

\* after n numbers: the zeros that end there, and the most zeros in a row
IsRun(s, IP, n) ==
    /\ s \in ZeroRuns
    /\ s.cur <= n /\ s.cur <= s.sz
    /\ AllZeros(IP, n - s.cur + 1, n)
    /\ s.cur = n \/ IP[n - s.cur] # 0
    /\ s.sz >= 1 => /\ s.start \in 1 .. 8 /\ s.start + s.sz - 1 <= n
                    /\ AllZeros(IP, s.start, s.start + s.sz - 1)
    /\ \A a \in 1 .. 8, b \in 1 .. n : a <= b /\ AllZeros(IP, a, b) => b - a + 1 <= s.sz

\* One more number.
LEMMA RunGrows ==
    ASSUME NEW IP, NEW n \in 0 .. 7, NEW s, IsRun(s, IP, n)
    PROVE  IsRun(TakePiece(s, IP[n + 1], n + 1), IP, n + 1)
<1> DEFINE t == TakePiece(s, IP[n + 1], n + 1)
           i == n + 1
<1>1. i \in 1 .. 8 /\ i - 1 = n /\ n \in Nat
    OBVIOUS
<1>2. s \in ZeroRuns /\ s.sz \in Nat /\ s.start \in Int /\ s.cur \in Nat
    BY DEF IsRun, ZeroRuns
<1>3. /\ s.cur <= n /\ s.cur <= s.sz
      /\ \A j \in n - s.cur + 1 .. n : IP[j] = 0
      /\ s.cur = n \/ IP[n - s.cur] # 0
      /\ s.sz >= 1 => /\ s.start \in 1 .. 8 /\ s.start + s.sz - 1 <= n
                      /\ \A j \in s.start .. s.start + s.sz - 1 : IP[j] = 0
      /\ \A a \in 1 .. 8, b \in 1 .. n : a <= b /\ AllZeros(IP, a, b) => b - a + 1 <= s.sz
    BY Zenon DEF IsRun, AllZeros
<1>4. /\ t \in ZeroRuns
      /\ t.cur = IF IP[i] = 0 THEN s.cur + 1 ELSE 0
      /\ t.sz = IF t.cur > s.sz THEN t.cur ELSE s.sz
      /\ t.start = IF t.cur > s.sz THEN i + 1 - t.cur ELSE s.start
  <2> DEFINE cur == IF IP[i] = 0 THEN s.cur + 1 ELSE 0
  <2>1. /\ t \in ZeroRuns
        /\ t.cur = cur
        /\ t.sz = IF cur > s.sz THEN cur ELSE s.sz
        /\ t.start = IF cur > s.sz THEN i + 1 - cur ELSE s.start
    <3> HIDE DEF t, i
    <3>1. \A p : \A v \in ZeroRuns, j \in 1 .. 8 : IsTaken(TakePiece(v, p, j), v, p, j)
      BY PieceTyped
    <3>2. IsTaken(TakePiece(s, IP[i], i), s, IP[i], i)
      BY <1>1, <1>2, <3>1, Zenon
    <3> QED
      BY <3>2, Zenon DEF IsTaken, t, i
  <2> HIDE DEF t, cur
  <2>2. cur = t.cur
    BY <2>1
  <2>3. t.cur = IF IP[i] = 0 THEN s.cur + 1 ELSE 0
    BY <2>1 DEF cur
  <2> QED
    BY <2>1, <2>2, <2>3
<1>5. t.sz \in Nat /\ t.start \in Int /\ t.cur \in Nat
    BY <1>4 DEF ZeroRuns
<1> HIDE DEF t, i
<1>6. t.cur <= i /\ t.cur <= t.sz
    BY <1>1, <1>2, <1>3, <1>4, <1>5
<1>7. \A j \in i - t.cur + 1 .. i : IP[j] = 0
  <2>1. CASE IP[i] = 0
    <3>1. t.cur = s.cur + 1
      BY <1>4, <2>1
    <3>2. ASSUME NEW j \in i - t.cur + 1 .. i PROVE IP[j] = 0
      <4>1. CASE j = i
        BY <2>1, <4>1
      <4>2. CASE j # i
        <5>1. j \in n - s.cur + 1 .. n
          BY <1>1, <1>2, <3>1, <4>2 DEF i
        <5> QED
          BY <1>3, <5>1
      <4> QED
        BY <4>1, <4>2
    <3> QED
      BY <3>2
  <2>2. CASE IP[i] # 0
    <3>1. t.cur = 0
      BY <1>4, <2>2
    <3> QED
      BY <1>1, <3>1
  <2> QED
    BY <2>1, <2>2
<1>8. t.cur = i \/ IP[i - t.cur] # 0
  <2>1. CASE IP[i] = 0
    <3>1. t.cur = s.cur + 1
      BY <1>4, <2>1
    <3>2. i - t.cur = n - s.cur /\ (s.cur = n => t.cur = i)
      BY <1>1, <1>2, <3>1 DEF i
    <3> QED
      BY <1>3, <3>2
  <2>2. CASE IP[i] # 0
    <3>1. t.cur = 0 /\ i - 0 = i
      BY <1>1, <1>4, <2>2
    <3> QED
      BY <2>2, <3>1
  <2> QED
    BY <2>1, <2>2
<1>9. t.sz >= 1 => /\ t.start \in 1 .. 8 /\ t.start + t.sz - 1 <= i
                   /\ \A j \in t.start .. t.start + t.sz - 1 : IP[j] = 0
  <2>1. CASE t.cur > s.sz
    <3>1. t.sz = t.cur /\ t.start = i + 1 - t.cur /\ t.start + t.sz - 1 = i /\ t.start = i - t.cur + 1
      BY <1>1, <1>4, <1>5, <2>1
    <3>2. t.sz >= 1 => t.start \in 1 .. 8
      BY <1>1, <1>5, <1>6, <3>1
    <3> QED
      BY <1>1, <1>7, <3>1, <3>2
  <2>2. CASE ~(t.cur > s.sz)
    <3>1. t.sz = s.sz /\ t.start = s.start /\ n <= i
      BY <1>1, <1>4, <2>2
    <3>2. s.sz >= 1 => s.start + s.sz - 1 <= i
      BY <1>1, <1>2, <1>3, <3>1
    <3> QED
      BY <1>3, <3>1, <3>2
  <2> QED
    BY <2>1, <2>2
<1>10. ASSUME NEW a \in 1 .. 8, NEW b \in 1 .. i, a <= b, AllZeros(IP, a, b)
       PROVE  b - a + 1 <= t.sz
  <2>1. CASE b # i
    <3>1. b \in 1 .. n
      BY <1>1, <2>1
    <3>2. b - a + 1 <= s.sz
      BY <1>3, <1>10, <3>1
    <3>3. s.sz <= t.sz
      BY <1>2, <1>4, <1>5
    <3> QED
      BY <1>2, <1>5, <3>2, <3>3
  <2>2. CASE b = i
    <3>1. \A j \in a .. i : IP[j] = 0
      BY <1>10, <2>2, Zenon DEF AllZeros
    <3>2. a \in Nat /\ 1 <= a /\ a <= i
      BY <1>10, <2>2
    <3>3. IP[i] = 0
      <4>1. i \in a .. i
        BY <1>1, <3>2
      <4> QED
        BY <3>1, <4>1
    <3>4. t.cur # 0
      BY <1>2, <1>4, <3>3
    <3>5. ~(a <= i - t.cur)
      <4> SUFFICES ASSUME a <= i - t.cur PROVE FALSE
        OBVIOUS
      <4>1. i - t.cur \in a .. i /\ t.cur # i
        BY <1>1, <1>5, <3>2
      <4> QED
        BY <1>8, <3>1, <4>1
    <3>6. i - a + 1 <= t.cur
      BY <1>1, <1>5, <3>2, <3>5
    <3> QED
      BY <1>1, <1>5, <1>6, <2>2, <3>2, <3>6
  <2> QED
    BY <2>1, <2>2
<1>11. IsRun(t, IP, i)
    BY <1>4, <1>6, <1>7, <1>8, <1>9, <1>10, Zenon DEF IsRun, AllZeros
<1> QED
    BY <1>11 DEF t, i

\* The loop finds the most zeros in a row.
LEMMA LargestIs ==
    ASSUME NEW IP
    PROVE  IsRun(LargestZeros(IP), IP, 8)
<1>1. PICK h : IsZerosRun(h, IP)
    BY ZerosRun
<1>2. h[0] = NoRun /\ (\A n \in 1 .. 8 : h[n] = TakePiece(h[n - 1], IP[n], n)) /\ LargestZeros(IP) = h[8]
    BY <1>1, Zenon DEF IsZerosRun
<1> DEFINE S == {n \in 0 .. 8 : IsRun(h[n], IP, n)}
<1>3. 0 \in S
  <2>1. NoRun \in ZeroRuns /\ NoRun.cur = 0 /\ NoRun.sz = 0
    BY DEF NoRun, ZeroRuns
  <2>2. 0 - 0 + 1 = 1 /\ 1 .. 0 = {} /\ ~(0 >= 1) /\ 0 <= 0
    OBVIOUS
  <2>3. IsRun(NoRun, IP, 0)
    BY <2>1, <2>2, Zenon DEF IsRun, AllZeros
  <2> QED
    BY <1>2, <2>3
<1>4. ASSUME NEW n \in 0 .. 7, n \in S PROVE n + 1 \in S
  <2>1. n + 1 \in 1 .. 8 /\ (n + 1) - 1 = n /\ n + 1 \in 0 .. 8
    OBVIOUS
  <2>2. h[n + 1] = TakePiece(h[n], IP[n + 1], n + 1)
    BY <1>2, <2>1
  <2>3. IsRun(h[n], IP, n)
    BY <1>4
  <2>4. IsRun(h[n + 1], IP, n + 1)
    BY <2>2, <2>3, RunGrows
  <2> QED
    BY <2>1, <2>4
<1> HIDE DEF S
<1>5. \A n \in 0 .. 8 : n \in S
  <2>1. \A n \in 0 .. 8 - 1 : n \in S => n + 1 \in S
    BY <1>4
  <2> QED
    BY <1>3, <2>1, InductiveTo
<1>6. 8 \in S
    BY <1>5
<1> QED
    BY <1>2, <1>6 DEF S

\* the pieces stringify_socket_address puts one after the other
PiecesOf(IP) ==
    LET run == LargestZeros(IP)
    IN  [i \in 1 .. 8 |->
            IF Elided(run, i)
            THEN IF i # run.start THEN <<>>
                 ELSE IF run.start + run.sz = 9 THEN <<Colon, Colon>> ELSE <<Colon>>
            ELSE IF i > 1 THEN <<Colon, IP[i]>> ELSE <<IP[i]>>]

\* When there is no run of zeros to leave out, all numbers are written.
LEMMA AllWritten ==
    ASSUME NEW IP \in Seq(Nat), Len(IP) = 8, ~(LargestZeros(IP).sz >= 2)
    PROVE  stringify_in6(IP) = Colons(IP)
<1> DEFINE G == [i \in 1 .. 8 |-> IF i = 1 THEN <<IP[i]>> ELSE <<Colon, IP[i]>>]
           run == LargestZeros(IP)
<1>1. stringify_in6(IP) = FlattenSeq(PiecesOf(IP))
    BY Zenon DEF stringify_in6, PiecesOf
<1>2. Colons(IP) = FlattenSeq(G)
  <2>1. Colons(IP) = FlattenSeq([i \in 1 .. Len(IP) |-> IF i = 1 THEN <<IP[i]>> ELSE <<Colon, IP[i]>>])
    BY Zenon DEF Colons
  <2> QED
    BY <2>1
<1>3. \A i : ~Elided(run, i)
    BY Zenon DEF Elided
<1>4. PiecesOf(IP) = [i \in 1 .. 8 |-> IF i > 1 THEN <<Colon, IP[i]>> ELSE <<IP[i]>>]
  <2>1. PiecesOf(IP) = [i \in 1 .. 8 |->
            IF Elided(run, i)
            THEN IF i # run.start THEN <<>>
                 ELSE IF run.start + run.sz = 9 THEN <<Colon, Colon>> ELSE <<Colon>>
            ELSE IF i > 1 THEN <<Colon, IP[i]>> ELSE <<IP[i]>>]
    BY Zenon DEF PiecesOf
  <2> HIDE DEF run
  <2> QED
    BY <1>3, <2>1, Zenon
<1>5. \A i \in 1 .. 8 : i > 1 <=> i # 1
    OBVIOUS
<1>6. PiecesOf(IP) = G
    BY <1>4, <1>5, Zenon
<1> QED
    BY <1>1, <1>2, <1>6

\* where the pieces end when the zeros from a to b are left out
EndOf(m, a, b) ==
    IF m < a THEN (IF m = 0 THEN 0 ELSE 2 * m - 1)
    ELSE IF m <= b THEN SkipAt(a - 1) + (IF b = 8 THEN 1 ELSE 0)
    ELSE SkipAt(a - 1) + 2 * (m - b)

\* how long the pieces are
LengthOf(i, a, b) ==
    IF i \in a .. b THEN IF i # a THEN 0 ELSE IF b = 8 THEN 2 ELSE 1
    ELSE IF i > 1 THEN 2 ELSE 1

\* One piece more.
LEMMA EndGrows ==
    ASSUME NEW m \in 0 .. 7, NEW a \in 1 .. 8, NEW b \in 1 .. 8, a < b
    PROVE  EndOf(m + 1, a, b) = EndOf(m, a, b) + LengthOf(m + 1, a, b)
<1> DEFINE n == SkipAt(a - 1)
<1>1. n \in Nat /\ n = IF a = 1 THEN 1 ELSE 2 * a - 2
    BY DEF SkipAt
<1> HIDE DEF n
<1>2. EndOf(m, a, b) = IF m < a THEN (IF m = 0 THEN 0 ELSE 2 * m - 1)
                       ELSE IF m <= b THEN n + (IF b = 8 THEN 1 ELSE 0) ELSE n + 2 * (m - b)
    BY Zenon DEF EndOf, n
<1>3. EndOf(m + 1, a, b) = IF m + 1 < a THEN (IF m + 1 = 0 THEN 0 ELSE 2 * (m + 1) - 1)
                           ELSE IF m + 1 <= b THEN n + (IF b = 8 THEN 1 ELSE 0) ELSE n + 2 * ((m + 1) - b)
    BY Zenon DEF EndOf, n
<1>4. CASE m + 1 < a
  <2>1. LengthOf(m + 1, a, b) = IF m = 0 THEN 1 ELSE 2
    BY <1>4 DEF LengthOf
  <2> QED
    BY <1>2, <1>3, <1>4, <2>1
<1>5. CASE m + 1 = a
  <2>1. LengthOf(m + 1, a, b) = IF b = 8 THEN 2 ELSE 1
    BY <1>5 DEF LengthOf
  <2> QED
    BY <1>1, <1>2, <1>3, <1>5, <2>1
<1>6. CASE a < m + 1 /\ m + 1 <= b
  <2>1. LengthOf(m + 1, a, b) = 0
    BY <1>6 DEF LengthOf
  <2> QED
    BY <1>1, <1>2, <1>3, <1>6, <2>1
<1>7. CASE b < m + 1
  <2>1. LengthOf(m + 1, a, b) = 2 /\ b # 8
    BY <1>7 DEF LengthOf
  <2> QED
    BY <1>1, <1>2, <1>3, <1>7, <2>1
<1> QED
    BY <1>4, <1>5, <1>6, <1>7

\* what the pieces are then
ArePieces(F, IP, a, b) ==
    \A i \in 1 .. 8 :
        /\ Len(F[i]) = LengthOf(i, a, b)
        /\ i = 1 /\ i \notin a .. b => F[i] = <<IP[i]>>
        /\ i # 1 /\ i \notin a .. b => F[i] = <<Colon, IP[i]>>
        /\ i = a => F[i] = IF b = 8 THEN <<Colon, Colon>> ELSE <<Colon>>
        /\ i \in a .. b /\ i # a => F[i] = <<>>

\* The run of zeros decides on the pieces.
LEMMA PiecesAre ==
    ASSUME NEW IP \in Seq(Nat), Len(IP) = 8, NEW a \in 1 .. 8, NEW b \in 1 .. 8, a < b,
           LargestZeros(IP).sz \in Nat, LargestZeros(IP).sz >= 2,
           LargestZeros(IP).start = a, a + LargestZeros(IP).sz - 1 = b
    PROVE  PiecesOf(IP) \in [1 .. 8 -> Seq(Symbols)] /\ ArePieces(PiecesOf(IP), IP, a, b)
<1> DEFINE run == LargestZeros(IP)
           F == PiecesOf(IP)
           G(i) == IF i \in a .. b
                   THEN IF i # a THEN <<>> ELSE IF b = 8 THEN <<Colon, Colon>> ELSE <<Colon>>
                   ELSE IF i > 1 THEN <<Colon, IP[i]>> ELSE <<IP[i]>>
<1>1. \A i : Elided(run, i) <=> i \in a .. b
    BY Zenon DEF Elided
<1>2. a + run.sz = 9 <=> b = 8
    OBVIOUS
<1>3. F = [i \in 1 .. 8 |-> G(i)]
  <2>1. F = [i \in 1 .. 8 |->
            IF Elided(run, i)
            THEN IF i # a THEN <<>>
                 ELSE IF a + run.sz = 9 THEN <<Colon, Colon>> ELSE <<Colon>>
            ELSE IF i > 1 THEN <<Colon, IP[i]>> ELSE <<IP[i]>>]
    BY Zenon DEF PiecesOf
  <2> HIDE DEF run, F
  <2> QED
    BY <1>1, <1>2, <2>1, Zenon
<1> HIDE DEF F, run
<1>4. ASSUME NEW i \in 1 .. 8 PROVE G(i) \in Seq(Symbols)
  <2> DEFINE S == Symbols
             p == IP[i]
  <2>0. p \in Nat
    <3>1. \A k \in 1 .. Len(IP) : IP[k] \in Nat
      BY Elements
    <3> QED
      BY <3>1
  <2>1. p \in S /\ Colon \in S
    BY <2>0, Zenon DEF Symbols
  <2> HIDE DEF p, S
  <2>2. <<>> \in Seq(S) /\ <<Colon, Colon>> \in Seq(S) /\ <<Colon>> \in Seq(S) /\ <<Colon, p>> \in Seq(S) /\ <<p>> \in Seq(S)
    BY <2>1
  <2>3. G(i) \in {<<>>, <<Colon, Colon>>, <<Colon>>, <<Colon, p>>, <<p>>}
    BY Zenon DEF p
  <2> QED
    BY <2>2, <2>3, Zenon DEF S
<1>5. F \in [1 .. 8 -> Seq(Symbols)] /\ \A i \in 1 .. 8 : F[i] = G(i)
  <2> HIDE DEF G
  <2> QED
    BY <1>3, <1>4
<1>6. ASSUME NEW i \in 1 .. 8
      PROVE  /\ Len(F[i]) = LengthOf(i, a, b)
             /\ i = 1 /\ i \notin a .. b => F[i] = <<IP[i]>>
             /\ i # 1 /\ i \notin a .. b => F[i] = <<Colon, IP[i]>>
             /\ i = a => F[i] = IF b = 8 THEN <<Colon, Colon>> ELSE <<Colon>>
             /\ i \in a .. b /\ i # a => F[i] = <<>>
  <2> DEFINE p == IP[i]
  <2>1. F[i] = IF i \in a .. b
               THEN IF i # a THEN <<>> ELSE IF b = 8 THEN <<Colon, Colon>> ELSE <<Colon>>
               ELSE IF i > 1 THEN <<Colon, p>> ELSE <<p>>
    BY <1>5, Zenon
  <2> HIDE DEF p
  <2>2. Len(<<>>) = 0 /\ Len(<<Colon>>) = 1 /\ Len(<<Colon, Colon>>) = 2 /\ Len(<<p>>) = 1 /\ Len(<<Colon, p>>) = 2
    OBVIOUS
  <2>3. (i = a => i \in a .. b) /\ (i > 1 <=> i # 1)
    OBVIOUS
  <2>4. Len(F[i]) = LengthOf(i, a, b)
    <3>1. LengthOf(i, a, b) = IF i \in a .. b THEN IF i # a THEN 0 ELSE IF b = 8 THEN 2 ELSE 1
                              ELSE IF i > 1 THEN 2 ELSE 1
      BY Zenon DEF LengthOf
    <3>2. CASE i \in a .. b
      <4>1. Len(F[i]) = IF i # a THEN 0 ELSE IF b = 8 THEN 2 ELSE 1
        <5>1. F[i] = IF i # a THEN <<>> ELSE IF b = 8 THEN <<Colon, Colon>> ELSE <<Colon>>
          BY <2>1, <3>2, Zenon
        <5> QED
          BY <2>2, <5>1, Zenon
      <4> QED
        BY <3>1, <3>2, <4>1, Zenon
    <3>3. CASE ~(i \in a .. b)
      <4>1. F[i] = IF i > 1 THEN <<Colon, p>> ELSE <<p>>
        BY <2>1, <3>3, Zenon
      <4>2. Len(F[i]) = IF i > 1 THEN 2 ELSE 1
        BY <2>2, <4>1, Zenon
      <4> QED
        BY <3>1, <3>3, <4>2, Zenon
    <3> QED
      BY <3>2, <3>3
  <2>5. /\ i = 1 /\ i \notin a .. b => F[i] = <<p>>
        /\ i # 1 /\ i \notin a .. b => F[i] = <<Colon, p>>
        /\ i = a => F[i] = IF b = 8 THEN <<Colon, Colon>> ELSE <<Colon>>
        /\ i \in a .. b /\ i # a => F[i] = <<>>
    BY <2>1, <2>3, Zenon
  <2> QED
    BY <2>4, <2>5, Zenon DEF p
<1> QED
    BY <1>5, <1>6, Zenon DEF ArePieces, F

\* Where a piece begins that is before, at or after the zeros left out.
LEMMA BeginsAt ==
    ASSUME NEW a \in 1 .. 8, NEW b \in 1 .. 8, a < b
    PROVE  LET n == SkipAt(a - 1)
           IN  /\ EndOf(a - 1, a, b) = n - 1
               /\ \A j \in 1 .. a - 1 : EndOf(j - 1, a, b) = IF j = 1 THEN 0 ELSE 2 * j - 3
               /\ \A j \in 1 .. a - 1 : EndOf(j, a, b) = 2 * j - 1
               /\ \A j \in 1 .. 8 - b : EndOf(b + j - 1, a, b) = n + 2 * j - 2
               /\ EndOf(8, a, b) = n + (IF b = 8 THEN 1 ELSE 2 * (8 - b))
<1> DEFINE n == SkipAt(a - 1)
           E(m) == EndOf(m, a, b)
<1>1. n \in Nat /\ n = IF a = 1 THEN 1 ELSE 2 * a - 2
    BY DEF SkipAt
<1> HIDE DEF n
<1>2. \A m : E(m) = IF m < a THEN (IF m = 0 THEN 0 ELSE 2 * m - 1)
                    ELSE IF m <= b THEN n + (IF b = 8 THEN 1 ELSE 0) ELSE n + 2 * (m - b)
    BY Zenon DEF EndOf, n
<1> HIDE DEF E
<1>3. E(a - 1) = n - 1
  <2>1. E(a - 1) = IF a - 1 < a THEN (IF a - 1 = 0 THEN 0 ELSE 2 * (a - 1) - 1)
                   ELSE IF a - 1 <= b THEN n + (IF b = 8 THEN 1 ELSE 0) ELSE n + 2 * ((a - 1) - b)
    BY <1>2
  <2> QED
    BY <1>1, <2>1
<1>4. ASSUME NEW j \in 1 .. a - 1 PROVE E(j - 1) = (IF j = 1 THEN 0 ELSE 2 * j - 3) /\ E(j) = 2 * j - 1
  <2>1. E(j - 1) = IF j - 1 < a THEN (IF j - 1 = 0 THEN 0 ELSE 2 * (j - 1) - 1)
                   ELSE IF j - 1 <= b THEN n + (IF b = 8 THEN 1 ELSE 0) ELSE n + 2 * ((j - 1) - b)
    BY <1>2
  <2>2. E(j) = IF j < a THEN (IF j = 0 THEN 0 ELSE 2 * j - 1)
               ELSE IF j <= b THEN n + (IF b = 8 THEN 1 ELSE 0) ELSE n + 2 * (j - b)
    BY <1>2
  <2> QED
    BY <2>1, <2>2
<1>5. ASSUME NEW j \in 1 .. 8 - b PROVE E(b + j - 1) = n + 2 * j - 2
  <2>1. E(b + j - 1) = IF b + j - 1 < a THEN (IF b + j - 1 = 0 THEN 0 ELSE 2 * (b + j - 1) - 1)
                   ELSE IF b + j - 1 <= b THEN n + (IF b = 8 THEN 1 ELSE 0) ELSE n + 2 * ((b + j - 1) - b)
    BY <1>2
  <2> QED
    BY <1>1, <2>1
<1>6. E(8) = n + (IF b = 8 THEN 1 ELSE 2 * (8 - b))
  <2>1. E(8) = IF 8 < a THEN (IF 8 = 0 THEN 0 ELSE 2 * 8 - 1)
               ELSE IF 8 <= b THEN n + (IF b = 8 THEN 1 ELSE 0) ELSE n + 2 * (8 - b)
    BY <1>2
  <2> QED
    BY <1>1, <2>1
<1> QED
    BY <1>3, <1>4, <1>5, <1>6, Zenon DEF n, E

\* With the zeros from a to b left out, the text is what is before them and what is after.
LEMMA ShortWritten ==
    ASSUME NEW IP \in Seq(Nat), Len(IP) = 8, NEW a \in 1 .. 8, NEW b \in 1 .. 8, a < b,
           \A i \in a .. b : IP[i] = 0,
           LargestZeros(IP).sz \in Nat, LargestZeros(IP).sz >= 2,
           LargestZeros(IP).start = a, a + LargestZeros(IP).sz - 1 = b
    PROVE  /\ stringify_in6(IP) \in Seq(Symbols)
           /\ IsShort(stringify_in6(IP), Before(IP, a), After(IP, b))
<1> DEFINE F == PiecesOf(IP)
           x == Before(IP, a)
           y == After(IP, b)
           n == SkipAt(a - 1)
           t == FlattenSeq(F)
<1>1. stringify_in6(IP) = t
    BY Zenon DEF stringify_in6, PiecesOf
<1>2. F \in [1 .. 8 -> Seq(Symbols)] /\ ArePieces(F, IP, a, b)
    BY PiecesAre
<1>3. x \in Seq(Nat) /\ y \in Seq(Nat) /\ Len(x) = a - 1 /\ Len(y) = 8 - b
    BY FilledAgain
<1>4. (\A i \in 1 .. a - 1 : x[i] = IP[i]) /\ \A i \in 1 .. 8 - b : y[i] = IP[b + i]
  <2>1. /\ 1 \in Nat \ {0} /\ a - 1 \in Nat /\ 1 <= (a - 1) + 1 /\ a - 1 <= Len(IP) /\ (a - 1) - 1 + 1 = a - 1
        /\ b + 1 \in Nat \ {0} /\ 8 \in Nat /\ b + 1 <= 8 + 1 /\ 8 <= Len(IP) /\ 8 - (b + 1) + 1 = 8 - b
        /\ \A i \in 1 .. 8 - b : (b + 1) + i - 1 = b + i
        /\ \A i \in 1 .. a - 1 : 1 + i - 1 = i
    OBVIOUS
  <2>2. x = SubSeq(IP, 1, a - 1) /\ y = SubSeq(IP, b + 1, 8)
    BY Zenon DEF Before, After
  <2> HIDE DEF x, y
  <2>3. IsPart(x, IP, 1, a - 1)
    BY <2>1, <2>2, Part
  <2>4. IsPart(y, IP, b + 1, 8)
    BY <2>1, <2>2, Part
  <2>5. ASSUME NEW i \in 1 .. a - 1 PROVE x[i] = IP[i]
    <3>1. x[i] = IP[1 + i - 1]
      BY <2>1, <2>3 DEF IsPart
    <3> QED
      BY <2>1, <3>1
  <2>6. ASSUME NEW i \in 1 .. 8 - b PROVE y[i] = IP[b + i]
    <3>1. y[i] = IP[(b + 1) + i - 1]
      BY <2>1, <2>4 DEF IsPart
    <3> QED
      BY <2>1, <3>1
  <2> QED
    BY <2>5, <2>6
<1> HIDE DEF F, x, y
<1>5. t \in Seq(Symbols) /\ \E off : AreEnds(off, 8, F)
  <2>1. 8 \in Nat
    OBVIOUS
  <2> QED
    BY <1>2, <2>1, Pieces
<1>6. PICK off : AreEnds(off, 8, F)
    BY <1>5
<1> HIDE DEF t
<1>7. /\ off \in [0 .. 8 -> Nat] /\ off[0] = 0 /\ Len(t) = off[8]
      /\ \A m \in 1 .. 8 : off[m] = off[m - 1] + Len(F[m])
      /\ \A m \in 1 .. 8 : \A k \in 1 .. Len(F[m]) : t[off[m - 1] + k] = F[m][k]
    BY <1>6, Zenon DEF AreEnds, t
<1>8. \A m \in 0 .. 8 : off[m] = EndOf(m, a, b)
  <2> DEFINE S == {m \in 0 .. 8 : off[m] = EndOf(m, a, b)}
  <2>1. 0 \in S
    <3>1. EndOf(0, a, b) = 0
      BY DEF EndOf
    <3> QED
      BY <1>7, <3>1
  <2>2. ASSUME NEW m \in 0 .. 7, m \in S PROVE m + 1 \in S
    <3>1. m + 1 \in 1 .. 8 /\ (m + 1) - 1 = m /\ m + 1 \in 0 .. 8
      OBVIOUS
    <3>2. Len(F[m + 1]) = LengthOf(m + 1, a, b)
      BY <1>2, <3>1, Zenon DEF ArePieces
    <3>3. off[m + 1] = off[m] + Len(F[m + 1])
      BY <1>7, <3>1
    <3>4. off[m] = EndOf(m, a, b)
      BY <2>2
    <3>5. off[m + 1] = EndOf(m + 1, a, b)
      <4>1. EndOf(m + 1, a, b) = EndOf(m, a, b) + LengthOf(m + 1, a, b)
        BY EndGrows
      <4> QED
        BY <3>2, <3>3, <3>4, <4>1, Zenon
    <3> QED
      BY <3>1, <3>5
  <2> HIDE DEF S
  <2>3. \A m \in 0 .. 8 - 1 : m \in S => m + 1 \in S
    BY <2>2
  <2>4. \A m \in 0 .. 8 : m \in S
    BY <2>1, <2>3, InductiveTo
  <2> QED
    BY <2>4 DEF S
<1>9. /\ EndOf(a - 1, a, b) = n - 1
      /\ \A j \in 1 .. a - 1 : EndOf(j - 1, a, b) = IF j = 1 THEN 0 ELSE 2 * j - 3
      /\ \A j \in 1 .. a - 1 : EndOf(j, a, b) = 2 * j - 1
      /\ \A j \in 1 .. 8 - b : EndOf(b + j - 1, a, b) = n + 2 * j - 2
      /\ EndOf(8, a, b) = n + (IF b = 8 THEN 1 ELSE 2 * (8 - b))
    BY BeginsAt, ZenonT(30)
<1>10. n \in Nat /\ n = IF a = 1 THEN 1 ELSE 2 * a - 2
    BY DEF SkipAt
<1> HIDE DEF n
<1>11. Len(t) = n + (IF b = 8 THEN 1 ELSE 2 * (8 - b))
  <2>1. 8 \in 0 .. 8
    OBVIOUS
  <2> QED
    BY <1>7, <1>8, <1>9, <2>1, SMTT(30)
<1>12. t[n] = Colon /\ (b = 8 => t[n + 1] = Colon)
  <2>1. a - 1 \in 0 .. 8 /\ (n - 1) + 1 = n /\ (n - 1) + 2 = n + 1
    BY <1>10
  <2>2. off[a - 1] = n - 1
    BY <1>8, <1>9, <2>1
  <2>3. F[a] = IF b = 8 THEN <<Colon, Colon>> ELSE <<Colon>>
    BY <1>2, Zenon DEF ArePieces
  <2>4. Len(F[a]) = (IF b = 8 THEN 2 ELSE 1) /\ F[a][1] = Colon /\ (b = 8 => F[a][2] = Colon)
    BY <2>3
  <2>5. 1 \in 1 .. Len(F[a]) /\ (b = 8 => 2 \in 1 .. Len(F[a]))
    BY <2>4
  <2>6. t[off[a - 1] + 1] = Colon /\ (b = 8 => t[off[a - 1] + 2] = Colon)
    BY <1>7, <2>4, <2>5
  <2> QED
    BY <2>1, <2>2, <2>6
<1>13. ASSUME NEW j \in 1 .. a - 1 PROVE t[2 * j - 1] = x[j] /\ t[2 * j] = Colon
  <2>1. j \in 1 .. 8 /\ j \notin a .. b /\ j - 1 \in 0 .. 8 /\ j \in 0 .. 8 /\ j \in Nat
    OBVIOUS
  <2>2. t[2 * j - 1] = IP[j]
    <3>1. CASE j = 1
      <4>1. F[1] = <<IP[1]>> /\ off[1 - 1] = 0
        BY <1>2, <1>7, <2>1, <3>1 DEF ArePieces
      <4>2. 1 \in 1 .. Len(F[1]) /\ F[1][1] = IP[1] /\ 0 + 1 = 1 /\ 2 * 1 - 1 = 1 /\ 1 \in 1 .. 8
        BY <4>1
      <4>3. t[off[1 - 1] + 1] = F[1][1]
        BY <1>7, <4>2
      <4> QED
        BY <3>1, <4>1, <4>2, <4>3
    <3>2. CASE j # 1
      <4>1. F[j] = <<Colon, IP[j]>>
        BY <1>2, <2>1, <3>2, Zenon DEF ArePieces
      <4>2. off[j - 1] = 2 * j - 3
        BY <1>8, <1>9, <2>1, <3>2
      <4>3. 2 \in 1 .. Len(F[j]) /\ F[j][2] = IP[j]
        BY <4>1
      <4>4. t[off[j - 1] + 2] = F[j][2]
        BY <1>7, <2>1, <4>3
      <4>5. off[j - 1] + 2 = 2 * j - 1
        BY <2>1, <4>2
      <4> QED
        BY <4>3, <4>4, <4>5
    <3> QED
      BY <3>1, <3>2
  <2>3. t[2 * j] = Colon
    <3>1. CASE j = a - 1
      <4>1. 2 * j = n
        BY <1>10, <3>1
      <4> QED
        BY <1>12, <4>1
    <3>2. CASE j # a - 1
      <4>1. j + 1 \in 1 .. 8 /\ j + 1 # 1 /\ j + 1 \notin a .. b /\ (j + 1) - 1 = j
        BY <3>2
      <4>2. F[j + 1] = <<Colon, IP[j + 1]>>
        BY <1>2, <4>1, Zenon DEF ArePieces
      <4>3. off[j] = 2 * j - 1
        BY <1>8, <1>9, <2>1
      <4>4. 1 \in 1 .. Len(F[j + 1]) /\ F[j + 1][1] = Colon
        BY <4>2
      <4>5. t[off[(j + 1) - 1] + 1] = F[j + 1][1]
        BY <1>7, <4>1, <4>4
      <4>6. off[j] + 1 = 2 * j
        BY <2>1, <4>3
      <4> QED
        BY <4>1, <4>4, <4>5, <4>6
    <3> QED
      BY <3>1, <3>2
  <2> QED
    BY <1>4, <2>2, <2>3
<1>14. ASSUME NEW j \in 1 .. 8 - b PROVE t[n + 2 * j - 1] = Colon /\ t[n + 2 * j] = y[j]
  <2>1. b + j \in 1 .. 8 /\ b + j # 1 /\ b + j \notin a .. b /\ (b + j) - 1 \in 0 .. 8 /\ j \in Nat
        /\ (b + j) - 1 = b + j - 1
    <3>1. j \in Nat /\ 1 <= j /\ j <= 8 - b /\ b \in Nat /\ 2 <= b
      OBVIOUS
    <3> QED
      BY <3>1
  <2>2. F[b + j] = <<Colon, IP[b + j]>>
    BY <1>2, <2>1, Zenon DEF ArePieces
  <2>3. off[(b + j) - 1] = n + 2 * j - 2
    BY <1>8, <1>9, <2>1
  <2>4. 1 \in 1 .. Len(F[b + j]) /\ 2 \in 1 .. Len(F[b + j]) /\ F[b + j][1] = Colon /\ F[b + j][2] = IP[b + j]
    BY <2>2
  <2>5. t[off[(b + j) - 1] + 1] = Colon /\ t[off[(b + j) - 1] + 2] = IP[b + j]
    BY <1>7, <2>1, <2>4
  <2>6. off[(b + j) - 1] + 1 = n + 2 * j - 1 /\ off[(b + j) - 1] + 2 = n + 2 * j
    BY <1>10, <2>1, <2>3
  <2> QED
    BY <1>4, <2>5, <2>6
<1>15. SkipAt(Len(x)) = n /\ Len(x) = a - 1 /\ Len(y) = 8 - b
    BY <1>3 DEF n
<1>16. IsShort(t, x, y)
  <2>1. Len(x) = 0 => t[1] = Colon
    BY <1>10, <1>12, <1>15
  <2>2. Len(y) = 0 => t[n + 1] = Colon
    BY <1>12, <1>15
  <2>3. Len(t) = n + (IF Len(y) = 0 THEN 1 ELSE 2 * Len(y))
    BY <1>11, <1>15
  <2>4. \A j \in 1 .. Len(x) : t[2 * j - 1] = x[j] /\ t[2 * j] = Colon
    BY <1>13, <1>15
  <2>5. \A j \in 1 .. Len(y) : t[n + 2 * j - 1] = Colon /\ t[n + 2 * j] = y[j]
    BY <1>14, <1>15
  <2> QED
    BY <1>15, <2>1, <2>2, <2>3, <2>4, <2>5, Zenon DEF IsShort
<1> QED
    BY <1>1, <1>5, <1>16 DEF x, y

\* f numbers the elements of S
IsNumbering(f, N, S) ==
    /\ f \in [1 .. N -> S]
    /\ \A i, j \in 1 .. N : f[i] = f[j] => i = j
    /\ \A s \in S : \E i \in 1 .. N : f[i] = s

\* A set whose elements are numbered has as many elements as there are numbers.
LEMMA CountBy ==
    ASSUME NEW S, NEW N \in Nat, NEW f, IsNumbering(f, N, S)
    PROVE  Cardinality(S) = N
<1>1. DOMAIN f = 1 .. N
    BY DEF IsNumbering
<1>2. f \in Bijection(1 .. N, S)
    BY <1>1, Zenon DEF Bijection, Injection, Surjection, IsInjective, IsNumbering
<1>3. ExistsBijection(1 .. N, S)
    BY <1>2, Zenon DEF ExistsBijection
<1> QED
    BY <1>3, FS_CountingElements

\* All numbers of an address written out.
LEMMA NumbersOfAll ==
    ASSUME NEW A, NEW t \in Seq(A), NEW s \in Seq(Nat), AreColons(t, s), Colon \notin Nat
    PROVE  Numbers(t) = Len(s)
<1> DEFINE N == Len(s)
           S == {i \in 1 .. Len(t) : IsInt6(t[i])}
           f == [j \in 1 .. N |-> 2 * j - 1]
<1>1. N \in Nat /\ Len(t) \in Nat /\ \A j \in 1 .. N : s[j] \in Nat
    BY Elements
<1>2. /\ Len(t) = IF N = 0 THEN 0 ELSE 2 * N - 1
      /\ \A j \in 1 .. N : t[2 * j - 1] = s[j]
      /\ \A j \in 1 .. N - 1 : t[2 * j] = Colon
    BY Zenon DEF AreColons
<1>3. \A i : i \in S <=> i \in 1 .. Len(t) /\ t[i] \in Nat
    BY Zenon DEF IsInt6
<1>4. Numbers(t) = Cardinality(S)
    BY Zenon DEF Numbers
<1> HIDE DEF N, S
<1>5. \A j \in 1 .. N : f[j] = 2 * j - 1
    OBVIOUS
<1>6. f \in [1 .. N -> S]
  <2>1. ASSUME NEW j \in 1 .. N PROVE 2 * j - 1 \in S
    <3>1. 2 * j - 1 \in 1 .. Len(t)
      BY <1>1, <1>2
    <3>2. t[2 * j - 1] \in Nat
      BY <1>1, <1>2
    <3> QED
      BY <1>3, <3>1, <3>2
  <2> QED
    BY <2>1
<1> HIDE DEF f
<1>7. \A i, j \in 1 .. N : f[i] = f[j] => i = j
    BY <1>1, <1>5
<1>8. ASSUME NEW i \in S PROVE \E j \in 1 .. N : f[j] = i
  <2>1. i \in Nat \ {0} /\ i <= Len(t) /\ t[i] \in Nat
    BY <1>1, <1>3
  <2>2. PICK j \in Nat \ {0} : i = 2 * j - 1 \/ i = 2 * j
    BY <2>1, OddOrEven
  <2>3. CASE i = 2 * j
    <3>1. j \in 1 .. N - 1
      BY <1>1, <1>2, <2>1, <2>3
    <3>2. t[i] = Colon
      BY <1>2, <2>3, <3>1
    <3> QED
      BY <2>1, <3>2
  <2>4. CASE i = 2 * j - 1
    <3>1. j \in 1 .. N
      BY <1>1, <1>2, <2>1, <2>4
    <3> QED
      BY <1>5, <2>4, <3>1
  <2> QED
    BY <2>2, <2>3, <2>4
<1>9. Cardinality(S) = N
  <2>1. IsNumbering(f, N, S)
    BY <1>6, <1>7, <1>8, Zenon DEF IsNumbering
  <2> QED
    BY <1>1, <2>1, CountBy
<1> QED
    BY <1>4, <1>9 DEF N

\* The numbers of an address that has zeros left out.
LEMMA NumbersOfShort ==
    ASSUME NEW A, NEW t \in Seq(A), NEW x \in Seq(Nat), NEW y \in Seq(Nat), IsShort(t, x, y), Colon \notin Nat
    PROVE  Numbers(t) = Len(x) + Len(y)
<1> DEFINE K == Len(x)
           M == Len(y)
           n == SkipAt(K)
           S == {i \in 1 .. Len(t) : IsInt6(t[i])}
           f == [j \in 1 .. K + M |-> IF j <= K THEN 2 * j - 1 ELSE n + 2 * (j - K)]
<1>1. /\ K \in Nat /\ M \in Nat /\ Len(t) \in Nat
      /\ \A j \in 1 .. K : x[j] \in Nat
      /\ \A j \in 1 .. M : y[j] \in Nat
    BY Elements
<1>2. n \in Nat /\ n = IF K = 0 THEN 1 ELSE 2 * K
    BY <1>1 DEF SkipAt
<1>3. /\ Len(t) = n + (IF M = 0 THEN 1 ELSE 2 * M)
      /\ K = 0 => t[1] = Colon
      /\ \A j \in 1 .. K : t[2 * j - 1] = x[j] /\ t[2 * j] = Colon
      /\ M = 0 => t[n + 1] = Colon
      /\ \A j \in 1 .. M : t[n + 2 * j - 1] = Colon /\ t[n + 2 * j] = y[j]
    BY Zenon DEF IsShort
<1>4. \A i : i \in S <=> i \in 1 .. Len(t) /\ t[i] \in Nat
    BY Zenon DEF IsInt6
<1>5. Numbers(t) = Cardinality(S)
    BY Zenon DEF Numbers
<1> HIDE DEF K, M, n, S
<1>6. \A j \in 1 .. K + M : f[j] = IF j <= K THEN 2 * j - 1 ELSE n + 2 * (j - K)
    OBVIOUS
<1>7. f \in [1 .. K + M -> S]
  <2>1. ASSUME NEW j \in 1 .. K + M PROVE (IF j <= K THEN 2 * j - 1 ELSE n + 2 * (j - K)) \in S
    <3>1. CASE j <= K
      <4>1. j \in 1 .. K /\ 2 * j - 1 \in 1 .. Len(t)
        BY <1>1, <1>2, <1>3, <3>1
      <4>2. t[2 * j - 1] \in Nat
        BY <1>1, <1>3, <4>1
      <4> QED
        BY <1>4, <3>1, <4>1, <4>2
    <3>2. CASE ~(j <= K)
      <4>1. j - K \in 1 .. M /\ n + 2 * (j - K) \in 1 .. Len(t)
        BY <1>1, <1>2, <1>3, <3>2
      <4>2. t[n + 2 * (j - K)] \in Nat
        BY <1>1, <1>3, <4>1
      <4> QED
        BY <1>4, <3>2, <4>1, <4>2
    <3> QED
      BY <3>1, <3>2
  <2> QED
    BY <2>1
<1> HIDE DEF f
<1>8. \A i, j \in 1 .. K + M : f[i] = f[j] => i = j
    BY <1>1, <1>2, <1>6
<1>9. ASSUME NEW i \in S PROVE \E j \in 1 .. K + M : f[j] = i
  <2>1. i \in Nat \ {0} /\ i <= Len(t) /\ t[i] \in Nat
    BY <1>1, <1>4
  <2>2. CASE i <= n
    <3>1. K # 0
      <4> SUFFICES ASSUME K = 0 PROVE FALSE
        OBVIOUS
      <4>1. i = 1
        BY <1>2, <2>1, <2>2
      <4> QED
        BY <1>3, <2>1, <4>1
    <3>2. PICK j \in Nat \ {0} : i = 2 * j - 1 \/ i = 2 * j
      BY <2>1, OddOrEven
    <3>3. j \in 1 .. K
      BY <1>1, <1>2, <2>2, <3>1, <3>2
    <3>4. i = 2 * j - 1
      BY <1>3, <2>1, <3>2, <3>3
    <3>5. j \in 1 .. K + M /\ j <= K
      BY <1>1, <3>3
    <3> QED
      BY <1>6, <3>4, <3>5
  <2>3. CASE ~(i <= n)
    <3>1. M # 0
      <4> SUFFICES ASSUME M = 0 PROVE FALSE
        OBVIOUS
      <4>1. i = n + 1
        BY <1>2, <1>3, <2>1, <2>3
      <4> QED
        BY <1>3, <2>1, <4>1
    <3>2. i - n \in Nat \ {0}
      BY <1>2, <2>1, <2>3
    <3>3. PICK j \in Nat \ {0} : i - n = 2 * j - 1 \/ i - n = 2 * j
      BY <3>2, OddOrEven
    <3>4. j \in 1 .. M
      BY <1>1, <1>2, <1>3, <2>1, <3>1, <3>3
    <3>5. i = n + 2 * j - 1 \/ i = n + 2 * j
      BY <1>2, <2>1, <3>3
    <3>6. i = n + 2 * j
      BY <1>3, <2>1, <3>4, <3>5
    <3>7. K + j \in 1 .. K + M /\ ~(K + j <= K) /\ (K + j) - K = j
      BY <1>1, <3>4
    <3> QED
      BY <1>6, <3>6, <3>7
  <2> QED
    BY <2>2, <2>3
<1>10. Cardinality(S) = K + M
  <2> DEFINE P == K + M
  <2>1. P \in Nat
    BY <1>1
  <2>2. /\ f \in [1 .. P -> S]
        /\ \A i, j \in 1 .. P : f[i] = f[j] => i = j
        /\ \A i \in S : \E j \in 1 .. P : f[j] = i
    BY <1>7, <1>8, <1>9, Zenon
  <2> HIDE DEF P
  <2>3. Cardinality(S) = P
    <3>1. IsNumbering(f, P, S)
      BY <2>2, Zenon DEF IsNumbering
    <3> QED
      BY <2>1, <3>1, CountBy
  <2> QED
    BY <2>3 DEF P
<1> QED
    BY <1>5, <1>10 DEF K, M

\* Where a run of zeros ends.
LEMMA RunFits ==
    ASSUME NEW a \in 1 .. 8, NEW sz \in Nat, sz >= 2, NEW b, b = a + sz - 1, b <= 8
    PROVE  b \in 1 .. 8 /\ a < b
    OBVIOUS

\* What the server prints is a spelling of the address, and no other has fewer numbers.
LEMMA Written6 ==
    ASSUME NEW IP \in Seq(Nat), Len(IP) = 8, Colon \notin Nat
    PROVE  /\ stringify_in6(IP) \in Seq(Symbols)
           /\ Spells(stringify_in6(IP), IP)
           /\ \A t \in Seq(Symbols) : Spells(t, IP) => Numbers(stringify_in6(IP)) <= Numbers(t)
<1> DEFINE run == LargestZeros(IP)
           w == stringify_in6(IP)
<1>1. IsRun(run, IP, 8)
    BY LargestIs
<1>2. run.sz \in Nat /\ run.start \in Int
    BY <1>1 DEF IsRun, ZeroRuns
<1>3. /\ run.sz >= 1 => /\ run.start \in 1 .. 8 /\ run.start + run.sz - 1 <= 8
                        /\ \A j \in run.start .. run.start + run.sz - 1 : IP[j] = 0
      /\ \A a \in 1 .. 8, b \in 1 .. 8 : a <= b /\ AllZeros(IP, a, b) => b - a + 1 <= run.sz
    BY <1>1, Zenon DEF IsRun, AllZeros
<1>4. ASSUME NEW t \in Seq(Symbols), Spells(t, IP)
      PROVE  /\ Numbers(t) \in Nat
             /\ \/ Numbers(t) = 8
                \/ run.sz >= 2 /\ 8 - run.sz <= Numbers(t)
  <2>1. ASSUME AreColons(t, IP) PROVE Numbers(t) \in Nat /\ Numbers(t) = 8
    <3>1. Numbers(t) = Len(IP)
      BY <2>1, NumbersOfAll
    <3> QED
      BY <3>1
  <2>2. ASSUME NEW x \in Seq(Nat), NEW y \in Seq(Nat), Len(x) + Len(y) <= 6, IsShort(t, x, y), IP = Filled(x, y)
        PROVE  /\ Numbers(t) \in Nat
               /\ run.sz >= 2 /\ 8 - run.sz <= Numbers(t)
    <3> DEFINE a == Len(x) + 1
               b == 8 - Len(y)
    <3>1. a \in 1 .. 8 /\ b \in 1 .. 8 /\ a < b /\ \A i \in a .. b : IP[i] = 0
      BY <2>2, FilledIs
    <3>2. Numbers(t) = Len(x) + Len(y)
      BY <2>2, NumbersOfShort
    <3>3. Len(x) \in Nat /\ Len(y) \in Nat
      OBVIOUS
    <3>4. b - a + 1 = 8 - (Len(x) + Len(y)) /\ b - a + 1 >= 2
      BY <3>1, <3>3
    <3> HIDE DEF a, b
    <3>5. AllZeros(IP, a, b)
      BY <3>1, Zenon DEF AllZeros
    <3>6. b - a + 1 <= run.sz
      <4>1. a <= b
        BY <3>1
      <4> QED
        BY <1>3, <3>1, <3>5, <4>1
    <3> HIDE DEF run
    <3>7. a \in Nat /\ b \in Nat
      BY <3>1
    <3> QED
      BY <1>2, <3>2, <3>3, <3>4, <3>6, <3>7
  <2> QED
    BY <1>4, <2>1, <2>2, Zenon DEF Spells
<1>5. CASE ~(run.sz >= 2)
  <2>1. w = Colons(IP)
    BY <1>5, AllWritten
  <2>2. w \in Seq(Symbols) /\ AreColons(w, IP)
    BY <2>1, ColonsAre
  <2>3. Numbers(w) = 8
    BY <2>2, NumbersOfAll
  <2>4. Spells(w, IP)
    BY <2>2, Zenon DEF Spells
  <2>5. ASSUME NEW t \in Seq(Symbols), Spells(t, IP) PROVE Numbers(w) <= Numbers(t)
    <3>1. Numbers(t) = 8
      BY <1>4, <1>5, <2>5
    <3> QED
      BY <2>3, <3>1
  <2> QED
    BY <2>2, <2>4, <2>5
<1>6. CASE run.sz >= 2
  <2> DEFINE a == run.start
             b == a + run.sz - 1
             x == Before(IP, a)
             y == After(IP, b)
  <2>1. /\ a \in 1 .. 8 /\ b \in 1 .. 8 /\ a < b /\ a + run.sz - 1 = b
        /\ \A j \in a .. b : IP[j] = 0
    <3>1. run.sz >= 1
      BY <1>2, <1>6
    <3>2. a \in 1 .. 8 /\ b <= 8
      BY <1>3, <3>1
    <3>3. \A j \in a .. b : IP[j] = 0
      BY <1>3, <3>1
    <3>4. b = a + run.sz - 1
      OBVIOUS
    <3> HIDE DEF a, b, run
    <3>5. b \in 1 .. 8 /\ a < b
      <4>1. run.sz \in Nat /\ run.sz >= 2
        BY <1>2, <1>6, Zenon
      <4> QED
        BY <3>2, <3>4, <4>1, RunFits
    <3> QED
      BY <3>2, <3>3, <3>4, <3>5
  <2>2. a = LargestZeros(IP).start /\ run = LargestZeros(IP)
    OBVIOUS
  <2> HIDE DEF a, b
  <2>3. w \in Seq(Symbols) /\ IsShort(w, x, y)
    BY <1>2, <1>6, <2>1, <2>2, ShortWritten
  <2>4. /\ x \in Seq(Nat) /\ y \in Seq(Nat) /\ Len(x) = a - 1 /\ Len(y) = 8 - b
        /\ IP = Filled(x, y)
    <3>1. /\ Before(IP, a) \in Seq(Nat) /\ After(IP, b) \in Seq(Nat)
          /\ Len(Before(IP, a)) = a - 1 /\ Len(After(IP, b)) = 8 - b
          /\ IP = Filled(Before(IP, a), After(IP, b))
      <4>1. a \in 1 .. 8 /\ b \in 1 .. 8 /\ a < b /\ \A j \in a .. b : IP[j] = 0
        BY <2>1, Zenon
      <4> QED
        BY <4>1, FilledAgain
    <3> QED
      BY <3>1, Zenon
  <2> HIDE DEF run, w, x, y
  <2>5. Len(x) + Len(y) = 8 - run.sz /\ Len(x) + Len(y) <= 6
    BY <1>2, <1>6, <2>1, <2>4
  <2>6. Numbers(w) = Len(x) + Len(y)
    BY <2>3, <2>4, NumbersOfShort
  <2>7. Spells(w, IP)
    BY <2>3, <2>4, <2>5, Zenon DEF Spells
  <2>8. ASSUME NEW t \in Seq(Symbols), Spells(t, IP) PROVE Numbers(w) <= Numbers(t)
    <3>1. Numbers(t) \in Nat /\ (Numbers(t) = 8 \/ 8 - run.sz <= Numbers(t))
      BY <1>4, <2>8
    <3> QED
      BY <1>2, <2>5, <2>6, <3>1
  <2> QED
    BY <2>3, <2>7, <2>8 DEF w
<1> QED
    BY <1>5, <1>6

\* Every spelling is a text.
LEMMA SpellingsAreTexts ==
    ASSUME NEW IP \in Seq(Nat), Len(IP) = 8, NEW t \in Spellings(IP)
    PROVE  t \in Seq(Symbols)
<1>1. t = Colons(IP) \/ \E r \in Runs(IP) : t = ShortText(Before(IP, r[1]), After(IP, r[2]))
    BY Zenon DEF Spellings, Runs, ShortText, Before, After
<1>2. Colons(IP) \in Seq(Symbols)
    BY ColonsAre
<1>3. ASSUME NEW r \in Runs(IP), t = ShortText(Before(IP, r[1]), After(IP, r[2]))
      PROVE  t \in Seq(Symbols)
  <2> DEFINE a == r[1]
             b == r[2]
  <2>1. a \in 1 .. 8 /\ b \in 1 .. 8 /\ a < b /\ \A i \in a .. b : IP[i] = 0
    BY DEF Runs
  <2> HIDE DEF a, b
  <2>2. Before(IP, a) \in Seq(Nat) /\ After(IP, b) \in Seq(Nat)
    BY <2>1, FilledAgain
  <2>3. ShortText(Before(IP, a), After(IP, b)) \in Seq(Symbols)
    BY <2>2, ShortIs
  <2> QED
    BY <1>3, <2>3, Zenon DEF a, b
<1> QED
    BY <1>1, <1>2, <1>3

\* No port within the limit is over it.
LEMMA PortFits ==
    ASSUME NEW p \in 0 .. MaxPort
    PROVE  ~(p > MaxPort)
<1>1. MaxPort \in Int
  <2>1. \A n \in Int : n * n - 1 \in Int
    OBVIOUS
  <2>2. 256 \in Int
    OBVIOUS
  <2> QED
    BY <2>1, <2>2, Zenon DEF MaxPort
<1> QED
    BY <1>1

\* What is taken for an address keeps its family and its port.
LEMMA ParsedAddress ==
    ASSUME NEW a, parse_socket_address(a) \notin {Refused, Thrown}
    PROVE  LET r == parse_socket_address(a)
           IN  /\ r.family = a.family /\ r.port = a.port
               /\ a.family = "inet6" => r.host = parse_in6(a.host) /\ parse_in6(a.host) # Refused
               /\ a.family = "inet" => r.host = parse_inet(a.host) /\ parse_inet(a.host) # Refused
<1> DEFINE p6 == parse_in6(a.host)
           p4 == parse_inet(a.host)
           un == parse_unix(a.host)
           over == a.port > MaxPort
           host == CASE a.family = "inet6" -> p6 [] a.family = "inet" -> p4 [] a.family = "unix" -> un
           r == parse_socket_address(a)
<1>1. r = IF host \in {Refused, Thrown} THEN host
          ELSE IF a.family # "unix" /\ over THEN Refused
          ELSE Address(a.family, host, a.port)
    BY Zenon DEF parse_socket_address
<1>2. "inet6" # "inet" /\ "inet6" # "unix" /\ "inet" # "unix"
    OBVIOUS
<1> HIDE DEF p6, p4, un, over
<1>3. (a.family = "inet6" => host = p6) /\ (a.family = "inet" => host = p4)
    BY <1>2
<1> HIDE DEF host, r
<1>4. host \notin {Refused, Thrown} /\ r = Address(a.family, host, a.port)
  <2>1. r \notin {Refused, Thrown}
    BY Zenon DEF r
  <2> QED
    BY <1>1, <2>1, Zenon
<1>5. r.family = a.family /\ r.host = host /\ r.port = a.port
    BY <1>4 DEF Address
<1> QED
    BY <1>3, <1>4, <1>5, Zenon DEF r, p6, p4

\* What is accepted.
LEMMA AddressParsed ==
    ASSUME NEW a, NEW IP, IP \notin {Refused, Thrown},
           \/ a.family = "inet6" /\ parse_in6(a.host) = IP /\ ~(a.port > MaxPort)
           \/ a.family = "inet" /\ parse_inet(a.host) = IP /\ ~(a.port > MaxPort)
           \/ a.family = "unix" /\ parse_unix(a.host) = IP
    PROVE  parse_socket_address(a) = Address(a.family, IP, a.port)
<1> DEFINE p6 == parse_in6(a.host)
           p4 == parse_inet(a.host)
           un == parse_unix(a.host)
           over == a.port > MaxPort
           host == CASE a.family = "inet6" -> p6 [] a.family = "inet" -> p4 [] a.family = "unix" -> un
<1>1. parse_socket_address(a) =
          IF host \in {Refused, Thrown} THEN host
          ELSE IF a.family # "unix" /\ over THEN Refused
          ELSE Address(a.family, host, a.port)
    BY Zenon DEF parse_socket_address
<1>2. \/ a.family = "inet6" /\ p6 = IP /\ ~over
      \/ a.family = "inet" /\ p4 = IP /\ ~over
      \/ a.family = "unix" /\ un = IP
    BY Zenon
<1>3. "inet6" # "inet" /\ "inet6" # "unix" /\ "inet" # "unix"
    OBVIOUS
<1> HIDE DEF p6, p4, un, over
<1>4. host = IP /\ ~(a.family # "unix" /\ over)
  <2>1. CASE a.family = "inet6" /\ p6 = IP /\ ~over
    BY <1>3, <2>1
  <2>2. CASE a.family = "inet" /\ p4 = IP /\ ~over
    BY <1>3, <2>2
  <2>3. CASE a.family = "unix" /\ un = IP
    BY <1>3, <2>3
  <2> QED
    BY <1>2, <2>1, <2>2, <2>3
<1> HIDE DEF host
<1> QED
    BY <1>1, <1>4, Zenon

\* Addresses are spelled as they are taken, and printed short.
THEOREM AddressesRoundTripHolds == CallSpec => []AddressesRoundTrip
<1>1. CallInv => AddressesRoundTrip
  <2> SUFFICES ASSUME CallInv PROVE AddressesRoundTrip
    OBVIOUS
  <2> DEFINE a == call[2]
  <2>1. Colon \notin Nat
    BY AddressAssumption
  <2>2. ASSUME Called("parse"), result \notin {NotYet, Refused, Thrown}
        PROVE  /\ call[2].port = result.port /\ call[2].family = result.family
               /\ result.family = "inet6" => call[2].host \in Spellings(result.host)
               /\ result.family = "inet" => call[2].host \in [1 .. 4 -> 0 .. 255]
    <3>1. a \in AddressTexts
      BY <2>2, Asked, Zenon DEF CallInv
    <3>2. result = parse_socket_address(a)
      BY <2>2, Zenon DEF CallInv, Outcome
    <3>3. \/ a.family = "inet6" /\ IsText(a.host)
          \/ a.family = "inet" /\ a.host \in [1 .. 4 -> Nat]
          \/ a.family = "unix" /\ IsText(a.host)
      BY <3>1, AddressAssumption, Zenon
    <3> HIDE DEF a
    <3>4. /\ result.family = a.family /\ result.port = a.port
          /\ a.family = "inet6" => result.host = parse_in6(a.host) /\ parse_in6(a.host) # Refused
          /\ a.family = "inet" => result.host = parse_inet(a.host) /\ parse_inet(a.host) # Refused
      <4>1. parse_socket_address(a) \notin {Refused, Thrown}
        BY <2>2, <3>2, Zenon
      <4> QED
        BY <3>2, <4>1, ParsedAddress, Zenon
    <3>5. ASSUME a.family = "inet6" PROVE a.host \in Spellings(result.host)
      <4> DEFINE t == a.host
                 IP == parse_in6(t)
      <4>1. IsText(t)
        BY <3>3, <3>5
      <4>2. t \in Seq(Range(t))
        BY <4>1, TextOf
      <4>3. IP # Refused /\ result.host = IP
        BY <3>4, <3>5
      <4> HIDE DEF t
      <4>4. IP \in Seq(Nat) /\ Len(IP) = 8 /\ Spells(t, IP)
        BY <2>1, <4>2, <4>3, ParsedIsSpelled
      <4> HIDE DEF IP
      <4>5. t \in Spellings(IP)
        BY <4>2, <4>4, SpellingsAre
      <4> QED
        BY <4>3, <4>5 DEF t
    <3>6. ASSUME a.family = "inet" PROVE a.host \in [1 .. 4 -> 0 .. 255]
      <4>1. a.host \in [1 .. 4 -> Nat]
        BY <3>3, <3>6
      <4>2. ~\E i \in 1 .. 4 : a.host[i] > 255
        BY <3>4, <3>6, Zenon DEF parse_inet
      <4> DEFINE f == a.host
      <4>3. f \in [1 .. 4 -> Nat] /\ \A i \in 1 .. 4 : ~(f[i] > 255)
        BY <4>1, <4>2, Zenon
      <4> HIDE DEF f
      <4>4. \A i \in 1 .. 4 : f[i] \in 0 .. 255
        BY <4>3
      <4>5. f \in [1 .. 4 -> 0 .. 255]
        BY <4>3, <4>4
      <4> QED
        BY <4>5 DEF f
    <3> QED
      BY <3>4, <3>5, <3>6, Zenon DEF a
  <2>3. ASSUME Called("stringify"), result # NotYet
        PROVE  /\ parse_socket_address(result) = call[2]
               /\ call[2].family = "inet6" => \A t \in Spellings(call[2].host) :
                    /\ parse_socket_address([call[2] EXCEPT !.host = t]) = call[2]
                    /\ Numbers(result.host) <= Numbers(t)
    <3>1. a \in Addresses
      BY <2>3, Asked, Zenon DEF CallInv
    <3>2. result = stringify_socket_address(a)
      BY <2>3, Zenon DEF CallInv, Outcome
    <3>3. /\ a = Address(a.family, a.host, a.port)
          /\ a.host \notin {Refused, Thrown}
          /\ \/ /\ a.family = "inet6" /\ a.port \in 0 .. MaxPort
                /\ a.host \in [1 .. 8 -> Nat]
             \/ /\ a.family = "inet" /\ a.port \in 0 .. MaxPort
                /\ a.host \in [1 .. 4 -> 0 .. 255]
             \/ /\ a.family = "unix" /\ IsText(a.host) /\ a.host # <<>>
                /\ Len(a.host) <= SunPath
                /\ Last(a.host) # Slash /\ Nul \notin Range(a.host)
      BY <3>1, AddressAssumption, Zenon
    <3> HIDE DEF a
    <3>4. ASSUME NEW h
          PROVE  [a EXCEPT !.host = h] = Address(a.family, h, a.port)
      BY <3>3, Z3T(30) DEF Address
    <3>5. CASE a.family = "inet6"
      <4> DEFINE IP == a.host
                 w == stringify_in6(IP)
      <4>1. a.port \in 0 .. MaxPort /\ IP \in [1 .. 8 -> Nat] /\ IP \notin {Refused, Thrown}
        BY <3>3, <3>5
      <4> HIDE DEF IP
      <4>2. IP \in Seq(Nat) /\ Len(IP) = 8
        <5>1. IP \in [1 .. 8 -> Nat]
          BY <4>1, Zenon
        <5>2. 8 \in Nat /\ (\A k \in 1 .. 8 : IP[k] \in Nat) /\ IP = [k \in 1 .. 8 |-> IP[k]]
          BY <5>1
        <5> QED
          BY <5>2, IsSeq
      <4>3. ASSUME NEW t \in Seq(Symbols), Spells(t, IP)
            PROVE  parse_socket_address(Address(a.family, t, a.port)) = a
        <5> DEFINE b == Address(a.family, t, a.port)
        <5>1. b.family = a.family /\ b.host = t /\ b.port = a.port
          BY DEF Address
        <5> HIDE DEF b
        <5>2. parse_in6(t) = IP
          BY <2>1, <4>2, <4>3, SpelledIsParsed
        <5>3. ~(b.port > MaxPort)
          <6>1. b.port \in 0 .. MaxPort
            BY <4>1, <5>1, Zenon
          <6> QED
            BY <6>1, PortFits, Zenon
        <5>4. b.family = "inet6" /\ parse_in6(b.host) = IP /\ ~(b.port > MaxPort)
          BY <3>5, <5>1, <5>2, <5>3, Zenon
        <5>5. parse_socket_address(b) = Address(b.family, IP, b.port)
          BY <4>1, <5>4, AddressParsed, Zenon
        <5>6. Address(b.family, IP, b.port) = a
          BY <3>3, <5>1, Zenon DEF IP
        <5> QED
          BY <5>5, <5>6, Zenon DEF b
      <4>4. /\ w \in Seq(Symbols) /\ Spells(w, IP)
            /\ \A t \in Seq(Symbols) : Spells(t, IP) => Numbers(w) <= Numbers(t)
        BY <2>1, <4>2, Written6
      <4>5. result = Address(a.family, w, a.port)
        <5>1. result = [a EXCEPT !.host = stringify_in6(@)]
          BY <3>2, <3>5, Zenon DEF stringify_socket_address
        <5>2. result = [a EXCEPT !.host = w]
          BY <5>1 DEF IP
        <5> QED
          BY <3>4, <5>2
      <4> HIDE DEF w
      <4>6. result.host = w
        BY <4>5 DEF Address
      <4>7. parse_socket_address(result) = a
        BY <4>3, <4>4, <4>5, Zenon
      <4>8. ASSUME NEW t \in Spellings(IP)
            PROVE  /\ parse_socket_address([a EXCEPT !.host = t]) = a
                   /\ Numbers(result.host) <= Numbers(t)
        <5>1. t \in Seq(Symbols)
          BY <4>2, SpellingsAreTexts
        <5>2. Spells(t, IP)
          BY <4>2, <5>1, SpellingsAre
        <5>3. parse_socket_address(Address(a.family, t, a.port)) = a
          BY <4>3, <5>1, <5>2
        <5>4. Numbers(w) <= Numbers(t)
          BY <4>4, <5>1, <5>2
        <5> QED
          BY <3>4, <4>6, <5>3, <5>4, Zenon
      <4> QED
        BY <4>7, <4>8, Zenon DEF a, IP
    <3>6. CASE a.family # "inet6"
      <4>1. result = a
        BY <3>2, <3>6, Zenon DEF stringify_socket_address
      <4>2. parse_socket_address(a) = Address(a.family, a.host, a.port)
        <5>1. CASE a.family = "inet" /\ a.port \in 0 .. MaxPort /\ a.host \in [1 .. 4 -> 0 .. 255]
          <6> DEFINE f == a.host
                     p == a.port
          <6>1. f \in [1 .. 4 -> 0 .. 255] /\ p \in 0 .. MaxPort
            BY <5>1
          <6> HIDE DEF f, p
          <6>2. ~(p > MaxPort) /\ ~\E i \in 1 .. 4 : f[i] > 255
            <7>1. f \in [1 .. 4 -> 0 .. 255]
              BY <6>1, Zenon
            <7>2. ~\E i \in 1 .. 4 : f[i] > 255
              BY <7>1
            <7> QED
              BY <6>1, <7>2, PortFits, Zenon
          <6>3. parse_inet(f) = f
            BY <6>2, Zenon DEF parse_inet
          <6>4. a.family = "inet" /\ parse_inet(a.host) = a.host /\ ~(a.port > MaxPort)
            BY <5>1, <6>2, <6>3 DEF f, p
          <6> QED
            BY <3>3, <6>4, AddressParsed, Zenon
        <5>2. CASE /\ a.family = "unix" /\ IsText(a.host) /\ a.host # <<>>
                   /\ Len(a.host) <= SunPath
                   /\ Last(a.host) # Slash /\ Nul \notin Range(a.host)
          <6> DEFINE l == Len(a.host)
          <6>1. l \in Nat /\ l <= SunPath /\ SunPath \in Nat
            BY <5>2, TextOf, AddressAssumption
          <6> HIDE DEF l
          <6>2. ~(SunPath < l)
            BY <6>1
          <6>3. parse_unix(a.host) = a.host
            BY <5>2, <6>2, Zenon DEF parse_unix, l
          <6> QED
            BY <3>3, <5>2, <6>3, AddressParsed, Zenon
        <5> QED
          BY <3>3, <3>6, <5>1, <5>2
      <4> QED
        BY <3>3, <3>6, <4>1, <4>2, Zenon DEF a
    <3> QED
      BY <3>5, <3>6
  <2> QED
    BY <2>2, <2>3, Zenon DEF AddressesRoundTrip
<1> QED
    BY <1>1, CallInvHolds, PTL

-----------------------------------------------------------------------------
(* Cookies *)

\* The least of a set, once it is known.
LEMMA MinIs ==
    ASSUME NEW T \in SUBSET Nat, NEW e \in T, \A y \in T : e <= y
    PROVE  Min(T) = e
<1>1. Min(T) = CHOOSE x \in T : \A y \in T : x <= y
    BY Zenon DEF Min
<1>2. ASSUME NEW x \in T, \A y \in T : x <= y PROVE x = e
  <2>1. x <= e /\ e <= x /\ x \in Nat /\ e \in Nat
    BY <1>2
  <2> QED
    BY <2>1
<1> QED
    BY <1>1, <1>2

\* hv has nothing of `stops` from pos to e - 1, and there ends or has something of it
EndsWord(hv, pos, stops, e) ==
    /\ e \in pos .. Len(hv) + 1
    /\ \A i \in pos .. e - 1 : hv[i] \notin stops
    /\ e <= Len(hv) => hv[e] \in stops

\* Where a word ends.
LEMMA ToIs ==
    ASSUME NEW hv, Len(hv) \in Nat, NEW pos \in Nat \ {0}, NEW stops, NEW e, EndsWord(hv, pos, stops, e)
    PROVE  To(hv, pos, stops) = e
<1> DEFINE T == {i \in pos .. Len(hv) : hv[i] \in stops} \cup {Len(hv) + 1}
           N == Len(hv)
<1>1. N \in Nat /\ e \in pos .. N + 1 /\ (\A i \in pos .. e - 1 : hv[i] \notin stops) /\ (e <= N => hv[e] \in stops)
    BY Zenon DEF EndsWord
<1>2. To(hv, pos, stops) = Min(T)
    BY Zenon DEF To
<1>3. T = {i \in pos .. N : hv[i] \in stops} \cup {N + 1}
    BY Zenon
<1> HIDE DEF T, N
<1>4. T \in SUBSET Nat /\ e \in T
    BY <1>1, <1>3
<1>5. ASSUME NEW y \in T PROVE e <= y
  <2>1. CASE y = N + 1
    BY <1>1, <2>1
  <2>2. CASE y \in pos .. N /\ hv[y] \in stops
    <3>1. y \notin pos .. e - 1
      BY <1>1, <2>2
    <3> QED
      BY <1>1, <2>2, <3>1
  <2> QED
    BY <1>3, <2>1, <2>2
<1>6. Min(T) = e
    BY <1>4, <1>5, MinIs
<1> QED
    BY <1>2, <1>6

\* Where there is no white space, none is skipped.
LEMMA SkipIs ==
    ASSUME NEW hv, Len(hv) \in Nat, NEW pos \in Nat \ {0}, pos <= Len(hv) + 1,
           pos <= Len(hv) => hv[pos] # White
    PROVE  skip_ows(hv, pos) = pos
<1> DEFINE T == {i \in pos .. Len(hv) : hv[i] # White} \cup {Len(hv) + 1}
           N == Len(hv)
<1>1. skip_ows(hv, pos) = Min(T)
    BY Zenon DEF skip_ows
<1>2. T = {i \in pos .. N : hv[i] # White} \cup {N + 1} /\ N \in Nat /\ pos <= N + 1
      /\ (pos <= N => hv[pos] # White)
    BY Zenon
<1> HIDE DEF T, N
<1>3. T \in SUBSET Nat /\ pos \in T /\ \A y \in T : pos <= y
    BY <1>2
<1>4. Min(T) = pos
    BY <1>3, MinIs
<1> QED
    BY <1>1, <1>4

\* One white space.
LEMMA SkipOne ==
    ASSUME NEW hv, Len(hv) \in Nat, NEW pos \in Nat \ {0}, pos <= Len(hv), hv[pos] = White,
           pos + 1 <= Len(hv) => hv[pos + 1] # White
    PROVE  skip_ows(hv, pos) = pos + 1
<1> DEFINE T == {i \in pos .. Len(hv) : hv[i] # White} \cup {Len(hv) + 1}
           N == Len(hv)
<1>1. skip_ows(hv, pos) = Min(T)
    BY Zenon DEF skip_ows
<1>2. T = {i \in pos .. N : hv[i] # White} \cup {N + 1} /\ N \in Nat /\ pos <= N
      /\ hv[pos] = White /\ (pos + 1 <= N => hv[pos + 1] # White)
    BY Zenon
<1> HIDE DEF T, N
<1>3. T \in SUBSET Nat /\ pos + 1 \in T
    BY <1>2
<1>4. ASSUME NEW y \in T PROVE pos + 1 <= y
  <2>1. y # pos /\ pos <= y /\ y \in Nat
    BY <1>2
  <2> QED
    BY <2>1
<1>5. Min(T) = pos + 1
    BY <1>3, <1>4, MinIs
<1> QED
    BY <1>1, <1>5

\* a part of a text that is there again
LEMMA PartIs ==
    ASSUME NEW A, NEW hv \in Seq(A), NEW p \in Nat, NEW w \in Seq(A), IsAt(hv, p, w)
    PROVE  SubSeq(hv, p + 1, p + Len(w)) = w
<1> DEFINE a == p + 1
           b == p + Len(w)
           s == SubSeq(hv, a, b)
<1>1. Len(w) \in Nat /\ p + Len(w) <= Len(hv) /\ \A k \in 1 .. Len(w) : hv[p + k] = w[k]
    BY DEF IsAt
<1>2. a \in Nat \ {0} /\ b \in Nat /\ a <= b + 1 /\ b <= Len(hv) /\ b - a + 1 = Len(w)
      /\ \A k \in 1 .. Len(w) : a + k - 1 = p + k
    BY <1>1
<1> HIDE DEF a, b
<1>3. SubSeq(hv, a, b) \in Seq(A) /\ IsPart(SubSeq(hv, a, b), hv, a, b)
    BY <1>2, Part
<1> HIDE DEF s
<1>4. AreSame(s, w)
    BY <1>1, <1>2, <1>3 DEF IsPart, AreSame, s
<1>5. s = w
    BY <1>3, <1>4, SameSeq DEF s
<1> QED
    BY <1>5 DEF s, a, b

\* a word without any of `stops`
IsFree(w, stops) == \A k \in 1 .. Len(w) : w[k] \notin stops

\* A word ends behind its last character, if something of `stops` comes then.
LEMMA WordEnds ==
    ASSUME NEW A, NEW hv \in Seq(A), NEW p \in Nat, NEW w \in Seq(A), NEW stops, IsAt(hv, p, w), IsFree(w, stops),
           p + Len(w) + 1 <= Len(hv) => hv[p + Len(w) + 1] \in stops
    PROVE  To(hv, p + 1, stops) = p + Len(w) + 1
<1> DEFINE a == p + 1
           e == p + Len(w) + 1
<1>1. Len(hv) \in Nat /\ Len(w) \in Nat /\ p + Len(w) <= Len(hv) /\ \A k \in 1 .. Len(w) : hv[p + k] = w[k]
    BY DEF IsAt
<1>2. a \in Nat \ {0} /\ e \in a .. Len(hv) + 1
    BY <1>1
<1>3. ASSUME NEW i \in a .. e - 1 PROVE hv[i] \notin stops
  <2>1. i - p \in 1 .. Len(w) /\ p + (i - p) = i
    BY <1>1
  <2>2. hv[i] = w[i - p]
    BY <1>1, <2>1
  <2> QED
    BY <2>1, <2>2 DEF IsFree
<1>4. e <= Len(hv) => hv[e] \in stops
    OBVIOUS
<1> HIDE DEF a, e
<1>5. EndsWord(hv, a, stops, e)
    BY <1>2, <1>3, <1>4 DEF EndsWord
<1>6. To(hv, a, stops) = e
    BY <1>1, <1>2, <1>5, ToIs
<1> QED
    BY <1>6 DEF a, e

\* what a cookie of the browser's is
IsCookieOf(A, name, value) ==
    /\ name \in Seq(A) /\ value \in Seq(A)
    /\ IsFree(name, {White, Pad}) /\ IsFree(value, ValueStops)

\* hv goes on with a cookie after position p, which ends at e
IsCookieAt(hv, p, name, value, e) ==
    /\ IsAt(hv, p, name)
    /\ hv[p + Len(name) + 1] = Pad
    /\ IsAt(hv, p + Len(name) + 1, value)
    /\ e = p + Len(name) + 1 + Len(value)
    /\ e < Len(hv) => hv[e + 1] = Semicolon

\* what ReadCookie returns of it
Found(name, value, e) == [ok |-> TRUE, next |-> e + 1, cookie |-> <<name, value>>]

\* The signs that are looked for are three different ones.
SignsDiffer == White # Pad /\ White # Semicolon

\* A cookie is read as its name and its value.
LEMMA OneCookie ==
    ASSUME NEW A, NEW hv \in Seq(A), NEW p \in Nat, NEW name, NEW value, NEW e,
           IsCookieOf(A, name, value), IsCookieAt(hv, p, name, value, e), SignsDiffer
    PROVE  ReadCookie(hv, p + 1) = Found(name, value, e)
<1> DEFINE q == p + Len(name) + 1
<1>1. /\ name \in Seq(A) /\ value \in Seq(A)
      /\ IsFree(name, {White, Pad}) /\ IsFree(value, ValueStops)
    BY Zenon DEF IsCookieOf
<1>2. /\ IsAt(hv, p, name) /\ hv[q] = Pad /\ IsAt(hv, q, value) /\ e = q + Len(value)
      /\ e < Len(hv) => hv[e + 1] = Semicolon
    BY Zenon DEF IsCookieAt
<1>3. Len(hv) \in Nat /\ Len(name) \in Nat /\ Len(value) \in Nat
    BY <1>1
<1>4. q + Len(value) <= Len(hv) /\ (\A k \in 1 .. Len(value) : hv[q + k] = value[k]) /\ White # Pad /\ White # Semicolon
    BY <1>2, Zenon DEF IsAt, SignsDiffer
<1>5. q \in Nat /\ q \in Nat \ {0} /\ q <= Len(hv) /\ q <= Len(hv) + 1 /\ e \in Nat /\ e <= Len(hv)
    BY <1>2, <1>3, <1>4
<1>6. To(hv, p + 1, {White, Pad}) = q
    BY <1>1, <1>2, WordEnds
<1>7. q - 1 = p + Len(name)
    BY <1>3
<1> HIDE DEF q
<1>8. skip_ows(hv, q) = q
    BY <1>2, <1>3, <1>4, <1>5, SkipIs
<1>9. skip_ows(hv, q + 1) = q + 1
  <2>1. q + 1 \in Nat \ {0} /\ q + 1 <= Len(hv) + 1
    BY <1>3, <1>5
  <2>2. ASSUME q + 1 <= Len(hv) PROVE hv[q + 1] # White
    <3>1. CASE Len(value) = 0
      <4>1. e = q /\ e < Len(hv)
        BY <1>2, <1>3, <1>5, <2>2, <3>1
      <4> QED
        BY <1>2, <1>4, <4>1
    <3>2. CASE Len(value) # 0
      <4>1. 1 \in 1 .. Len(value)
        BY <1>3, <3>2
      <4> QED
        BY <1>1, <1>4, <4>1 DEF IsFree, ValueStops
    <3> QED
      BY <3>1, <3>2
  <2> QED
    BY <1>3, <2>1, <2>2, SkipIs
<1>10. To(hv, q + 1, ValueStops) = e + 1
  <2>1. q + Len(value) + 1 <= Len(hv) => hv[q + Len(value) + 1] \in ValueStops
    <3>1. e < Len(hv) => hv[e + 1] \in ValueStops
      BY <1>2 DEF ValueStops
    <3> QED
      BY <1>2, <1>3, <1>5, <3>1
  <2> QED
    BY <1>1, <1>2, <1>5, <2>1, WordEnds
<1>11. skip_ows(hv, e + 1) = e + 1
  <2>1. e + 1 \in Nat \ {0} /\ e + 1 <= Len(hv) + 1 /\ (e + 1 <= Len(hv) => e < Len(hv))
    BY <1>3, <1>5
  <2>2. e + 1 <= Len(hv) => hv[e + 1] # White
    BY <1>2, <1>4, <2>1
  <2> QED
    BY <1>3, <2>1, <2>2, SkipIs
<1>12. SubSeq(hv, p + 1, p + Len(name)) = name /\ SubSeq(hv, q + 1, q + Len(value)) = value
    BY <1>1, <1>2, <1>5, PartIs
<1>13. IsThis(hv, q, Pad) = TRUE
    BY <1>2, <1>5 DEF IsThis
<1>14. (e + 1) - 1 = q + Len(value)
    BY <1>2, <1>5, <1>3
<1>15. ReadCookie(hv, p + 1) =
        [ok |-> IsThis(hv, q, Pad), next |-> skip_ows(hv, e + 1),
         cookie |-> <<SubSeq(hv, p + 1, q - 1), SubSeq(hv, q + 1, (e + 1) - 1)>>]
    BY <1>6, <1>8, <1>9, <1>10, Zenon DEF ReadCookie
<1> QED
    BY <1>7, <1>11, <1>12, <1>13, <1>14, <1>15, Zenon DEF Found

\* what the loop of parseCookieHeader has when it comes to position o + 1
HasCookies(o, r) == [pos |-> o + 1, result |-> r, thrown |-> FALSE]

\* The first turn takes a cookie.
LEMMA FirstTurn ==
    ASSUME NEW A, NEW hv \in Seq(A), NEW name, NEW value, NEW e,
           IsCookieOf(A, name, value), IsCookieAt(hv, 0, name, value, e), SignsDiffer
    PROVE  Turn(hv, HasCookies(0, <<>>)) = HasCookies(e, Append(<<>>, <<name, value>>))
<1> DEFINE s == HasCookies(0, <<>>)
<1>1. 0 \in Nat /\ 0 + 1 = 1
    OBVIOUS
<1>2. ReadCookie(hv, 1) = Found(name, value, e)
    BY <1>1, OneCookie
<1>3. s = [pos |-> 1, result |-> <<>>, thrown |-> FALSE]
    BY <1>1 DEF HasCookies
<1>4. s.pos = 1 /\ s.result = <<>>
    BY <1>3
<1>5. ~(1 > Len(hv))
  <2>1. name \in Seq(A) /\ IsAt(hv, 0 + Len(name) + 1, value) /\ value \in Seq(A)
    BY <1>1 DEF IsCookieAt, IsCookieOf
  <2>2. Len(name) \in Nat /\ Len(value) \in Nat /\ Len(hv) \in Nat /\ 0 + Len(name) + 1 + Len(value) <= Len(hv)
    BY <2>1 DEF IsAt
  <2> QED
    BY <2>2
<1>6. Turn(hv, s) = [s EXCEPT !.pos = Found(name, value, e).next, !.result = Append(@, Found(name, value, e).cookie)]
  <2>1. Found(name, value, e).ok = TRUE
    BY DEF Found
  <2> HIDE DEF s
  <2> QED
    BY <1>2, <1>4, <1>5, <2>1, Zenon DEF Turn
<1>7. Found(name, value, e).next = e + 1 /\ Found(name, value, e).cookie = <<name, value>>
    BY DEF Found
<1>8. Turn(hv, s) = [s EXCEPT !.pos = e + 1, !.result = Append(@, <<name, value>>)]
    BY <1>6, <1>7, Zenon
<1>9. Turn(hv, s) = [pos |-> e + 1, result |-> Append(<<>>, <<name, value>>), thrown |-> FALSE]
  <2> HIDE DEF s
  <2> QED
    BY <1>3, <1>8
<1> QED
    BY <1>9 DEF HasCookies, s

\* what comes between two cookies
SignsAt(hv, o) == hv[o + 1] = Semicolon /\ hv[o + 2] = White

\* So does each after it, behind a semicolon and a white space.
LEMMA NextTurn ==
    ASSUME NEW A, NEW hv \in Seq(A), NEW o \in Nat, NEW name, NEW value, NEW e, NEW r, r # <<>>,
           SignsAt(hv, o),
           IsCookieOf(A, name, value), IsCookieAt(hv, o + 2, name, value, e), SignsDiffer
    PROVE  Turn(hv, HasCookies(o, r)) = HasCookies(e, Append(r, <<name, value>>))
<1> DEFINE s == HasCookies(o, r)
<1>0. hv[o + 1] = Semicolon /\ hv[o + 2] = White
    BY DEF SignsAt
<1>1. o + 2 \in Nat /\ (o + 2) + 1 = o + 3 /\ (o + 1) + 1 = o + 2
    OBVIOUS
<1>2. ReadCookie(hv, o + 3) = Found(name, value, e)
  <2>1. ReadCookie(hv, (o + 2) + 1) = Found(name, value, e)
    BY <1>1, OneCookie
  <2> QED
    BY <1>1, <2>1
<1>3. s = [pos |-> o + 1, result |-> r, thrown |-> FALSE]
    BY DEF HasCookies
<1>4. s.pos = o + 1 /\ s.result = r
    BY <1>3
<1>5. /\ name \in Seq(A) /\ value \in Seq(A) /\ IsAt(hv, o + 2, name) /\ hv[o + 2 + Len(name) + 1] = Pad
      /\ IsAt(hv, o + 2 + Len(name) + 1, value) /\ IsFree(name, {White, Pad})
    BY DEF IsCookieAt, IsCookieOf
<1>6. Len(name) \in Nat /\ Len(value) \in Nat /\ Len(hv) \in Nat /\ o + 2 + Len(name) + 1 + Len(value) <= Len(hv)
      /\ \A k \in 1 .. Len(name) : hv[o + 2 + k] = name[k]
    BY <1>5 DEF IsAt
<1>7. o + 3 <= Len(hv) /\ o + 2 <= Len(hv) /\ o + 1 <= Len(hv) /\ ~(o + 1 > Len(hv))
    BY <1>6
<1>8. hv[o + 3] # White
  <2>1. CASE Len(name) = 0
    <3>1. o + 2 + Len(name) + 1 = o + 3
      BY <2>1
    <3> QED
      BY <1>5, <3>1 DEF SignsDiffer
  <2>2. CASE Len(name) # 0
    <3>1. 1 \in 1 .. Len(name) /\ o + 2 + 1 = o + 3
      BY <1>6, <2>2
    <3> QED
      BY <1>5, <1>6, <3>1 DEF IsFree
  <2> QED
    BY <2>1, <2>2
<1>9. skip_ows(hv, o + 2) = o + 3
  <2>1. o + 2 \in Nat \ {0} /\ (o + 2) + 1 = o + 3
    OBVIOUS
  <2>2. skip_ows(hv, o + 2) = (o + 2) + 1
    BY <1>0, <1>6, <1>7, <1>8, <2>1, SkipOne
  <2> QED
    BY <2>1, <2>2
<1>10. IsThis(hv, o + 1, Semicolon) = TRUE
    BY <1>0, <1>7 DEF IsThis
<1>11. Turn(hv, s) = [s EXCEPT !.pos = Found(name, value, e).next, !.result = Append(@, Found(name, value, e).cookie)]
  <2>1. Found(name, value, e).ok = TRUE
    BY DEF Found
  <2> HIDE DEF s
  <2> QED
    BY <1>1, <1>2, <1>4, <1>7, <1>9, <1>10, <2>1, Zenon DEF Turn
<1>12. Found(name, value, e).next = e + 1 /\ Found(name, value, e).cookie = <<name, value>>
    BY DEF Found
<1>13. Turn(hv, s) = [s EXCEPT !.pos = e + 1, !.result = Append(@, <<name, value>>)]
    BY <1>11, <1>12, Zenon
<1>14. Turn(hv, s) = [pos |-> e + 1, result |-> Append(r, <<name, value>>), thrown |-> FALSE]
  <2> HIDE DEF s
  <2> QED
    BY <1>3, <1>13
<1> QED
    BY <1>14 DEF HasCookies, s

\* At the end there is nothing more to take.
LEMMA NoTurn ==
    ASSUME NEW hv, Len(hv) \in Nat, NEW r
    PROVE  Turn(hv, HasCookies(Len(hv), r)) = HasCookies(Len(hv), r)
<1>1. HasCookies(Len(hv), r).pos > Len(hv)
  <2>1. HasCookies(Len(hv), r).pos = Len(hv) + 1
    BY DEF HasCookies
  <2> QED
    BY <2>1
<1> QED
    BY <1>1, Zenon DEF Turn

\* what the loop of parseCookieHeader goes through
IsCookieRun(h, hv) ==
    /\ h[0] = [pos |-> skip_ows(hv, 1), result |-> <<>>, thrown |-> FALSE]
    /\ \A i \in 1 .. Len(hv) : h[i] = Turn(hv, h[i - 1])
    /\ parseCookieHeader(hv) = IF h[Len(hv)].thrown THEN Error ELSE h[Len(hv)].result

\* The turns of parseCookieHeader, as a function.
LEMMA CookieRun ==
    ASSUME NEW A, NEW hv \in Seq(A)
    PROVE  \E h : IsCookieRun(h, hv)
<1> DEFINE E(b) == Turn(hv, b)
           base == [pos |-> skip_ows(hv, 1), result |-> <<>>, thrown |-> FALSE]
           Is(f, m) == f = [n \in 0 .. m |-> IF n = 0 THEN base ELSE E(f[n - 1])]
           S == {m \in Nat : \E f : Is(f, m)}
           N == Len(hv)
           Run(f) == f = [n \in 0 .. N |-> IF n = 0 THEN base ELSE E(f[n - 1])]
           after == CHOOSE f : Run(f)
<1> HIDE DEF E, base
<1>1. 0 \in S
  <2> DEFINE f == [n \in 0 .. 0 |-> base]
  <2>1. \A n \in 0 .. 0 : base = IF n = 0 THEN base ELSE E(f[n - 1])
    OBVIOUS
  <2>2. Is(f, 0)
    BY <2>1
  <2> HIDE DEF f, Is
  <2> QED
    BY <2>2
<1>2. ASSUME NEW m \in S PROVE m + 1 \in S
  <2>1. PICK f : Is(f, m)
    OBVIOUS
  <2>2. \A n \in 0 .. m : f[n] = IF n = 0 THEN base ELSE E(f[n - 1])
    BY <2>1
  <2> DEFINE g == [n \in 0 .. m + 1 |-> IF n = 0 THEN base ELSE E(f[n - 1])]
  <2>3. ASSUME NEW n \in 0 .. m PROVE g[n] = f[n]
    <3>1. n \in 0 .. m + 1
      OBVIOUS
    <3>2. g[n] = IF n = 0 THEN base ELSE E(f[n - 1])
      BY <3>1
    <3> QED
      BY <2>2, <3>2
  <2>4. ASSUME NEW n \in 0 .. m + 1
        PROVE  (IF n = 0 THEN base ELSE E(f[n - 1])) = IF n = 0 THEN base ELSE E(g[n - 1])
    <3>1. CASE n = 0
      BY <3>1
    <3>2. CASE n # 0
      <4>1. n - 1 \in 0 .. m
        BY <3>2
      <4>2. g[n - 1] = f[n - 1]
        BY <2>3, <4>1
      <4> HIDE DEF g
      <4> QED
        BY <4>2
    <3> QED
      BY <3>1, <3>2
  <2>5. Is(g, m + 1)
    BY <2>4
  <2> HIDE DEF g, Is
  <2> QED
    BY <2>5
<1>3. N \in S
  <2>1. S \in SUBSET Nat /\ N \in Nat
    OBVIOUS
  <2> HIDE DEF S, N
  <2> QED
    BY <1>1, <1>2, <2>1, Inductive
<1>4. PICK h : Run(h)
  <2>1. \E f : Is(f, N)
    BY <1>3
  <2> QED
    BY <2>1
<1> HIDE DEF Run
<1>5. Run(after)
    BY <1>4
<1> HIDE DEF after
<1>6. after[0] = base /\ \A n \in 1 .. N : after[n] = E(after[n - 1])
  <2>1. after = [n \in 0 .. N |-> IF n = 0 THEN base ELSE E(after[n - 1])]
    BY <1>5, Zenon DEF Run
  <2>2. 0 \in 0 .. N /\ \A n \in 1 .. N : n \in 0 .. N /\ n # 0
    OBVIOUS
  <2> HIDE DEF N
  <2> QED
    BY <2>1, <2>2
<1>7. parseCookieHeader(hv) = IF after[N].thrown THEN Error ELSE after[N].result
    BY Zenon DEF parseCookieHeader, after, Run, E, N, base
<1>8. IsCookieRun(after, hv)
    BY <1>6, <1>7, Zenon DEF IsCookieRun, N, E, base
<1> QED
    BY <1>8

PairText(x, n, c, v) == x \o n \o <<c>> \o v

IsPairAt(hv, p, x, n, c, v) ==
    /\ IsAt(hv, p, x)
    /\ IsAt(hv, p + Len(x), n)
    /\ hv[p + Len(x) + Len(n) + 1] = c
    /\ IsAt(hv, p + Len(x) + Len(n) + 1, v)

\* Two words with a sign between them, behind another text.
LEMMA PairAt ==
    ASSUME NEW A, NEW c \in A, NEW hv \in Seq(A), NEW p \in Nat, NEW x \in Seq(A), NEW n \in Seq(A), NEW v \in Seq(A)
    PROVE  /\ PairText(x, n, c, v) \in Seq(A)
           /\ Len(PairText(x, n, c, v)) = Len(x) + Len(n) + 1 + Len(v)
           /\ IsAt(hv, p, PairText(x, n, c, v)) => IsPairAt(hv, p, x, n, c, v)
<1> DEFINE e == <<c>>
           a == x \o n
           b == a \o e
<1>1. e \in Seq(A) /\ Len(e) = 1 /\ e[1] = c
    OBVIOUS
<1>2. PairText(x, n, c, v) = b \o v
    BY Zenon DEF PairText
<1> HIDE DEF e
<1>3. a \in Seq(A) /\ Len(a) = Len(x) + Len(n)
    BY Cat
<1> HIDE DEF a
<1>4. b \in Seq(A) /\ Len(b) = Len(a) + 1
  <2>1. a \o e \in Seq(A) /\ Len(a \o e) = Len(a) + Len(e)
    BY <1>1, <1>3, Cat, Zenon
  <2> QED
    BY <1>1, <2>1
<1> HIDE DEF b
<1>5. b \o v \in Seq(A) /\ Len(b \o v) = Len(b) + Len(v)
    BY <1>4, Cat
<1>6. Len(x) \in Nat /\ Len(n) \in Nat /\ Len(v) \in Nat
    OBVIOUS
<1>7. ASSUME IsAt(hv, p, b \o v) PROVE IsPairAt(hv, p, x, n, c, v)
  <2>1. IsAt(hv, p, b) /\ IsAt(hv, p + Len(b), v)
    BY <1>4, <1>7, PartsAt
  <2>2. IsAt(hv, p, a) /\ IsAt(hv, p + Len(a), e)
    BY <1>1, <1>3, <2>1, PartsAt DEF b
  <2>3. IsAt(hv, p, x) /\ IsAt(hv, p + Len(x), n)
    BY <2>2, PartsAt DEF a
  <2>4. p + Len(a) = p + Len(x) + Len(n) /\ p + Len(b) = p + Len(x) + Len(n) + 1
    BY <1>3, <1>4, <1>6
  <2>5. hv[p + Len(x) + Len(n) + 1] = c
    <3>1. 1 \in 1 .. 1
      OBVIOUS
    <3>2. hv[p + Len(a) + 1] = c
      BY <1>1, <2>2, <3>1, Zenon DEF IsAt
    <3> QED
      BY <2>4, <3>2
  <2> QED
    BY <2>1, <2>3, <2>4, <2>5, Zenon DEF IsPairAt
<1>8. Len(b \o v) = Len(x) + Len(n) + 1 + Len(v)
    BY <1>3, <1>4, <1>5, <1>6
<1> QED
    BY <1>2, <1>5, <1>7, <1>8

\* The offsets of pieces that are not empty grow with the pieces.
LEMMA EndsGrow ==
    ASSUME NEW N \in Nat, NEW off \in [0 .. N -> Nat], NEW F, \A n \in 1 .. N : Len(F[n]) \in Nat \ {0},
           \A n \in 1 .. N : off[n] = off[n - 1] + Len(F[n])
    PROVE  \A n \in 0 .. N : n <= off[n]
<1> DEFINE S == {n \in 0 .. N : n <= off[n]}
<1>1. 0 \in S
    OBVIOUS
<1>2. \A n \in 0 .. N - 1 : n \in S => n + 1 \in S
  <2>1. ASSUME NEW n \in 0 .. N - 1, n \in S PROVE n + 1 \in S
    <3>1. n + 1 \in 1 .. N /\ n + 1 \in 0 .. N /\ (n + 1) - 1 = n /\ n <= off[n] /\ n \in 0 .. N
      BY <2>1
    <3>2. off[n + 1] = off[n] + Len(F[n + 1]) /\ Len(F[n + 1]) \in Nat \ {0} /\ off[n] \in Nat
      BY <3>1
    <3>3. n + 1 <= off[n + 1]
      BY <3>1, <3>2
    <3> QED
      BY <3>1, <3>3
  <2> QED
    BY <2>1
<1> HIDE DEF S
<1>3. \A n \in 0 .. N : n \in S
    BY <1>1, <1>2, InductiveTo
<1> QED
    BY <1>3 DEF S

\* what the browser's cookies are
AreCookiesOf(A, ks) ==
    \A i \in 1 .. Len(ks) : ks[i] = <<ks[i][1], ks[i][2]>> /\ IsCookieOf(A, ks[i][1], ks[i][2])

\* What comes between cookies.
Between(i) == IF i = 1 THEN <<>> ELSE <<Semicolon, White>>

\* the i-th part of a header line
CookiePart(ks, i) == PairText(Between(i), ks[i][1], Pad, ks[i][2])

\* The header line of ks is hv, with the parts ending at the positions of off.
IsHeaderOf(A, hv, ks, off) ==
    /\ hv \in Seq(A) /\ off \in [0 .. Len(ks) -> Nat] /\ off[0] = 0 /\ Len(hv) = off[Len(ks)]
    /\ \A i \in 1 .. Len(ks) :
        /\ off[i] = off[i - 1] + Len(CookiePart(ks, i)) /\ Len(CookiePart(ks, i)) \in Nat \ {0}
        /\ IsAt(hv, off[i - 1], CookiePart(ks, i)) /\ off[i - 1] \in Nat

\* Where the cookies are in the header line.
LEMMA HeaderParts ==
    ASSUME NEW A, {Pad, Semicolon, White} \subseteq A, NEW ks, Len(ks) \in Nat, AreCookiesOf(A, ks)
    PROVE  \E off : IsHeaderOf(A, CookieHeader(ks), ks, off)
<1> DEFINE N == Len(ks)
           F == [i \in 1 .. N |-> CookiePart(ks, i)]
           hv == CookieHeader(ks)
<1>1. N \in Nat
    OBVIOUS
<1>2. hv = FlattenSeq(F)
    BY Zenon DEF CookieHeader, PairText, CookiePart, Between
<1>3. ASSUME NEW i \in 1 .. N
      PROVE  CookiePart(ks, i) \in Seq(A) /\ Len(CookiePart(ks, i)) \in Nat \ {0}
  <2>1. ks[i][1] \in Seq(A) /\ ks[i][2] \in Seq(A)
    BY DEF AreCookiesOf, IsCookieOf
  <2>2. Between(i) \in Seq(A) /\ Pad \in A /\ <<>> \in Seq(A) /\ 0 \in Nat
    BY DEF Between
  <2> DEFINE x == Between(i)
             n == ks[i][1]
             v == ks[i][2]
  <2>3. x \in Seq(A) /\ n \in Seq(A) /\ v \in Seq(A)
    BY <2>1, <2>2
  <2> HIDE DEF x, n, v
  <2>4. PairText(x, n, Pad, v) \in Seq(A) /\ Len(PairText(x, n, Pad, v)) = Len(x) + Len(n) + 1 + Len(v)
    BY <2>2, <2>3, PairAt
  <2>5. Len(x) \in Nat /\ Len(n) \in Nat /\ Len(v) \in Nat
    BY <2>3
  <2>6. Len(PairText(x, n, Pad, v)) \in Nat \ {0}
    BY <2>4, <2>5
  <2> QED
    BY <2>4, <2>6 DEF CookiePart, x, n, v
<1> HIDE DEF N, hv
<1>4. F \in [1 .. N -> Seq(A)] /\ \A i \in 1 .. N : F[i] = CookiePart(ks, i)
    BY <1>3
<1> HIDE DEF F
<1>5. hv \in Seq(A)
    BY <1>1, <1>2, <1>4, Pieces
<1>6. PICK off : AreEnds(off, N, F)
    BY <1>1, <1>4, Pieces
<1>7. /\ off \in [0 .. N -> Nat] /\ off[0] = 0 /\ (\A n \in 1 .. N : off[n] = off[n - 1] + Len(F[n]))
      /\ Len(FlattenSeq(F)) = off[N]
    BY <1>6, Zenon DEF AreEnds
<1>8. IsAt(hv, 0, FlattenSeq(F))
  <2>1. Len(hv) \in Nat
    BY <1>5
  <2>2. 0 + Len(hv) <= Len(hv) /\ \A k \in 1 .. Len(hv) : 0 + k = k
    BY <2>1
  <2>3. IsAt(hv, 0, hv)
    BY <2>1, <2>2 DEF IsAt
  <2> QED
    BY <1>2, <2>3
<1>9. ASSUME NEW n \in 1 .. N PROVE IsAt(hv, off[n - 1], CookiePart(ks, n)) /\ off[n - 1] \in Nat
  <2>1. 0 \in Nat
    OBVIOUS
  <2>2. IsAt(hv, 0 + off[n - 1], F[n])
    BY <1>1, <1>4, <1>5, <1>6, <1>8, <2>1, PieceAt
  <2>3. off[n - 1] \in Nat /\ 0 + off[n - 1] = off[n - 1]
    BY <1>1, <1>7
  <2> QED
    BY <1>4, <2>2, <2>3
<1>10. \A n \in 1 .. N : off[n] = off[n - 1] + Len(CookiePart(ks, n))
    BY <1>4, <1>7
<1>11. Len(hv) = off[N]
    BY <1>2, <1>7
<1>12. IsHeaderOf(A, hv, ks, off)
    BY <1>3, <1>5, <1>7, <1>9, <1>10, <1>11, Zenon DEF IsHeaderOf, N
<1> QED
    BY <1>12 DEF hv

\* hv is the header line of the cookies ks
IsLine(A, ks, hv, off) ==
    /\ {Pad, Semicolon, White} \subseteq A /\ SignsDiffer
    /\ ks \in Seq(Seq(A) \X Seq(A)) /\ AreCookiesOf(A, ks) /\ IsHeaderOf(A, hv, ks, off)

\* A cookie of a header line, and what is in front of it.
LEMMA CookieHere ==
    ASSUME NEW A, NEW ks, NEW hv, NEW off, IsLine(A, ks, hv, off), NEW i \in 1 .. Len(ks)
    PROVE  /\ IsPairAt(hv, off[i - 1], Between(i), ks[i][1], Pad, ks[i][2])
           /\ off[i] = off[i - 1] + Len(Between(i)) + Len(ks[i][1]) + 1 + Len(ks[i][2])
           /\ off[i - 1] \in Nat /\ Len(ks[i][1]) \in Nat /\ Len(ks[i][2]) \in Nat
           /\ i # 1 => SignsAt(hv, off[i - 1])
<1>0. /\ Pad \in A /\ Semicolon \in A /\ White \in A /\ SignsDiffer
      /\ ks \in Seq(Seq(A) \X Seq(A)) /\ Len(ks) \in Nat /\ AreCookiesOf(A, ks) /\ IsHeaderOf(A, hv, ks, off)
    BY DEF IsLine
<1> DEFINE x == Between(i)
           n == ks[i][1]
           v == ks[i][2]
           p == off[i - 1]
<1>1. n \in Seq(A) /\ v \in Seq(A)
    BY <1>0 DEF AreCookiesOf, IsCookieOf
<1>2. x \in Seq(A) /\ Pad \in A /\ Len(n) \in Nat /\ Len(v) \in Nat
    BY <1>0, <1>1 DEF Between
<1>3. /\ hv \in Seq(A) /\ off[i] = p + Len(PairText(x, n, Pad, v)) /\ p \in Nat
      /\ IsAt(hv, p, PairText(x, n, Pad, v))
    BY <1>0, Zenon DEF IsHeaderOf, CookiePart
<1>4. i # 1 => Len(x) = 2 /\ x[1] = Semicolon /\ x[2] = White
    BY DEF Between
<1> HIDE DEF x, n, v, p
<1>5. IsPairAt(hv, p, x, n, Pad, v) /\ Len(PairText(x, n, Pad, v)) = Len(x) + Len(n) + 1 + Len(v)
    BY <1>1, <1>2, <1>3, PairAt
<1>6. off[i] = p + Len(x) + Len(n) + 1 + Len(v)
  <2>1. Len(x) \in Nat
    BY <1>2
  <2> QED
    BY <1>2, <1>3, <1>5, <2>1
<1>7. i # 1 => SignsAt(hv, p)
  <2>1. \A k \in 1 .. Len(x) : hv[p + k] = x[k]
    BY <1>5, Zenon DEF IsPairAt, IsAt
  <2> QED
    BY <1>4, <2>1 DEF SignsAt
<1> QED
    BY <1>2, <1>3, <1>5, <1>6, <1>7 DEF x, n, v, p

\* What a turn finds at a cookie.
LEMMA TurnsFind ==
    ASSUME NEW A, NEW ks, NEW hv, NEW off, IsLine(A, ks, hv, off), NEW i \in 1 .. Len(ks)
    PROVE  /\ IsCookieOf(A, ks[i][1], ks[i][2])
           /\ IsCookieAt(hv, off[i - 1] + (IF i = 1 THEN 0 ELSE 2), ks[i][1], ks[i][2], off[i])
<1>0. /\ Pad \in A /\ Semicolon \in A /\ White \in A /\ SignsDiffer
      /\ ks \in Seq(Seq(A) \X Seq(A)) /\ Len(ks) \in Nat /\ AreCookiesOf(A, ks) /\ IsHeaderOf(A, hv, ks, off)
    BY DEF IsLine
<1> DEFINE n == ks[i][1]
           v == ks[i][2]
           p == off[i - 1]
           l == Len(Between(i))
<1>1. /\ IsPairAt(hv, p, Between(i), n, Pad, v) /\ off[i] = p + l + Len(n) + 1 + Len(v)
      /\ p \in Nat /\ Len(n) \in Nat /\ Len(v) \in Nat
    BY CookieHere
<1>2. l = IF i = 1 THEN 0 ELSE 2
    BY DEF Between
<1>3. IsAt(hv, p + l, n) /\ hv[p + l + Len(n) + 1] = Pad /\ IsAt(hv, p + l + Len(n) + 1, v)
    BY <1>1, Zenon DEF IsPairAt
<1>4. off[i] < Len(hv) => hv[off[i] + 1] = Semicolon
  <2>1. Len(hv) = off[Len(ks)] /\ off \in [0 .. Len(ks) -> Nat]
    BY <1>0 DEF IsHeaderOf
  <2>2. CASE i = Len(ks)
    <3>1. off[i] \in Nat /\ Len(hv) = off[i]
      BY <2>1, <2>2
    <3> QED
      BY <3>1
  <2>3. CASE i # Len(ks)
    <3>1. i + 1 \in 1 .. Len(ks) /\ i + 1 # 1 /\ (i + 1) - 1 = i
      BY <2>3
    <3>2. i + 1 # 1 => SignsAt(hv, off[(i + 1) - 1])
      <4> DEFINE j == i + 1
      <4>1. j \in 1 .. Len(ks)
        BY <3>1
      <4> HIDE DEF j
      <4>2. j # 1 => SignsAt(hv, off[j - 1])
        BY <4>1, CookieHere
      <4> QED
        BY <4>2 DEF j
    <3> QED
      BY <3>1, <3>2 DEF SignsAt
  <2> QED
    BY <2>2, <2>3
<1>5. IsCookieOf(A, n, v)
    BY <1>0 DEF AreCookiesOf
<1> HIDE DEF n, v, p, l
<1>6. IsCookieAt(hv, p + l, n, v, off[i])
    BY <1>1, <1>3, <1>4, Zenon DEF IsCookieAt
<1> QED
    BY <1>2, <1>5, <1>6 DEF n, v, p

\* The first turn is ready for the first cookie.
LEMMA StartsAtFirst ==
    ASSUME NEW A, NEW ks, NEW hv, NEW off, IsLine(A, ks, hv, off)
    PROVE  skip_ows(hv, 1) = 1
<1>0. /\ Pad \in A /\ Semicolon \in A /\ White \in A /\ SignsDiffer
      /\ ks \in Seq(Seq(A) \X Seq(A)) /\ Len(ks) \in Nat /\ AreCookiesOf(A, ks) /\ IsHeaderOf(A, hv, ks, off)
    BY DEF IsLine
<1>1. hv \in Seq(A) /\ Len(hv) \in Nat /\ off[0] = 0 /\ Len(hv) = off[Len(ks)]
    BY <1>0 DEF IsHeaderOf
<1>2. ASSUME 1 <= Len(hv) PROVE hv[1] # White
  <2>1. 1 \in 1 .. Len(ks) /\ 1 - 1 = 0
    BY <1>1, <1>2
  <2> DEFINE n == ks[1][1]
             v == ks[1][2]
  <2>2. IsCookieOf(A, n, v) /\ IsCookieAt(hv, 0, n, v, off[1])
    <3>1. IsCookieAt(hv, off[1 - 1] + (IF 1 = 1 THEN 0 ELSE 2), n, v, off[1]) /\ IsCookieOf(A, n, v)
      BY <2>1, TurnsFind
    <3>2. off[1 - 1] + (IF 1 = 1 THEN 0 ELSE 2) = 0
      BY <1>1, <2>1
    <3> QED
      BY <3>1, <3>2
  <2> HIDE DEF n, v
  <2>3. /\ n \in Seq(A) /\ IsFree(n, {White, Pad}) /\ IsAt(hv, 0, n) /\ hv[0 + Len(n) + 1] = Pad
    BY <2>2 DEF IsCookieOf, IsCookieAt
  <2>4. CASE Len(n) = 0
    <3>1. 0 + Len(n) + 1 = 1
      BY <2>4
    <3> QED
      BY <1>0, <2>3, <3>1 DEF SignsDiffer
  <2>5. CASE Len(n) # 0
    <3>1. Len(n) \in Nat /\ 1 \in 1 .. Len(n) /\ 0 + 1 = 1
      BY <2>3, <2>5
    <3>2. hv[0 + 1] = n[1] /\ n[1] \notin {White, Pad}
      BY <2>3, <3>1 DEF IsAt, IsFree
    <3> QED
      BY <3>1, <3>2
  <2> QED
    BY <2>4, <2>5
<1>3. 1 \in Nat \ {0} /\ 1 <= Len(hv) + 1
    BY <1>1
<1> QED
    BY <1>1, <1>2, <1>3, SkipIs

\* One more turn, one more cookie.
LEMMA OneMore ==
    ASSUME NEW A, NEW ks, NEW hv, NEW off, IsLine(A, ks, hv, off), NEW i \in 0 .. Len(ks) - 1
    PROVE  Turn(hv, HasCookies(off[i], SubSeq(ks, 1, i))) = HasCookies(off[i + 1], SubSeq(ks, 1, i + 1))
<1>0. /\ Pad \in A /\ Semicolon \in A /\ White \in A /\ SignsDiffer
      /\ ks \in Seq(Seq(A) \X Seq(A)) /\ Len(ks) \in Nat /\ AreCookiesOf(A, ks) /\ IsHeaderOf(A, hv, ks, off)
    BY DEF IsLine
<1> DEFINE j == i + 1
           n == ks[j][1]
           v == ks[j][2]
           r == SubSeq(ks, 1, i)
<1>1. Len(ks) \in Nat /\ j \in 1 .. Len(ks) /\ j - 1 = i /\ i \in Nat /\ (i = 0 <=> j = 1)
    BY SMTT(20)
<1>2. r \in Seq(Seq(A) \X Seq(A)) /\ Append(r, ks[j]) = SubSeq(ks, 1, j)
    BY <1>0, PrefixGrows
<1>3. ks[j] = <<n, v>>
    BY <1>0, <1>1 DEF AreCookiesOf
<1>4. hv \in Seq(A) /\ off[0] = 0 /\ off[i] \in Nat
  <2>1. off \in [0 .. Len(ks) -> Nat] /\ i \in 0 .. Len(ks)
    BY <1>0, <1>1 DEF IsHeaderOf
  <2> QED
    BY <2>1 DEF IsHeaderOf
<1> HIDE DEF j
<1>5. IsCookieOf(A, n, v) /\ IsCookieAt(hv, off[j - 1] + (IF j = 1 THEN 0 ELSE 2), n, v, off[j])
    BY <1>1, TurnsFind
<1> HIDE DEF n, v
<1>6. CASE j = 1
  <2>1. i = 0 /\ off[j - 1] + (IF j = 1 THEN 0 ELSE 2) = 0 /\ r = <<>>
    <3>1. SubSeq(ks, 1, 0) = <<>>
      BY <1>0, Whole
    <3> QED
      BY <1>1, <1>4, <1>6, <3>1
  <2>2. IsCookieAt(hv, 0, n, v, off[j])
    BY <1>5, <2>1
  <2>3. Turn(hv, HasCookies(0, <<>>)) = HasCookies(off[j], Append(<<>>, <<n, v>>))
    BY <1>4, <1>5, <2>2, FirstTurn, <1>0
  <2> QED
    BY <1>2, <1>3, <1>4, <2>1, <2>3, Zenon DEF j
<1>7. CASE j # 1
  <2>1. off[j - 1] + (IF j = 1 THEN 0 ELSE 2) = off[i] + 2
    BY <1>1, <1>7
  <2>2. IsCookieAt(hv, off[i] + 2, n, v, off[j])
    BY <1>5, <2>1
  <2>3. SignsAt(hv, off[i])
    <3>1. j # 1 => SignsAt(hv, off[j - 1])
      BY <1>1, CookieHere
    <3> QED
      BY <1>1, <1>7, <3>1
  <2>4. r # <<>>
    <3>1. 1 \in Nat \ {0} /\ i \in Nat /\ 1 <= i + 1 /\ i <= Len(ks) /\ i - 1 + 1 = i /\ i # 0
      BY <1>1, <1>7
    <3>2. IsPart(r, ks, 1, i)
      BY <1>0, <3>1, Part
    <3>3. Len(r) = i
      BY <3>1, <3>2 DEF IsPart
    <3> QED
      BY <3>1, <3>3
  <2> HIDE DEF r
  <2>5. Turn(hv, HasCookies(off[i], r)) = HasCookies(off[j], Append(r, <<n, v>>))
    BY <1>4, <1>5, <2>2, <2>3, <2>4, NextTurn, <1>0
  <2> QED
    BY <1>2, <1>3, <2>5, Zenon DEF j, r
<1> QED
    BY <1>6, <1>7

\* A header line, however many cookies it has.
LEMMA HeaderRead ==
    ASSUME NEW A, {Pad, Semicolon, White} \subseteq A, NEW ks \in Seq(Seq(A) \X Seq(A)), AreCookiesOf(A, ks),
           SignsDiffer
    PROVE  parseCookieHeader(CookieHeader(ks)) = ks
<1> DEFINE N == Len(ks)
           hv == CookieHeader(ks)
           M == Len(hv)
<1>1. N \in Nat
    OBVIOUS
<1>2. PICK off : IsHeaderOf(A, hv, ks, off)
    BY <1>1, HeaderParts
<1> HIDE DEF hv
<1>15. IsLine(A, ks, hv, off)
    BY <1>2 DEF IsLine
<1>3. /\ hv \in Seq(A) /\ off \in [0 .. N -> Nat] /\ off[0] = 0 /\ M = off[N]
      /\ \A i \in 1 .. N : off[i] = off[i - 1] + Len(CookiePart(ks, i)) /\ Len(CookiePart(ks, i)) \in Nat \ {0}
    BY <1>2, Zenon DEF IsHeaderOf
<1>4. M \in Nat
    BY <1>3
<1>5. PICK h : IsCookieRun(h, hv)
    BY <1>3, CookieRun
<1>6. /\ h[0] = [pos |-> skip_ows(hv, 1), result |-> <<>>, thrown |-> FALSE]
      /\ (\A i \in 1 .. M : h[i] = Turn(hv, h[i - 1]))
      /\ parseCookieHeader(hv) = IF h[M].thrown THEN Error ELSE h[M].result
    BY <1>5, Zenon DEF IsCookieRun
<1>7. N <= M
  <2> DEFINE F == [i \in 1 .. N |-> CookiePart(ks, i)]
  <2>1. \A i \in 1 .. N : Len(F[i]) \in Nat \ {0} /\ off[i] = off[i - 1] + Len(F[i])
    BY <1>3
  <2> HIDE DEF F, N, M
  <2>2. \A n \in 0 .. N : n <= off[n]
    BY <1>1, <1>3, <2>1, EndsGrow
  <2> QED
    BY <1>1, <1>3, <2>2
<1> DEFINE T == {i \in 0 .. N : h[i] = HasCookies(off[i], SubSeq(ks, 1, i))}
<1>8. 0 \in T
  <2>1. skip_ows(hv, 1) = 1 /\ 0 + 1 = 1
    BY <1>15, StartsAtFirst
  <2>2. SubSeq(ks, 1, 0) = <<>>
    BY Whole
  <2>3. h[0] = HasCookies(0, <<>>)
    BY <1>6, <2>1 DEF HasCookies
  <2>4. h[0] = HasCookies(off[0], SubSeq(ks, 1, 0))
    BY <1>3, <2>2, <2>3, Zenon
  <2>5. 0 \in 0 .. N
    BY <1>1
  <2> HIDE DEF N
  <2> QED
    BY <2>4, <2>5
<1>9. \A i \in 0 .. N - 1 : i \in T => i + 1 \in T
  <2>1. ASSUME NEW i \in 0 .. N - 1, i \in T PROVE i + 1 \in T
    <3>1. i + 1 \in 0 .. N /\ i + 1 \in 1 .. M /\ (i + 1) - 1 = i /\ h[i] = HasCookies(off[i], SubSeq(ks, 1, i))
      <4> HIDE DEF N, M
      <4> QED
        BY <1>1, <1>4, <1>7, <2>1
    <3>2. h[i + 1] = Turn(hv, h[i])
      BY <1>6, <3>1
    <3>3. Turn(hv, HasCookies(off[i], SubSeq(ks, 1, i))) = HasCookies(off[i + 1], SubSeq(ks, 1, i + 1))
      <4>1. i \in 0 .. Len(ks) - 1
        OBVIOUS
      <4> HIDE DEF N, M, T
      <4> QED
        BY <1>15, <4>1, OneMore
    <3> QED
      BY <3>1, <3>2, <3>3
  <2> QED
    BY <2>1
<1> HIDE DEF T
<1>10. h[N] = HasCookies(M, ks)
  <2>1. \A i \in 0 .. N : i \in T
    <3> HIDE DEF N
    <3> QED
      BY <1>1, <1>8, <1>9, InductiveTo
  <2>2. h[N] = HasCookies(off[N], SubSeq(ks, 1, N))
    BY <1>1, <2>1 DEF T
  <2>3. SubSeq(ks, 1, N) = ks
    BY Whole
  <2> QED
    BY <1>3, <2>2, <2>3
<1> HIDE DEF N, M
<1> DEFINE R == {i \in 0 .. M : N <= i => h[i] = HasCookies(M, ks)}
<1>11. 0 \in R
  <2>1. N <= 0 => N = 0
    BY <1>1
  <2> QED
    BY <1>4, <1>10, <2>1
<1>12. \A i \in 0 .. M - 1 : i \in R => i + 1 \in R
  <2>1. ASSUME NEW i \in 0 .. M - 1, i \in R PROVE i + 1 \in R
    <3>1. i + 1 \in 0 .. M /\ i + 1 \in 1 .. M /\ (i + 1) - 1 = i /\ i \in Nat
      BY <1>4
    <3>2. CASE N <= i
      <4>1. h[i] = HasCookies(M, ks)
        BY <2>1, <3>2
      <4>2. h[i + 1] = Turn(hv, HasCookies(M, ks))
        BY <1>6, <3>1, <4>1
      <4>3. Turn(hv, HasCookies(M, ks)) = HasCookies(M, ks)
        BY <1>4, NoTurn DEF M
      <4> QED
        BY <3>1, <4>2, <4>3
    <3>3. CASE ~(N <= i)
      <4>1. N <= i + 1 => N = i + 1
        BY <1>1, <3>1, <3>3
      <4> QED
        BY <1>10, <3>1, <4>1
    <3> QED
      BY <3>2, <3>3
  <2> QED
    BY <2>1
<1> HIDE DEF R
<1>13. h[M] = HasCookies(M, ks)
  <2>1. \A i \in 0 .. M : i \in R
    BY <1>4, <1>11, <1>12, InductiveTo
  <2> QED
    BY <1>4, <1>7, <2>1 DEF R
<1>14. h[M].thrown = FALSE /\ h[M].result = ks
    BY <1>13 DEF HasCookies
<1> QED
    BY <1>6, <1>14 DEF hv

\* h is the number at each digit of w
IsValue(h, w) ==
    /\ h[0] = 0
    /\ \A i \in 1 .. Len(w) : h[i] = 10 * h[i - 1] + w[i] - 52

\* w is digits which stand for k
StandsFor(w, k) ==
    /\ w \in Seq(Digits)
    /\ \E h : IsValue(h, w) /\ h[Len(w)] = k

\* Digits end where a text does.
LEMMA AllDigits ==
    ASSUME NEW w \in Seq(Digits), {Pad, Underscore} \cap (0 .. 63) = {}
    PROVE  To(w, 1, (0 .. 63 \cup {Pad, Underscore}) \ Digits) - 1 = Len(w)
<1> DEFINE stops == (0 .. 63 \cup {Pad, Underscore}) \ Digits
<1>1. Len(w) \in Nat /\ \A i \in 1 .. Len(w) : w[i] \in Digits
    BY Elements
<1>2. IsFree(w, stops)
    BY <1>1 DEF IsFree
<1> HIDE DEF stops
<1>3. 0 \in Nat /\ 0 + 1 = 1 /\ 0 + Len(w) + 1 = Len(w) + 1 /\ ~(0 + Len(w) + 1 <= Len(w)) /\ (Len(w) + 1) - 1 = Len(w)
    BY <1>1
<1>4. IsAt(w, 0, w)
    BY <1>1 DEF IsAt
<1>5. To(w, 0 + 1, stops) = 0 + Len(w) + 1
    BY <1>2, <1>3, <1>4, WordEnds
<1> QED
    BY <1>3, <1>5 DEF stops

\* The digits of a number, read from the left: stoull.
LEMMA ReadDigits ==
    ASSUME NEW w \in Seq(Digits), w # <<>>, {Pad, Underscore} \cap (0 .. 63) = {}
    PROVE  \E h : IsValue(h, w) /\ stoull(w) = h[Len(w)]
<1> DEFINE N == Len(w)
           E(b, n) == 10 * b + w[n] - 52
           Step == [x \in Int \X (1 .. N) |-> E(x[1], x[2])]
           Is(f) == f = [n \in 0 .. N |-> IF n = 0 THEN 0 ELSE E(f[n - 1], n)]
           course == CHOOSE f : Is(f)
<1>1. N \in Nat /\ 0 \in Int /\ \A n \in 1 .. N : w[n] \in Digits
    BY Elements
<1>2. ASSUME NEW n \in 1 .. N, NEW b \in Int PROVE E(b, n) \in Int
    BY <1>1 DEF Digits
<1> HIDE DEF E, N
<1>4. Step \in [Int \X (1 .. N) -> Int] /\ \A b \in Int, n \in 1 .. N : Step[<<b, n>>] = E(b, n)
    BY <1>2
<1> HIDE DEF Step
<1>5. PICK h : h \in Courses(Int, N, 0, Step)
  <2>1. Courses(Int, N, 0, Step) # {}
    BY <1>1, <1>4, Recursion
  <2> QED
    BY <2>1
<1>6. Is(h)
  <2>1. h \in [0 .. N -> Int] /\ h[0] = 0 /\ \A n \in 1 .. N : h[n] = Step[<<h[n - 1], n>>]
    BY <1>5 DEF Courses
  <2>2. ASSUME NEW n \in 1 .. N PROVE h[n] = E(h[n - 1], n)
    <3>1. h[n - 1] \in Int
      BY <1>1, <2>1
    <3> QED
      BY <1>4, <2>1, <3>1
  <2>3. \A n \in 0 .. N : h[n] = IF n = 0 THEN 0 ELSE E(h[n - 1], n)
    BY <1>1, <2>1, <2>2
  <2> QED
    BY <2>1, <2>3
<1> HIDE DEF Is
<1>7. Is(course)
    BY <1>6
<1> HIDE DEF course
<1>8. course[0] = 0 /\ \A n \in 1 .. N : course[n] = E(course[n - 1], n)
  <2>1. course = [n \in 0 .. N |-> IF n = 0 THEN 0 ELSE E(course[n - 1], n)]
    BY <1>7, Zenon DEF Is
  <2>2. 0 \in 0 .. N /\ \A n \in 1 .. N : n \in 0 .. N /\ n # 0
    BY <1>1
  <2> QED
    BY <2>1, <2>2
<1>9. stoull(w) = course[N]
  <2> DEFINE k == To(w, 1, (0 .. 63 \cup {Pad, Underscore}) \ Digits) - 1
             Loops(f, m) == f = [i \in 0 .. m |-> IF i = 0 THEN 0 ELSE 10 * f[i - 1] + w[i] - 52]
  <2>1. k = N
    BY AllDigits DEF N
  <2>2. stoull(w) = IF k = 0 THEN Error ELSE (CHOOSE f : Loops(f, k))[k]
    BY Zenon DEF stoull
  <2>3. N # 0
    BY DEF N
  <2>4. \A f : Loops(f, N) <=> Is(f)
    BY Zenon DEF Is, E
  <2> HIDE DEF k, Loops
  <2>5. stoull(w) = (CHOOSE f : Loops(f, N))[N]
    BY <2>1, <2>2, <2>3
  <2>6. (CHOOSE f : Loops(f, N)) = course
    BY <2>4 DEF course
  <2> QED
    BY <2>5, <2>6
<1>10. IsValue(course, w)
    BY <1>8, Zenon DEF IsValue, E, N
<1> QED
    BY <1>9, <1>10 DEF N

\* Whatever stands for a number is read as it.
LEMMA ReadNumber ==
    ASSUME NEW w, NEW k, StandsFor(w, k), w # <<>>, {Pad, Underscore} \cap (0 .. 63) = {}
    PROVE  stoull(w) = k
<1>1. w \in Seq(Digits)
    BY DEF StandsFor
<1>2. PICK g : IsValue(g, w) /\ g[Len(w)] = k
    BY DEF StandsFor
<1>3. PICK h : IsValue(h, w) /\ stoull(w) = h[Len(w)]
    BY <1>1, ReadDigits
<1> DEFINE N == Len(w)
           S == {i \in 0 .. N : g[i] = h[i]}
<1>4. N \in Nat
    BY <1>1
<1>5. 0 \in S
    BY <1>2, <1>3, <1>4 DEF IsValue
<1>6. \A i \in 0 .. N - 1 : i \in S => i + 1 \in S
  <2>1. ASSUME NEW i \in 0 .. N - 1, g[i] = h[i] PROVE g[i + 1] = h[i + 1]
    <3> DEFINE j == i + 1
    <3>1. j \in 1 .. Len(w) /\ j - 1 = i
      BY <1>4
    <3> HIDE DEF j
    <3>2. g[j] = 10 * g[j - 1] + w[j] - 52 /\ h[j] = 10 * h[j - 1] + w[j] - 52
      BY <1>2, <1>3, <3>1 DEF IsValue
    <3>3. g[j - 1] = h[j - 1]
      BY <2>1, <3>1
    <3>4. g[j] = h[j]
      BY <3>2, <3>3, Zenon
    <3> QED
      BY <3>4 DEF j
  <2>2. \A i \in 0 .. N - 1 : i \in 0 .. N /\ i + 1 \in 0 .. N
    BY <1>4
  <2> HIDE DEF N
  <2> QED
    BY <2>1, <2>2
<1> HIDE DEF S
<1>7. \A i \in 0 .. N : i \in S
    BY <1>4, <1>5, <1>6, InductiveTo
<1>8. g[N] = h[N]
    BY <1>4, <1>7 DEF S
<1> QED
    BY <1>2, <1>3, <1>8

\* One digit more.
LEMMA DigitMore ==
    ASSUME NEW w, NEW k \in Nat, StandsFor(w, k), NEW d \in 0 .. 9
    PROVE  StandsFor(Append(w, 52 + d), 10 * k + d) /\ Append(w, 52 + d) # <<>>
<1> DEFINE v == Append(w, 52 + d)
           N == Len(w)
           M == N + 1
<1>1. w \in Seq(Digits) /\ N \in Nat /\ 52 + d \in Digits
    BY DEF StandsFor, Digits
<1>2. v \in Seq(Digits) /\ Len(v) = M /\ v[M] = 52 + d /\ \A i \in 1 .. N : v[i] = w[i]
    BY <1>1
<1>3. PICK h : IsValue(h, w) /\ h[N] = k
    BY DEF StandsFor
<1>4. h[0] = 0 /\ \A i \in 1 .. N : h[i] = 10 * h[i - 1] + w[i] - 52
    BY <1>3, Zenon DEF IsValue
<1> DEFINE g == [i \in 0 .. M |-> IF i <= N THEN h[i] ELSE 10 * k + d]
<1>5. g[0] = 0 /\ g[M] = 10 * k + d /\ g[N] = k
    BY <1>1, <1>3, <1>4
<1> HIDE DEF v
<1>6. ASSUME NEW i \in 1 .. M PROVE g[i] = 10 * g[i - 1] + v[i] - 52
  <2>1. CASE i <= N
    <3>1. i \in 1 .. N /\ g[i] = h[i] /\ g[i - 1] = h[i - 1] /\ v[i] = w[i]
      BY <1>1, <1>2, <2>1
    <3>2. h[i] = 10 * h[i - 1] + w[i] - 52
      BY <1>4, <3>1
    <3> HIDE DEF g, M, N
    <3> QED
      BY <3>1, <3>2, Zenon
  <2>2. CASE ~(i <= N)
    <3>1. i = M /\ i - 1 = N /\ v[i] = 52 + d
      BY <1>1, <1>2, <2>2
    <3> HIDE DEF g, M, N
    <3>2. 10 * k + (52 + d) - 52 = 10 * k + d
      OBVIOUS
    <3> QED
      BY <1>5, <3>1, <3>2
  <2> QED
    BY <2>1, <2>2
<1> HIDE DEF g, M
<1>7. IsValue(g, v) /\ g[Len(v)] = 10 * k + d
    BY <1>2, <1>5, <1>6 DEF IsValue
<1>8. v # <<>>
  <2>1. Len(v) # 0
    BY <1>1, <1>2 DEF M
  <2> QED
    BY <2>1
<1> QED
    BY <1>2, <1>7, <1>8 DEF StandsFor, v

\* f is what the recursion of Decimal goes through up to n
AreDecimals(f, n) ==
    \A m \in 0 .. n : f[m] = IF m < 10 THEN <<52 + m>> ELSE Append(f[m \div 10], 52 + (m % 10))

\* The last digit and those before it.
LEMMA LastDigit ==
    ASSUME NEW m \in Nat, ~(m < 10)
    PROVE  m \div 10 \in 0 .. m - 1 /\ m % 10 \in 0 .. 9 /\ 10 * (m \div 10) + (m % 10) = m
<1> DEFINE k == m \div 10
           d == m % 10
<1>1. k \in Int /\ d \in 0 .. 9
    OBVIOUS
<1>2. 10 * k + d = m
    OBVIOUS
<1> HIDE DEF k, d
<1>3. k \in 0 .. m - 1
    BY <1>1, <1>2
<1> QED
    BY <1>1, <1>2, <1>3, Zenon DEF k, d

\* There is such a recursion.
LEMMA DecimalRun ==
    ASSUME NEW n \in Nat
    PROVE  \E f : AreDecimals(f, n) /\ Decimal(n) = f[n]
<1> DEFINE E(f, m) == IF m < 10 THEN <<52 + m>> ELSE Append(f[m \div 10], 52 + (m % 10))
           Is(f, k) == f = [m \in 0 .. k |-> E(f, m)]
           S == {k \in Nat : \E f : Is(f, k)}
           course == CHOOSE f : Is(f, n)
<1>0. ASSUME NEW f, NEW g, NEW m \in Nat, ~(m < 10) => f[m \div 10] = g[m \div 10]
      PROVE  E(f, m) = E(g, m)
    BY <1>0, Zenon
<1> HIDE DEF E
<1>1. 0 \in S
  <2> DEFINE f == [m \in 0 .. 0 |-> E(<<>>, m)]
  <2>1. \A m \in 0 .. 0 : E(<<>>, m) = E(f, m)
    <3>1. \A m \in 0 .. 0 : m \in Nat /\ m < 10
      OBVIOUS
    <3> HIDE DEF f
    <3> QED
      BY <1>0, <3>1
  <2>2. Is(f, 0)
    BY <2>1
  <2> HIDE DEF f, Is
  <2> QED
    BY <2>2
<1>2. ASSUME NEW k \in S PROVE k + 1 \in S
  <2>1. PICK f : Is(f, k)
    OBVIOUS
  <2>2. \A m \in 0 .. k : f[m] = E(f, m)
    BY <2>1
  <2> DEFINE g == [m \in 0 .. k + 1 |-> E(f, m)]
  <2>3. ASSUME NEW m \in 0 .. k PROVE g[m] = f[m]
    <3>1. m \in 0 .. k + 1
      OBVIOUS
    <3>2. g[m] = E(f, m)
      BY <3>1
    <3> QED
      BY <2>2, <3>2
  <2>4. ASSUME NEW m \in 0 .. k + 1 PROVE E(f, m) = E(g, m)
    <3>1. m \in Nat /\ k \in Nat
      OBVIOUS
    <3>2. ASSUME ~(m < 10) PROVE f[m \div 10] = g[m \div 10]
      <4>1. m \div 10 \in 0 .. m - 1
        BY <3>1, <3>2, LastDigit
      <4>2. m \div 10 \in 0 .. k
        BY <3>1, <4>1
      <4> HIDE DEF g
      <4> QED
        BY <2>3, <4>2
    <3> HIDE DEF g
    <3> QED
      BY <1>0, <3>1, <3>2
  <2>5. Is(g, k + 1)
    BY <2>4
  <2> HIDE DEF g, Is
  <2> QED
    BY <2>5
<1>3. \E f : Is(f, n)
  <2>1. S \in SUBSET Nat
    OBVIOUS
  <2>2. n \in S
    <3> HIDE DEF S
    <3> QED
      BY <1>1, <1>2, <2>1, Inductive
  <2> HIDE DEF Is
  <2> QED
    BY <2>2
<1> HIDE DEF Is
<1>4. Is(course, n)
    BY <1>3
<1>5. Decimal(n) = course[n]
    BY Zenon DEF Decimal, course, Is, E
<1> HIDE DEF course
<1>6. \A m \in 0 .. n : course[m] = E(course, m)
  <2>1. course = [m \in 0 .. n |-> E(course, m)]
    BY <1>4, Zenon DEF Is
  <2> QED
    BY <2>1
<1>7. AreDecimals(course, n)
    BY <1>6, Zenon DEF AreDecimals, E
<1> QED
    BY <1>5, <1>7

\* a number, as it should be printed
IsPrinted(w, m) == StandsFor(w, m) /\ w # <<>>

\* The first digit.
LEMMA FirstDigit ==
    ASSUME NEW m \in 0 .. 9
    PROVE  IsPrinted(<<52 + m>>, m)
<1> DEFINE h == [i \in 0 .. 0 |-> 0]
<1>1. <<>> \in Seq(Digits) /\ Len(<<>>) = 0 /\ h[0] = 0 /\ 0 \in Nat
    OBVIOUS
<1> HIDE DEF h
<1>2. IsValue(h, <<>>) /\ h[Len(<<>>)] = 0
    BY <1>1 DEF IsValue
<1>3. StandsFor(<<>>, 0)
    BY <1>1, <1>2 DEF StandsFor
<1>4. StandsFor(Append(<<>>, 52 + m), 10 * 0 + m) /\ Append(<<>>, 52 + m) # <<>>
    BY <1>1, <1>3, DigitMore
<1>5. Append(<<>>, 52 + m) = <<52 + m>> /\ 10 * 0 + m = m
    OBVIOUS
<1> QED
    BY <1>4, <1>5 DEF IsPrinted

\* std::to_string prints digits that stand for the number.
LEMMA Printed ==
    ASSUME NEW n \in Nat
    PROVE  IsPrinted(Decimal(n), n)
<1>1. PICK f : AreDecimals(f, n) /\ Decimal(n) = f[n]
    BY DecimalRun
<1>2. \A m \in 0 .. n : f[m] = IF m < 10 THEN <<52 + m>> ELSE Append(f[m \div 10], 52 + (m % 10))
    BY <1>1, Zenon DEF AreDecimals
<1> DEFINE T == {m \in 0 .. n : \A k \in 0 .. m : IsPrinted(f[k], k)}
<1>3. ASSUME NEW m \in 0 .. n, \A k \in 0 .. m - 1 : IsPrinted(f[k], k) PROVE IsPrinted(f[m], m)
  <2>1. CASE m < 10
    <3>1. m \in 0 .. 9
      BY <2>1
    <3>2. f[m] = <<52 + m>>
      BY <1>2, <2>1, Zenon
    <3> QED
      BY <3>1, <3>2, FirstDigit
  <2>2. CASE ~(m < 10)
    <3> DEFINE k == m \div 10
               d == m % 10
    <3>1. k \in 0 .. m - 1 /\ d \in 0 .. 9 /\ 10 * k + d = m
      BY <2>2, LastDigit
    <3>2. f[m] = Append(f[k], 52 + d)
      BY <1>2, <2>2
    <3> HIDE DEF k, d
    <3>3. k \in Nat /\ StandsFor(f[k], k)
      BY <1>3, <3>1 DEF IsPrinted
    <3>4. StandsFor(Append(f[k], 52 + d), 10 * k + d) /\ Append(f[k], 52 + d) # <<>>
      BY <3>1, <3>3, DigitMore
    <3> QED
      BY <3>1, <3>2, <3>4 DEF IsPrinted
  <2> QED
    BY <2>1, <2>2
<1>4. 0 \in T
  <2>1. 0 \in 0 .. n /\ \A k \in 0 .. 0 - 1 : IsPrinted(f[k], k)
    OBVIOUS
  <2>2. IsPrinted(f[0], 0)
    BY <1>3, <2>1
  <2>3. \A k \in 0 .. 0 : k = 0
    OBVIOUS
  <2> QED
    BY <2>1, <2>2, <2>3
<1>5. \A m \in 0 .. n - 1 : m \in T => m + 1 \in T
  <2>1. ASSUME NEW m \in 0 .. n - 1, \A k \in 0 .. m : IsPrinted(f[k], k) PROVE m + 1 \in T
    <3>1. m + 1 \in 0 .. n /\ (m + 1) - 1 = m
      OBVIOUS
    <3>2. IsPrinted(f[m + 1], m + 1)
      BY <1>3, <2>1, <3>1
    <3>3. \A k \in 0 .. m + 1 : k \in 0 .. m \/ k = m + 1
      OBVIOUS
    <3> QED
      BY <2>1, <3>1, <3>2, <3>3
  <2> QED
    BY <2>1
<1> HIDE DEF T
<1>6. \A m \in 0 .. n : m \in T
    BY <1>4, <1>5, InductiveTo
<1>7. IsPrinted(f[n], n)
  <2>1. n \in 0 .. n
    OBVIOUS
  <2> QED
    BY <1>6, <2>1 DEF T
<1> QED
    BY <1>1, <1>7

\* A text is at its own beginning.
LEMMA SelfAt ==
    ASSUME NEW A, NEW w \in Seq(A)
    PROVE  IsAt(w, 0, w)
<1>1. 0 + Len(w) <= Len(w) /\ \A k \in 1 .. Len(w) : 0 + k = k
    OBVIOUS
<1> QED
    BY <1>1, Zenon DEF IsAt

\* A text of two words with a sign between them.
IsPairOf(t, x, n, c, v) ==
    /\ Len(t) = Len(x) + Len(n) + 1 + Len(v)
    /\ IsPairAt(t, 0, x, n, c, v)

\* The two words are in it.
LEMMA PairIs ==
    ASSUME NEW A, NEW c \in A, NEW x \in Seq(A), NEW n \in Seq(A), NEW v \in Seq(A)
    PROVE  PairText(x, n, c, v) \in Seq(A) /\ IsPairOf(PairText(x, n, c, v), x, n, c, v)
<1> DEFINE t == PairText(x, n, c, v)
<1>1. <<>> \in Seq(A) /\ 0 \in Nat
    OBVIOUS
<1>2. t \in Seq(A) /\ Len(t) = Len(x) + Len(n) + 1 + Len(v)
    BY <1>1, PairAt
<1>3. IsAt(t, 0, t)
    BY <1>2, SelfAt
<1>4. IsPairAt(t, 0, x, n, c, v)
  <2> HIDE DEF t
  <2>1. IsAt(t, 0, PairText(x, n, c, v)) => IsPairAt(t, 0, x, n, c, v)
    BY <1>1, <1>2, PairAt
  <2> QED
    BY <1>3, <2>1 DEF t
<1> QED
    BY <1>2, <1>4 DEF IsPairOf

\* The sign is at s; n is in front of it, from l + 1 on, and v behind it.
SplitsAt(t, l, s, c, n, v) ==
    /\ To(t, l + 1, {c}) = s /\ s \in Nat /\ Len(t) = s + Len(v)
    /\ SubSeq(t, l + 1, s - 1) = n /\ SubSeq(t, s + 1, Len(t)) = v

\* The first word of such a text, up to the sign, and the other, up to the end.
LEMMA PairSplits ==
    ASSUME NEW A, NEW t \in Seq(A), NEW c, NEW x \in Seq(A), NEW n \in Seq(A), NEW v \in Seq(A),
           IsPairOf(t, x, n, c, v), IsFree(n, {c})
    PROVE  SplitsAt(t, Len(x), Len(x) + Len(n) + 1, c, n, v)
<1> DEFINE l == Len(x)
           s == l + Len(n) + 1
<1>1. l \in Nat /\ Len(n) \in Nat /\ Len(v) \in Nat /\ 0 + l = l
    OBVIOUS
<1>2. Len(t) = s + Len(v) /\ IsAt(t, l, n) /\ t[s] = c /\ IsAt(t, s, v)
  <2>1. /\ Len(t) = Len(x) + Len(n) + 1 + Len(v)
        /\ IsAt(t, 0 + Len(x), n) /\ t[0 + Len(x) + Len(n) + 1] = c /\ IsAt(t, 0 + Len(x) + Len(n) + 1, v)
    BY Zenon DEF IsPairOf, IsPairAt
  <2> QED
    BY <1>1, <2>1
<1>3. s \in Nat /\ s - 1 = l + Len(n)
    BY <1>1
<1> HIDE DEF l
<1>4. l + Len(n) + 1 <= Len(t) => t[l + Len(n) + 1] \in {c}
    BY <1>2
<1>5. To(t, l + 1, {c}) = l + Len(n) + 1
    BY <1>1, <1>2, <1>4, WordEnds, Z3T(30)
<1>6. SubSeq(t, l + 1, l + Len(n)) = n
    BY <1>1, <1>2, PartIs
<1> HIDE DEF s
<1>7. SubSeq(t, s + 1, s + Len(v)) = v
    BY <1>2, <1>3, PartIs
<1> QED
    BY <1>2, <1>3, <1>5, <1>6, <1>7, Zenon DEF SplitsAt, l, s

\* What is needed of a login for its cookie to be told from others.
Exceptional(c) == Error \in {c, <<c.nickname, c.password>>, generate_str(c.nickname, c.password)}

\* The signs of cookies are no letters.
SignsAreNoLetters ==
    /\ {White, Semicolon, Underscore, QuoteMark} \cap (0 .. 63 \cup {Pad}) = {}
    /\ White \notin {Semicolon, Underscore}
    /\ PadIsNoLetter /\ Error \notin Nat

\* Bytes that are not 0.
LEMMA NoZero ==
    ASSUME NEW n \in Seq(1 .. 255)
    PROVE  n \in Seq(0 .. 255) /\ IsFree(n, {0})
<1>1. Len(n) \in Nat /\ (\A k \in 1 .. Len(n) : n[k] \in 1 .. 255) /\ n = [k \in 1 .. Len(n) |-> n[k]]
    BY Elements
<1>2. \A k \in 1 .. Len(n) : n[k] \in 0 .. 255 /\ n[k] \notin {0}
  <2>1. \A y \in 1 .. 255 : y \in 0 .. 255 /\ y \notin {0}
    OBVIOUS
  <2> QED
    BY <1>1, <2>1, Zenon
<1>3. n \in Seq(0 .. 255)
    BY <1>1, <1>2, IsSeq
<1> QED
    BY <1>2, <1>3, Zenon DEF IsFree

\* Credentials are had back.
LEMMA CredentialsBack ==
    ASSUME NEW c \in Login, ~Exceptional(c), PadIsNoLetter
    PROVE  LET b == base64_encode(generate_str(c.nickname, c.password))
           IN  /\ b \in Seq(0 .. 63 \cup {Pad}) /\ b # <<>>
               /\ base64_decode(b) # Error
               /\ parse_str_flawless(base64_decode(b)) = <<c.nickname, c.password>>
<1> DEFINE n == c.nickname
           p == c.password
           g == generate_str(n, p)
           b == base64_encode(g)
           B == 0 .. 255
<1>1. n \in Seq(1 .. 255) /\ n \in Seq(B) /\ p \in Seq(B) /\ 0 \in B /\ <<>> \in Seq(B)
  <2>1. n \in Seq(1 .. 255) /\ p \in Seq(0 .. 255)
    BY DEF Login
  <2> HIDE DEF n, p
  <2>2. n \in Seq(0 .. 255)
    BY <2>1, NoZero
  <2> QED
    BY <2>1, <2>2
<1>2. g = PairText(<<>>, n, 0, p)
  <2>1. <<>> \o n = n
    BY <1>1, CatNothing
  <2> QED
    BY <2>1, Zenon DEF generate_str, PairText
<1> HIDE DEF n, p, g, B
<1>3. IsFree(n, {0})
    BY <1>1, NoZero
<1>4. g \in Seq(B) /\ IsPairOf(g, <<>>, n, 0, p)
    BY <1>1, <1>2, PairIs
<1>5. SplitsAt(g, Len(<<>>), Len(<<>>) + Len(n) + 1, 0, n, p)
    BY <1>1, <1>3, <1>4, PairSplits
<1>6. Len(<<>>) + 1 = 1 /\ Len(<<>>) + Len(n) + 1 = Len(n) + 1 /\ Len(n) \in Nat /\ Len(p) \in Nat
    BY <1>1
<1>7. /\ To(g, 1, {0}) = Len(n) + 1 /\ Len(g) = Len(n) + 1 + Len(p)
      /\ SubSeq(g, 1, (Len(n) + 1) - 1) = n /\ SubSeq(g, (Len(n) + 1) + 1, Len(g)) = p
    BY <1>5, <1>6 DEF SplitsAt
<1>8. ~(Len(n) + 1 > Len(g))
    BY <1>6, <1>7
<1>9. parse_str_flawless(g) = <<n, p>>
    BY <1>7, <1>8, Zenon DEF parse_str_flawless
<1>10. g \in Seq(0 .. 255)
    BY <1>4 DEF B
<1>11. IsBase64Of(b, g)
    BY <1>10, Encoded
<1> HIDE DEF b
<1>12. base64_decode(b) = g
    BY <1>10, <1>11, DecodedBack
<1>13. g # Error
    BY DEF Exceptional, g, n, p
<1>14. b # <<>> /\ b \in Seq(0 .. 63 \cup {Pad})
  <2>1. b \in Seq(0 .. 63 \cup {Pad}) /\ Len(b) = 4 * ((Len(g) + 2) \div 3)
    BY <1>11 DEF IsBase64Of
  <2>2. Len(g) \in Nat /\ Len(g) >= 1
    BY <1>6, <1>7
  <2>3. (Len(g) + 2) \div 3 >= 1
    BY <2>2
  <2>4. Len(b) # 0
    BY <2>1, <2>2, <2>3
  <2> QED
    BY <2>1, <2>4
<1> QED
    BY <1>9, <1>12, <1>13, <1>14, Zenon DEF b, g, n, p

\* the signs a name of ours is of
NameSigns == 0 .. 62 \cup {Underscore}

FirstOf(c) == PairText(login_, Decimal(c.sec), Underscore, Decimal(c.nsec))

SecondOf(c) == base64_encode(generate_str(c.nickname, c.password))

\* What the name of a login cookie is.
IsNameOf(ft, c) ==
    /\ ft \in Seq(NameSigns) /\ ft # <<>>
    /\ IsPrefix(login_, ft)
    /\ SplitsAt(ft, 6, 6 + Len(Decimal(c.sec)) + 1, Underscore, Decimal(c.sec), Decimal(c.nsec))

UnderscoreIsNoLetter == Underscore \notin 0 .. 63

\* Digits are signs of a name, and no underscore.
LEMMA DigitsOf ==
    ASSUME NEW w \in Seq(Digits), UnderscoreIsNoLetter
    PROVE  w \in Seq(NameSigns) /\ IsFree(w, {Underscore})
<1>1. Len(w) \in Nat /\ (\A k \in 1 .. Len(w) : w[k] \in Digits) /\ w = [k \in 1 .. Len(w) |-> w[k]]
    BY Elements
<1>2. \A y \in Digits : y \in NameSigns /\ y \notin {Underscore}
  <2>1. \A y \in 52 .. 61 : y \in 0 .. 62 /\ y \in 0 .. 63
    OBVIOUS
  <2> QED
    BY <2>1, Zenon DEF Digits, NameSigns, UnderscoreIsNoLetter
<1>3. \A k \in 1 .. Len(w) : w[k] \in NameSigns /\ w[k] \notin {Underscore}
    BY <1>1, <1>2, Zenon
<1>4. w \in Seq(NameSigns)
    BY <1>1, <1>3, IsSeq
<1> QED
    BY <1>3, <1>4, Zenon DEF IsFree

\* The name of a login cookie.
LEMMA LoginName ==
    ASSUME NEW c \in Login, UnderscoreIsNoLetter
    PROVE  IsNameOf(FirstOf(c), c)
<1> DEFINE n == Decimal(c.sec)
           v == Decimal(c.nsec)
           t == FirstOf(c)
<1>1. c.sec \in Nat /\ c.nsec \in Nat
    BY DEF Login
<1>2. n \in Seq(Digits) /\ v \in Seq(Digits)
    BY <1>1, Printed DEF IsPrinted, StandsFor
<1>3. login_ \in Seq(NameSigns) /\ Len(login_) = 6 /\ Underscore \in NameSigns
    BY DEF login_, NameSigns
<1> HIDE DEF n, v
<1>4. n \in Seq(NameSigns) /\ v \in Seq(NameSigns) /\ IsFree(n, {Underscore})
    BY <1>2, DigitsOf
<1>5. t = PairText(login_, n, Underscore, v)
    BY DEF FirstOf, n, v
<1> HIDE DEF t
<1>6. t \in Seq(NameSigns) /\ IsPairOf(t, login_, n, Underscore, v)
    BY <1>3, <1>4, <1>5, PairIs
<1>7. SplitsAt(t, Len(login_), Len(login_) + Len(n) + 1, Underscore, n, v)
    BY <1>3, <1>4, <1>6, PairSplits
<1>8. SplitsAt(t, 6, 6 + Len(n) + 1, Underscore, n, v)
    BY <1>3, <1>7
<1>9. Len(n) \in Nat /\ Len(v) \in Nat /\ Len(t) = 6 + Len(n) + 1 + Len(v) /\ IsAt(t, 0, login_)
  <2>1. Len(t) = Len(login_) + Len(n) + 1 + Len(v) /\ IsAt(t, 0, login_)
    BY <1>6, Zenon DEF IsPairOf, IsPairAt
  <2>2. Len(n) \in Nat /\ Len(v) \in Nat
    BY <1>4
  <2> QED
    BY <1>3, <2>1, <2>2
<1>10. t # <<>> /\ Len(login_) <= Len(t)
  <2>1. Len(t) # 0 /\ 6 <= Len(t)
    <3>1. Len(n) \in Nat /\ Len(v) \in Nat /\ Len(t) = 6 + Len(n) + 1 + Len(v)
      BY <1>9
    <3> QED
      BY <3>1
  <2> QED
    BY <1>3, <2>1
<1>11. IsPrefix(login_, t)
  <2>1. SubSeq(t, 0 + 1, 0 + Len(login_)) = login_
    BY <1>3, <1>6, <1>9, PartIs
  <2>2. 0 + 1 = 1 /\ 0 + Len(login_) = Len(login_)
    BY <1>3
  <2>3. SubSeq(login_, 1, Len(login_)) = login_
    BY <1>3, Whole
  <2>4. SubSeq(login_, 1, Len(login_)) = SubSeq(t, 1, Len(login_))
    BY <2>1, <2>2, <2>3
  <2> QED
    BY <1>10, <2>4, Zenon DEF IsPrefix
<1> QED
    BY <1>6, <1>8, <1>10, <1>11 DEF IsNameOf, n, v, t

\* What encode_login_cookie makes of a login is read as it.
LEMMA DecodeEncoded ==
    ASSUME NEW c \in Login, ~Exceptional(c), SignsAreNoLetters
    PROVE  decode_login_cookie(<<FirstOf(c), SecondOf(c)>>) = c
<1> DEFINE ft == FirstOf(c)
           b == SecondOf(c)
           n == Decimal(c.sec)
           v == Decimal(c.nsec)
           s == 6 + Len(n) + 1
           cnt == parse_str_flawless(base64_decode(b))
<1>1. c.sec \in Nat /\ c.nsec \in Nat /\ c = [sec |-> c.sec, nsec |-> c.nsec, nickname |-> c.nickname, password |-> c.password]
    BY DEF Login
<1>0. c.nsec < Billion
    BY DEF Login
<1>2. /\ UnderscoreIsNoLetter /\ {Pad, Underscore} \cap (0 .. 63) = {} /\ PadIsNoLetter /\ Error \notin Nat
    BY DEF SignsAreNoLetters, PadIsNoLetter, UnderscoreIsNoLetter
<1>3. IsNameOf(ft, c)
    BY <1>2, LoginName
<1>4. IsPrinted(n, c.sec) /\ IsPrinted(v, c.nsec)
    BY <1>1, Printed
<1>5. base64_decode(b) # Error /\ cnt = <<c.nickname, c.password>>
    BY <1>2, CredentialsBack, Zenon DEF SecondOf
<1>6. cnt # Error
    BY <1>5 DEF Exceptional
<1> HIDE DEF ft, b, n, v
<1>7. SplitsAt(ft, 6, s, Underscore, n, v)
    BY <1>3 DEF IsNameOf, n, v
<1>8. stoull(n) = c.sec /\ stoull(v) = c.nsec
    BY <1>2, <1>4, ReadNumber DEF IsPrinted
<1>9. /\ stoull(n) # Error /\ stoull(v) # Error
      /\ stoull(v) < Billion
    BY <1>0, <1>1, <1>2, <1>8
<1>10. Len(v) \in Nat /\ Len(v) # 0
  <2>1. v \in Seq(Digits) /\ v # <<>>
    BY <1>4 DEF IsPrinted, StandsFor
  <2> QED
    BY <2>1
<1> HIDE DEF s, cnt
<1>11. /\ To(ft, 6 + 1, {Underscore}) = s /\ s \in Nat /\ Len(ft) = s + Len(v)
       /\ SubSeq(ft, 6 + 1, s - 1) = n /\ SubSeq(ft, s + 1, Len(ft)) = v
    BY <1>7 DEF SplitsAt
<1>12. ~(s >= Len(ft))
    BY <1>10, <1>11
<1>13. Len(login_) = 6
    BY DEF login_
<1>14. cnt[1] = c.nickname /\ cnt[2] = c.password
    BY <1>5
<1>15. decode_login_cookie(<<ft, b>>) = [sec |-> stoull(n), nsec |-> stoull(v), nickname |-> cnt[1], password |-> cnt[2]]
  <2>1. <<ft, b>>[1] = ft /\ <<ft, b>>[2] = b
    OBVIOUS
  <2> DEFINE k == <<ft, b>>
  <2>2. k[1] = ft /\ k[2] = b
    BY <2>1
  <2> HIDE DEF k
  <2>3. decode_login_cookie(k) = [sec |-> stoull(n), nsec |-> stoull(v), nickname |-> cnt[1], password |-> cnt[2]]
    BY <1>5, <1>6, <1>9, <1>11, <1>12, <1>13, <2>2, Zenon DEF decode_login_cookie, cnt
  <2> QED
    BY <2>3 DEF k
<1>16. decode_login_cookie(<<ft, b>>) = c
    BY <1>1, <1>8, <1>14, <1>15
<1> QED
    BY <1>16 DEF ft, b

\* A cookie of the browser's, however it came by it.
IsGood(k) ==
    /\ k = <<k[1], k[2]>> /\ IsText(k[1]) /\ IsText(k[2])
    /\ IsFree(k[1], {White, Pad}) /\ IsFree(k[2], ValueStops)

\* A cookie encode_login_cookie makes of c.
IsLoginOf(k, c) ==
    /\ is_login_cookie(k) /\ decode_login_cookie(k) = c
    /\ isCookieName(k[1]) /\ isCookieValue(k[2])

\* A text is of its own symbols.
LEMMA OwnText ==
    ASSUME NEW A, NEW w \in Seq(A)
    PROVE  IsText(w)
<1>1. w = [k \in 1 .. Len(w) |-> w[k]] /\ Len(w) \in Nat /\ DOMAIN w = 1 .. Len(w)
    BY Elements
<1>2. \A k \in 1 .. Len(w) : w[k] \in Range(w)
    BY <1>1 DEF Range
<1>3. w \in Seq(Range(w))
    BY <1>1, <1>2, IsSeq
<1> QED
    BY <1>3 DEF IsText

\* It is a text of any set which they are in.
LEMMA WiderText ==
    ASSUME NEW A, NEW w, IsText(w), Range(w) \subseteq A
    PROVE  w \in Seq(A)
<1>1. w = [k \in 1 .. Len(w) |-> w[k]] /\ Len(w) \in Nat /\ \A k \in 1 .. Len(w) : w[k] \in Range(w)
    BY TextOf
<1>2. \A k \in 1 .. Len(w) : w[k] \in A
    BY <1>1
<1> QED
    BY <1>1, <1>2, IsSeq

\* A login cookie is one the browser can send and the server can read.
LEMMA LoginCookie ==
    ASSUME NEW c \in Login, ~Exceptional(c), SignsAreNoLetters
    PROVE  IsGood(encode_login_cookie(c)) /\ IsLoginOf(encode_login_cookie(c), c)
<1> DEFINE n == FirstOf(c)
           b == SecondOf(c)
           k == <<n, b>>
<1>1. encode_login_cookie(c) = k
    BY Zenon DEF encode_login_cookie, FirstOf, SecondOf, PairText
<1>2. UnderscoreIsNoLetter /\ PadIsNoLetter
    BY DEF SignsAreNoLetters, UnderscoreIsNoLetter
<1>3. decode_login_cookie(k) = c
    BY DecodeEncoded
<1>4. n \in Seq(NameSigns) /\ n # <<>> /\ IsPrefix(login_, n)
    BY <1>2, LoginName DEF IsNameOf
<1>5. b \in Seq(0 .. 63 \cup {Pad}) /\ b # <<>>
    BY <1>2, CredentialsBack, Zenon DEF SecondOf
<1> HIDE DEF n, b
<1>6. k = <<k[1], k[2]>> /\ k[1] = n /\ k[2] = b
    OBVIOUS
<1> HIDE DEF k
<1>7. is_login_cookie(k)
    BY <1>4, <1>5, <1>6, Zenon DEF is_login_cookie
<1>8. Len(n) \in Nat /\ \A i \in 1 .. Len(n) : n[i] \in NameSigns
    BY <1>4, Elements
<1>9. Len(b) \in Nat /\ \A i \in 1 .. Len(b) : b[i] \in 0 .. 63 \cup {Pad}
    BY <1>5, Elements
<1>10. isCookieName(n)
  <2>1. \A y \in NameSigns : IsAlphanum(y) \/ y \in {62, Underscore}
    <3>1. \A y \in 0 .. 62 : y \in 0 .. 61 \/ y = 62
      OBVIOUS
    <3> QED
      BY <3>1, Zenon DEF NameSigns, IsAlphanum
  <2> QED
    BY <1>4, <1>8, <2>1, Zenon DEF isCookieName
<1>11. isCookieValue(b) /\ IsFree(b, ValueStops)
  <2>1. \A y \in 0 .. 63 \cup {Pad} : y \notin {White, QuoteMark, Semicolon}
    BY Zenon DEF SignsAreNoLetters
  <2>2. \A i \in 1 .. Len(b) : b[i] \notin {White, QuoteMark, Semicolon}
    BY <1>9, <2>1, Zenon
  <2> QED
    BY <2>2, Zenon DEF isCookieValue, IsFree, ValueStops
<1>12. IsFree(n, {White, Pad})
  <2>1. \A y \in NameSigns : y \notin {White, Pad}
    <3>1. \A y \in 0 .. 62 : y \in 0 .. 63
      OBVIOUS
    <3>2. \A y \in 0 .. 63 : y # White /\ y # Pad
      BY Zenon DEF SignsAreNoLetters, PadIsNoLetter
    <3>3. Underscore # White /\ Underscore # Pad
      BY Zenon DEF SignsAreNoLetters
    <3> QED
      BY <3>1, <3>2, <3>3, Zenon DEF NameSigns
  <2>2. \A i \in 1 .. Len(n) : n[i] \notin {White, Pad}
    BY <1>8, <2>1, Zenon
  <2> QED
    BY <2>2, Zenon DEF IsFree
<1>13. IsText(n) /\ IsText(b)
    BY <1>4, <1>5, OwnText
<1>14. IsGood(k)
    BY <1>6, <1>11, <1>12, <1>13, Zenon DEF IsGood
<1>15. IsLoginOf(k, c)
    BY <1>3, <1>6, <1>7, <1>10, <1>11, Zenon DEF IsLoginOf
<1> QED
    BY <1>1, <1>14, <1>15

\* one of the browser's cookies, and what it was told to keep
IsKept(k, kind, c) ==
    /\ IsGood(k)
    /\ IF kind = "login" THEN IsLoginOf(k, c) /\ c \in Login /\ c # Error ELSE ~is_login_cookie(k)

\* The server finds its login cookies among those of a browser.
LEMMA LoginsFound ==
    ASSUME NEW jar, Len(jar) \in Nat, NEW ks, Len(ks) = Len(jar), ks # Error, SignsAreNoLetters,
           ks = [i \in 1 .. Len(jar) |-> ks[i]],
           \A i \in 1 .. Len(jar) : IsKept(ks[i], jar[i][1], jar[i][2])
    PROVE  select_login_cookies(findAllClientCookies(<<CookieHeader(ks)>>)) =
             FlattenSeq([i \in 1 .. Len(jar) |-> IF jar[i][1] = "login" THEN <<jar[i][2]>> ELSE <<>>])
<1> DEFINE N == Len(jar)
           U == UNION {Range(ks[i][1]) \cup Range(ks[i][2]) : i \in 1 .. N}
           A == {Pad, Semicolon, White} \cup U
           P == Seq(A) \X Seq(A)
           hv == CookieHeader(ks)
<1>1. N \in Nat /\ Len(ks) = N
    OBVIOUS
<1>2. ASSUME NEW i \in 1 .. N
      PROVE  ks[i] = <<ks[i][1], ks[i][2]>> /\ IsCookieOf(A, ks[i][1], ks[i][2])
  <2> DEFINE n == ks[i][1]
             v == ks[i][2]
  <2>1. ks[i] = <<n, v>> /\ IsText(n) /\ IsText(v) /\ IsFree(n, {White, Pad}) /\ IsFree(v, ValueStops)
    BY Zenon DEF IsKept, IsGood
  <2>2. Range(n) \subseteq A /\ Range(v) \subseteq A
    <3> DEFINE All == {Range(ks[j][1]) \cup Range(ks[j][2]) : j \in 1 .. N}
               R == Range(n) \cup Range(v)
    <3>1. R \in All
      BY Zenon
    <3>2. U = UNION All
      BY Zenon
    <3> HIDE DEF All, U, N, n, v
    <3>3. R \subseteq U
      <4> HIDE DEF R
      <4> QED
        BY <3>1, <3>2, Zenon
    <3> QED
      BY <3>3
  <2> HIDE DEF n, v, A
  <2>3. n \in Seq(A) /\ v \in Seq(A)
    BY <2>1, <2>2, WiderText
  <2>4. IsCookieOf(A, n, v)
    BY <2>1, <2>3, Zenon DEF IsCookieOf
  <2> QED
    BY <2>1, <2>4 DEF n, v
<1>3. {Pad, Semicolon, White} \subseteq A
  <2> HIDE DEF U
  <2> QED
    BY Zenon
<1> HIDE DEF A, U, N
<1>4. ks \in Seq(P)
  <2>1. ASSUME NEW i \in 1 .. N PROVE ks[i] \in P
    <3>1. ks[i] = <<ks[i][1], ks[i][2]>> /\ ks[i][1] \in Seq(A) /\ ks[i][2] \in Seq(A)
      BY <1>2, Zenon DEF IsCookieOf
    <3> QED
      BY <3>1
  <2>2. ks = [i \in 1 .. N |-> ks[i]]
    BY DEF N
  <2> HIDE DEF P
  <2> QED
    BY <1>1, <2>1, <2>2, IsSeq
<1>5. AreCookiesOf(A, ks)
    BY <1>1, <1>2, Zenon DEF AreCookiesOf
<1>6. SignsDiffer
    BY Zenon DEF SignsAreNoLetters, SignsDiffer
<1>7. parseCookieHeader(hv) = ks
    BY <1>3, <1>4, <1>5, <1>6, HeaderRead
<1> HIDE DEF hv
<1>8. findAllClientCookies(<<hv>>) = ks
  <2> DEFINE F == [i \in 1 .. 1 |-> LET cookies == parseCookieHeader(<<hv>>[i]) IN IF cookies = Error THEN <<>> ELSE cookies]
  <2>1. Len(<<hv>>) = 1 /\ \A i \in 1 .. 1 : <<hv>>[i] = hv
    OBVIOUS
  <2>2. findAllClientCookies(<<hv>>) = FlattenSeq(F)
    BY <2>1, Zenon DEF findAllClientCookies
  <2>3. \A i \in 1 .. 1 : (LET cookies == parseCookieHeader(<<hv>>[i]) IN IF cookies = Error THEN <<>> ELSE cookies) = ks
    BY <1>7, <2>1, Zenon
  <2> HIDE DEF P
  <2>4. F \in [1 .. 1 -> Seq(P)] /\ F[1] = ks
    BY <1>4, <2>3, Z3T(30)
  <2> HIDE DEF F
  <2>5. PICK g : AreRounds(g, 1, P, F)
    <3>1. 1 \in Nat
      OBVIOUS
    <3> QED
      BY <2>4, <3>1, Rounds
  <2>6. g[0] = <<>> /\ g[1] = g[1 - 1] \o F[1] /\ 1 - 1 = 0 /\ g[1] = FlattenSeq(F)
    <3>1. 1 \in 1 .. 1 /\ 1 - 1 = 0
      OBVIOUS
    <3> QED
      BY <2>5, <3>1, Zenon DEF AreRounds
  <2>7. <<>> \o ks = ks
    BY <1>4, CatNothing
  <2> QED
    BY <2>2, <2>4, <2>6, <2>7
<1> DEFINE L == {c \in Login : c # Error}
           D(i) == IF jar[i][1] = "login" THEN <<jar[i][2]>> ELSE <<>>
           found == FlattenSeq([i \in 1 .. N |-> D(i)])
<1>9. ASSUME NEW i \in 1 .. N
      PROVE  /\ (IF is_login_cookie(ks[i]) THEN <<decode_login_cookie(ks[i])>> ELSE <<>>) = D(i)
             /\ D(i) \in Seq(L)
  <2>1. IF jar[i][1] = "login"
        THEN /\ is_login_cookie(ks[i]) /\ decode_login_cookie(ks[i]) = jar[i][2]
             /\ jar[i][2] \in Login /\ jar[i][2] # Error
        ELSE ~is_login_cookie(ks[i])
    BY Zenon DEF IsKept, IsLoginOf, N
  <2>2. CASE jar[i][1] = "login"
    <3>1. jar[i][2] \in L /\ D(i) = <<jar[i][2]>>
      BY <2>1, <2>2
    <3> HIDE DEF L, D
    <3>2. D(i) \in Seq(L)
      BY <3>1
    <3> QED
      BY <2>1, <2>2, <3>1, <3>2, Zenon
  <2>3. CASE jar[i][1] # "login"
    <3>1. D(i) = <<>>
      BY <2>3
    <3> HIDE DEF L, D
    <3>2. D(i) \in Seq(L)
      BY <3>1
    <3> QED
      BY <2>1, <2>3, <3>1, <3>2, Zenon
  <2> QED
    BY <2>2, <2>3
<1> HIDE DEF D
<1>10. found \in Seq(L)
  <2> DEFINE F == [i \in 1 .. N |-> D(i)]
  <2>1. F \in [1 .. N -> Seq(L)]
    BY <1>9
  <2> HIDE DEF F, L
  <2>2. FlattenSeq(F) \in Seq(L)
    BY <1>1, <2>1, Pieces
  <2> QED
    BY <2>2 DEF F
<1>11. ~Contains(found, Error)
  <2> HIDE DEF found
  <2>1. \A i \in 1 .. Len(found) : found[i] \in L
    BY <1>10, Elements
  <2>2. \A i \in 1 .. Len(found) : found[i] # Error
    BY <2>1, Zenon
  <2> QED
    BY <2>2, Zenon DEF Contains
<1>12. select_login_cookies(ks) = found
  <2> DEFINE E(i) == IF is_login_cookie(ks[i]) THEN <<decode_login_cookie(ks[i])>> ELSE <<>>
             decoded == FlattenSeq([i \in 1 .. N |-> E(i)])
  <2>1. \A i \in 1 .. N : E(i) = D(i)
    BY <1>9
  <2>2. select_login_cookies(ks) = IF Contains(decoded, Error) THEN <<>> ELSE decoded
    BY <1>1, Zenon DEF select_login_cookies
  <2> HIDE DEF E
  <2>3. [i \in 1 .. N |-> E(i)] = [i \in 1 .. N |-> D(i)]
    BY <2>1
  <2>4. decoded = found
    BY <2>3
  <2> HIDE DEF decoded, found
  <2> QED
    BY <1>11, <2>2, <2>4, Zenon
<1> QED
    BY <1>8, <1>12, Zenon DEF hv, D, N

\* what may be among the cookies of a browser
IsEntry(entry) ==
    \/ entry[1] = "login" /\ entry[2] \in Login /\ ~Exceptional(entry[2])
    \/ entry[1] # "login" /\ IsOther(entry[2])

\* What the browser was told to keep of an entry.
LEMMA EntryKept ==
    ASSUME NEW entry, IsEntry(entry), SignsAreNoLetters
    PROVE  LET k == IF entry[1] = "login" THEN encode_login_cookie(entry[2]) ELSE entry[2]
           IN  IsKept(k, entry[1], entry[2])
<1> DEFINE c == entry[2]
<1>1. CASE entry[1] = "login"
  <2>1. c \in Login /\ ~Exceptional(c)
    BY <1>1, Zenon DEF IsEntry
  <2>2. IsGood(encode_login_cookie(c)) /\ IsLoginOf(encode_login_cookie(c), c)
    BY <2>1, LoginCookie
  <2>3. c # Error
    BY <2>1, Zenon DEF Exceptional
  <2> QED
    BY <1>1, <2>1, <2>2, <2>3, Zenon DEF IsKept
<1>2. CASE entry[1] # "login"
  <2>1. /\ c = <<c[1], c[2]>> /\ IsText(c[1]) /\ IsText(c[2]) /\ ~is_login_cookie(c)
        /\ \A i \in 1 .. Len(c[1]) : c[1][i] \notin {White, Pad}
        /\ \A i \in 1 .. Len(c[2]) : c[2][i] \notin {White, QuoteMark, Semicolon}
    BY <1>2, Zenon DEF IsEntry, IsOther, isCookieValue
  <2>2. IsGood(c)
    BY <2>1, Zenon DEF IsGood, IsFree, ValueStops
  <2> QED
    BY <1>2, <2>1, <2>2, Zenon DEF IsKept
<1> QED
    BY <1>1, <1>2

\* Among cookies of others and emptied ones, the server finds exactly its
\* login cookies, in their order, with what it put there.
THEOREM CookiesAreReadHolds == CallSpec => []CookiesAreRead
<1>1. CallInv => CookiesAreRead
  <2> DEFINE jar == call[2]
             ks == Kept(jar)
             N == Len(jar)
             K(i) == IF jar[i][1] = "login" THEN encode_login_cookie(jar[i][2]) ELSE jar[i][2]
             Logins == FlattenSeq([i \in 1 .. N |-> IF jar[i][1] = "login" THEN <<jar[i][2]>> ELSE <<>>])
             Taken(c) == isCookieName(c[1]) /\ isCookieValue(c[2])
  <2> SUFFICES ASSUME CallInv, Called("cookies"), result # NotYet
               PROVE  /\ result = Logins
                      /\ \A i \in 1 .. N : jar[i][1] = "login" => Taken(encode_login_cookie(jar[i][2]))
    BY Zenon DEF CookiesAreRead
  <2>1. jar \in Jars
    BY Asked DEF CallInv
  <2>2. result = select_login_cookies(findAllClientCookies(<<CookieHeader(ks)>>))
    BY Zenon DEF CallInv, Outcome
  <2>3. SignsAreNoLetters
    BY CookieAssumption, Base64Assumption, Zenon DEF SignsAreNoLetters, PadIsNoLetter
  <2> HIDE DEF jar
  <2>4. /\ IsText(jar) /\ ks # Error
        /\ \A i \in 1 .. Len(jar) :
            \/ jar[i][1] = "login" /\ jar[i][2] \in Login /\ ~Exceptional(jar[i][2])
            \/ jar[i][1] # "login" /\ IsOther(jar[i][2])
    BY <2>1, CookieAssumption, Zenon DEF Exceptional
  <2>5. N \in Nat
    BY <2>4, TextOf
  <2>6. \A i \in 1 .. N : IsEntry(jar[i])
    BY <2>4, Zenon DEF IsEntry
  <2>7. \A i \in 1 .. N : IsKept(K(i), jar[i][1], jar[i][2])
    BY <2>3, <2>6, EntryKept, Zenon
  <2>8. ks = [i \in 1 .. N |-> K(i)]
    BY Zenon DEF Kept
  <2> HIDE DEF ks, K, N
  <2>9. Len(ks) = N /\ ks = [i \in 1 .. N |-> ks[i]] /\ \A i \in 1 .. N : ks[i] = K(i)
    <3>1. DOMAIN ks = 1 .. N /\ \A i \in 1 .. N : ks[i] = K(i)
      BY <2>8
    <3>2. ks \in Seq({K(i) : i \in 1 .. N})
      BY <2>5, <2>8
    <3> QED
      BY <2>5, <2>8, <3>1, <3>2
  <2>10. \A i \in 1 .. N : IsKept(ks[i], jar[i][1], jar[i][2])
    BY <2>7, <2>9
  <2>11. result = Logins
    BY <2>2, <2>3, <2>4, <2>5, <2>9, <2>10, LoginsFound DEF N
  <2>12. ASSUME NEW i \in 1 .. N, jar[i][1] = "login" PROVE Taken(encode_login_cookie(jar[i][2]))
    <3>1. K(i) = encode_login_cookie(jar[i][2])
      BY <2>12, Zenon DEF K
    <3>2. IsLoginOf(K(i), jar[i][2])
      BY <2>7, <2>12, Zenon DEF IsKept
    <3> QED
      BY <3>1, <3>2, Zenon DEF IsLoginOf
  <2> QED
    BY <2>11, <2>12
<1> QED
    BY <1>1, CallInvHolds, PTL
=============================================================================
