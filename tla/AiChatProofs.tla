---------------------------- MODULE AiChatProofs ----------------------------
(***************************************************************************)
(* The AI chat, for any number of questions, conversations and changes of  *)
(* the provider, and any limit on the transcripts kept.                    *)
(***************************************************************************)
EXTENDS AiChat, NaturalsInduction, WellFoundedInduction, TLAPS

Messages == [role : {"user", "assistant"}, of : Nat]
Panels == [conv : Nat, handle : Int, provider : Providers, messages : Seq(Messages),
           busy : BOOLEAN, requestId : Nat, approvals : SUBSET Nat]
Entries == [id : Nat, provider : Providers, handle : Int, messages : Seq(Messages)]
Events == [type : {"session", "chunk", "approval"}, n : Int]
Steps == {"invoked", "starting", "running", "ok", "failed", "expired", "done"}
Jobs == [step : Steps, cli : Providers, conv : Nat, handle : Int, mine : BOOLEAN, ref : Int,
         attempt : Nat, canceled : BOOLEAN, asks : SUBSET Nat, out : Seq(Events), sent : BOOLEAN]

TypeInv ==
    /\ panel \in Panels \cup {NoPanel}
    /\ sessions \in Seq(Entries)
    /\ turn \in Seq(Jobs)
    /\ nextConv \in Nat

(* A handle is none, or of a CLI session that was begun for this conversation. *)
Own(ts, h, conv) ==
    \/ h = NoHandle
    \/ h = Earlier /\ conv = 0
    \/ h \in DOMAIN ts /\ ts[h].conv = conv

OfConv(messages, conv) == \A i \in DOMAIN messages : messages[i].of = conv

(* A question on the screen is one of the turn the panel is busy with. *)
PanelOk(ts, p) ==
    p # NoPanel =>
      /\ OfConv(p.messages, p.conv) /\ Own(ts, p.handle, p.conv)
      /\ \A a \in p.approvals :
           /\ a = p.requestId /\ a \in DOMAIN ts
           /\ ts[a].mine /\ ts[a].cli = "codex" /\ ts[a].sent

EntryOk(ts, e) == OfConv(e.messages, e.id) /\ Own(ts, e.handle, e.id)

(* An id occurs once. *)
OnceEach(s) == \A k, l \in DOMAIN s : s[k].id = s[l].id => k = l

StoreOk(ts, s) ==
    /\ \A k \in DOMAIN s : EntryOk(ts, s[k])
    /\ OnceEach(s)
    /\ s # <<>> => Fits(s, Len(s))

EventOk(ts, r, j, e) ==
    /\ e.type = "session" => Own(ts, e.n, j.conv)
    /\ e.type = "approval" => e.n = r /\ j.cli = "codex" /\ j.sent

(* A turn of the panel is the one it is busy with.  codex asks nothing of a  *)
(* turn it then refuses.                                                     *)
JobOk(ts, p, r, j) ==
    /\ Own(ts, j.handle, j.conv)
    /\ j.mine => p # NoPanel /\ p.busy /\ p.requestId = r /\ p.conv = j.conv
    /\ j.step = "done" => j.out = <<>> /\ ~j.mine
    /\ \A i \in DOMAIN j.out : EventOk(ts, r, j, j.out[i])
    /\ (j.step = "expired" /\ j.cli = "codex") => ~j.sent

TurnsOk(ts, p) == \A r \in DOMAIN ts : JobOk(ts, p, r, ts[r])

ChatInv ==
    /\ TypeInv
    /\ PanelOk(turn, panel) /\ StoreOk(turn, sessions) /\ TurnsOk(turn, panel)
    /\ IdleIsStored

----------------------------------------------------------------------------
(* Every set of numbers that is not empty has a least one.                   *)
LEMMA LeastNumber ==
    ASSUME NEW T \in SUBSET Nat, T # {}
    PROVE  \E n \in T : \A m \in T : n <= m
<1> DEFINE R == {ss \in Nat \X Nat : ss[1] < ss[2]}
<1>1. IsWellFoundedOn(R, Nat)
  BY NatLessThanWellFounded, SMT DEF OpToRel
<1>2. PICK n \in T : \A m \in T : ~(<<m, n>> \in R)
  <2> HIDE DEF R
  <2>1. T \subseteq Nat
    OBVIOUS
  <2> QED BY <1>1, <2>1, WFMin, Zenon
<1>3. \A m \in T : ~(m < n)
  BY <1>2
<1> QED BY <1>3

(* Induction up to a bound, on a set. *)
LEMMA UpTo ==
    ASSUME NEW L \in Nat, NEW S, 0 \in S, \A m \in 1 .. L : m - 1 \in S => m \in S
    PROVE  \A m \in 0 .. L : m \in S
<1> DEFINE T == {m \in 0 .. L : m \notin S}
<1> SUFFICES ASSUME T # {} PROVE FALSE
  OBVIOUS
<1>1. PICK m \in T : \A k \in T : m <= k
  <2>1. T \in SUBSET Nat
    OBVIOUS
  <2> HIDE DEF T
  <2> QED BY <2>1, LeastNumber
<1>2. m \in 0 .. L /\ m \notin S /\ m # 0
  BY <1>1
<1>3. m \in 1 .. L /\ m - 1 \in 0 .. L /\ m - 1 \notin T
  BY <1>1, <1>2
<1> QED BY <1>2, <1>3

(* Sums over the first entries of a list: they exist ...                     *)
Sums(f, s) ==
    /\ f \in [0 .. Len(s) -> Nat] /\ f[0] = 0
    /\ \A n \in 1 .. Len(s) : f[n] = f[n - 1] + Len(s[n].messages)

(* Every list has its sums. *)
LEMMA SumsExist ==
    ASSUME NEW s \in Seq(Entries)
    PROVE  \E f : Sums(f, s)
<1> DEFINE w(n) == Len(s[n].messages)
           L == Len(s)
           Upto(m, f) == f \in [0 .. m -> Nat] /\ f[0] = 0 /\ \A n \in 1 .. m : f[n] = f[n - 1] + w(n)
           S == {m \in 0 .. L : \E f : Upto(m, f)}
<1>0. L \in Nat /\ \A n \in 1 .. L : w(n) \in Nat
  BY SMTT(60) DEF Entries
<1> HIDE DEF w, L
<1>1. 0 \in S
  <2> DEFINE f == [n \in {0} |-> 0]
  <2>1. f \in [0 .. 0 -> Nat] /\ f[0] = 0 /\ 1 .. 0 = {}
    OBVIOUS
  <2>2. Upto(0, f)
    BY <2>1
  <2> HIDE DEF Upto
  <2> QED BY <1>0, <2>2
<1>2. ASSUME NEW m \in 1 .. L, m - 1 \in S PROVE m \in S
  <2>0. m \in Nat /\ m - 1 \in Nat /\ m \in 0 .. L /\ w(m) \in Nat
    BY <1>0
  <2>1. PICK f : Upto(m - 1, f)
    BY <1>2
  <2> DEFINE g == [n \in 0 .. m |-> IF n = m THEN f[m - 1] + w(m) ELSE f[n]]
  <2>2. f \in [0 .. m - 1 -> Nat] /\ f[0] = 0 /\ (\A n \in 1 .. m - 1 : f[n] = f[n - 1] + w(n))
    BY <2>1
  <2>3. f[m - 1] + w(m) \in Nat
    BY <2>0, <2>2
  <2>4. ASSUME NEW n \in 0 .. m PROVE g[n] \in Nat
    <3>1. CASE n = m BY <3>1, <2>3
    <3>2. CASE n # m
      <4>1. n \in 0 .. m - 1
        BY <2>0, <3>2
      <4> QED BY <4>1, <2>2, <3>2
    <3> QED BY <3>1, <3>2
  <2>5. g \in [0 .. m -> Nat]
    BY <2>4
  <2>6. g[0] = 0
    BY <2>0, <2>2
  <2>7. ASSUME NEW n \in 1 .. m PROVE g[n] = g[n - 1] + w(n)
    <3>1. n - 1 \in 0 .. m /\ n - 1 # m /\ g[n - 1] = f[n - 1]
      BY <2>0
    <3>2. CASE n = m BY <3>1, <3>2
    <3>3. CASE n # m
      <4>1. n \in 1 .. m - 1 /\ g[n] = f[n]
        BY <2>0, <3>3
      <4> QED BY <4>1, <2>2, <3>1
    <3> QED BY <3>2, <3>3
  <2>8. Upto(m, g)
    BY <2>5, <2>6, <2>7
  <2> HIDE DEF Upto, g
  <2> QED BY <2>0, <2>8
<1>3. L \in S
  <2> HIDE DEF S
  <2>1. \A m \in 0 .. L : m \in S
    BY <1>0, <1>1, <1>2, UpTo
  <2> QED BY <1>0, <2>1
<1> QED BY <1>3 DEF Sums, w, L

(* ... and are what Size computes.                                           *)
LEMMA SizeFacts ==
    ASSUME NEW s \in Seq(Entries)
    PROVE  Sums(Size(s), s)
<1> DEFINE total(f) == [n \in 0 .. Len(s) |-> IF n = 0 THEN 0 ELSE f[n - 1] + Len(s[n].messages)]
<1>1. Size(s) = CHOOSE f : f = total(f)
  BY DEF Size
<1>2. PICK f : Sums(f, s)
  BY SumsExist
<1>3. f = total(f)
  BY <1>2 DEF Sums
<1>4. Size(s) = total(Size(s))
  <2> HIDE DEF total
  <2> QED BY <1>1, <1>3
<1>5. PICK g : g = Size(s)
  OBVIOUS
<1>6. PICK L \in Nat : L = Len(s)
  OBVIOUS
<1>7. /\ g = [n \in 0 .. L |-> g[n]]
      /\ g[0] = 0 /\ \A n \in 1 .. L : g[n] = g[n - 1] + Len(s[n].messages)
  <2>1. g = total(g)
    BY <1>4, <1>5
  <2> DEFINE b(n) == IF n = 0 THEN 0 ELSE g[n - 1] + Len(s[n].messages)
  <2>2. g = [n \in 0 .. L |-> b(n)]
    BY <2>1, <1>6
  <2>3. g = [n \in 0 .. L |-> g[n]] /\ \A n \in 0 .. L : g[n] = b(n)
    <3> HIDE DEF b
    <3> QED BY <2>2
  <2>4. b(0) = 0 /\ \A n \in 1 .. L : n \in 0 .. L /\ b(n) = g[n - 1] + Len(s[n].messages)
    OBVIOUS
  <2> QED BY <2>3, <2>4
<1>8. /\ f \in [0 .. L -> Nat]
      /\ f[0] = 0 /\ \A n \in 1 .. L : f[n] = f[n - 1] + Len(s[n].messages)
  BY <1>2, <1>6 DEF Sums
<1> DEFINE S == {n \in 0 .. L : g[n] = f[n]}
<1>9. \A n \in 0 .. L : n \in S
  <2>1. 0 \in S
    BY <1>7, <1>8
  <2>2. ASSUME NEW n \in 1 .. L, n - 1 \in S PROVE n \in S
    <3>1. n - 1 \in 0 .. L /\ n \in 0 .. L /\ g[n - 1] = f[n - 1]
      BY <2>2
    <3>2. g[n] = f[n - 1] + Len(s[n].messages)
      BY <1>7, <3>1, Zenon
    <3>3. g[n] = f[n]
      BY <1>8, <3>2, Zenon
    <3> QED BY <3>1, <3>3
  <2> HIDE DEF S
  <2> QED BY <2>1, <2>2, UpTo
<1>10. g = f
  BY <1>7, <1>8, <1>9
<1> QED BY <1>2, <1>5, <1>10

(* Entries of the same lengths have the same sums.                           *)
LEMMA SumsAgree ==
    ASSUME NEW s \in Seq(Entries), NEW t \in Seq(Entries), NEW k \in 0 .. Len(s), k <= Len(t),
           \A i \in 1 .. k : s[i] = t[i]
    PROVE  Size(s)[k] = Size(t)[k]
<1>1. PICK f : f = Size(s)
  OBVIOUS
<1>2. PICK g : g = Size(t)
  OBVIOUS
<1>3. Sums(f, s) /\ Sums(g, t)
  BY <1>1, <1>2, SizeFacts
<1> DEFINE S == {n \in 0 .. k : f[n] = g[n]}
<1>4. 0 \in S
  BY <1>3 DEF Sums
<1>5. ASSUME NEW n \in 1 .. k, n - 1 \in S PROVE n \in S
  <2>1. f[n - 1] = g[n - 1] /\ n \in 0 .. k
    BY <1>5
  <2>2. n \in 1 .. Len(s) /\ n \in 1 .. Len(t) /\ s[n] = t[n]
    BY <1>5
  <2>3. f[n] = f[n - 1] + Len(s[n].messages) /\ g[n] = g[n - 1] + Len(t[n].messages)
    BY <1>3, <2>2 DEF Sums
  <2> QED BY <2>1, <2>2, <2>3
<1>6. k \in Nat
  OBVIOUS
<1>7. \A n \in 0 .. k : n \in S
  <2> HIDE DEF S
  <2> QED BY <1>4, <1>5, <1>6, UpTo
<1> QED BY <1>1, <1>2, <1>6, <1>7

(* One list behind another.                                                  *)
LEMMA ConcatFacts ==
    ASSUME NEW s \in Seq(Entries), NEW t \in Seq(Entries)
    PROVE  /\ s \o t \in Seq(Entries) /\ Len(s \o t) = Len(s) + Len(t)
           /\ \A i \in 1 .. Len(s) : (s \o t)[i] = s[i]
           /\ \A i \in Len(s) + 1 .. Len(s) + Len(t) :
                (s \o t)[i] = t[i - Len(s)] /\ i - Len(s) \in 1 .. Len(t)
OBVIOUS

(* A list without its entry at i.                                            *)
LEMMA RemoveFacts ==
    ASSUME NEW s \in Seq(Entries), NEW i \in 1 .. Len(s), NEW t, t = RemoveAt(s, i)
    PROVE  /\ t \in Seq(Entries) /\ Len(t) = Len(s) - 1
           /\ \A k \in 1 .. Len(t) : t[k] = IF k < i THEN s[k] ELSE s[k + 1]
<1>1. t = SubSeq(s, 1, i - 1) \o SubSeq(s, i + 1, Len(s))
  BY DEF RemoveAt
<1>2. PICK L \in Nat : L = Len(s)
  OBVIOUS
<1> DEFINE a == SubSeq(s, 1, i - 1)
           b == SubSeq(s, i + 1, Len(s))
<1>3. a \in Seq(Entries) /\ Len(a) = i - 1 /\ \A k \in 1 .. i - 1 : a[k] = s[k]
  BY <1>2
<1>4. b \in Seq(Entries) /\ Len(b) = L - i /\ \A k \in 1 .. L - i : b[k] = s[k + i]
  BY <1>2
<1> HIDE DEF a, b
<1>5. t = a \o b
  BY <1>1 DEF a, b
<1>6. t \in Seq(Entries) /\ Len(t) = L - 1
  BY <1>2, <1>3, <1>4, <1>5
<1>7. ASSUME NEW k \in 1 .. L - 1 PROVE t[k] = IF k < i THEN s[k] ELSE s[k + 1]
  <2>1. CASE k < i
    BY <2>1, <1>2, <1>3, <1>4, <1>5
  <2>2. CASE ~(k < i)
    <3>0. k \in Len(a) + 1 .. Len(a) + Len(b)
      BY <2>2, <1>2, <1>3, <1>4
    <3>1. t[k] = b[k - Len(a)]
      BY SMTT(60), <3>0, <1>3, <1>4, <1>5, ConcatFacts
    <3>2. k - (i - 1) \in 1 .. L - i /\ k - (i - 1) + i = k + 1
      BY <2>2, <1>2
    <3> QED BY <2>2, <3>1, <3>2, <1>3, <1>4
  <2> QED BY <2>1, <2>2
<1> QED BY <1>2, <1>6, <1>7

(* Without it the list is not larger.                                        *)
LEMMA RemoveShrinks ==
    ASSUME NEW s \in Seq(Entries), NEW i \in 1 .. Len(s), NEW t, t = RemoveAt(s, i)
    PROVE  Size(t)[Len(t)] <= Size(s)[Len(s)]
<1>1. PICK f : f = Size(s)
  OBVIOUS
<1>2. PICK g : g = Size(t)
  OBVIOUS
<1>3. PICK L \in Nat : L = Len(s)
  OBVIOUS
<1>4. /\ t \in Seq(Entries) /\ Len(t) = L - 1
      /\ \A k \in 1 .. L - 1 : t[k] = IF k < i THEN s[k] ELSE s[k + 1]
  BY SMTT(60), <1>3, RemoveFacts
<1> DEFINE w(k) == Len(s[k].messages)
<1>5. \A k \in 1 .. L : w(k) \in Nat
  BY SMTT(60), <1>3 DEF Entries
<1>6. Sums(f, s) /\ Sums(g, t)
  BY <1>1, <1>2, <1>4, SizeFacts
<1>7. f \in [0 .. L -> Nat] /\ f[0] = 0 /\ \A k \in 1 .. L : f[k] = f[k - 1] + w(k)
  BY <1>3, <1>6 DEF Sums
<1>8. /\ g \in [0 .. L - 1 -> Nat] /\ g[0] = 0
      /\ \A k \in 1 .. L - 1 : g[k] = g[k - 1] + (IF k < i THEN w(k) ELSE w(k + 1))
  BY ZenonT(120), <1>4, <1>6 DEF Sums
<1> HIDE DEF w
<1> DEFINE S == {k \in 0 .. L - 1 : IF k < i THEN g[k] = f[k] ELSE g[k] + w(i) = f[k + 1]}
<1>9. i \in 1 .. L /\ L - 1 \in Nat
  BY <1>3
<1>10. 0 \in S
  BY <1>7, <1>8, <1>9
<1>11. ASSUME NEW k \in 1 .. L - 1, k - 1 \in S PROVE k \in S
  <2>0. k \in 1 .. L /\ k + 1 \in 1 .. L /\ k - 1 \in 0 .. L - 1 /\ k \in 0 .. L /\ k \in 0 .. L - 1
    BY <1>9
  <2>1. CASE k < i
    <3>1. g[k - 1] = f[k - 1]
      BY <2>1, <1>11, <1>9, <2>0
    <3>2. g[k] = f[k]
      BY <2>1, <3>1, <2>0, <1>7, <1>8
    <3> QED BY <2>0, <2>1, <3>2
  <2>2. CASE k = i
    <3>1. g[k - 1] = f[k - 1]
      BY <2>2, <1>11, <1>9, <2>0
    <3>2. f[k + 1] = f[k] + w(k + 1) /\ f[k] = f[k - 1] + w(k) /\ g[k] = g[k - 1] + w(k + 1)
      BY <2>2, <2>0, <1>7, <1>8, <1>9
    <3>3. f[k - 1] \in Nat /\ w(k) \in Nat /\ w(k + 1) \in Nat
      BY SMTT(60), <2>0, <1>5, <1>7
    <3>4. g[k] + w(i) = f[k + 1]
      BY <2>2, <3>1, <3>2, <3>3
    <3> QED BY <2>0, <2>2, <3>4, <1>9
  <2>3. CASE k > i
    <3>1. g[k - 1] + w(i) = f[k]
      BY <2>3, <1>11, <1>9, <2>0
    <3>2. f[k + 1] = f[k] + w(k + 1) /\ g[k] = g[k - 1] + w(k + 1)
      <4>1. f[k + 1] = f[(k + 1) - 1] + w(k + 1) /\ (k + 1) - 1 = k
        BY <2>0, <1>7
      <4>2. g[k] = g[k - 1] + (IF k < i THEN w(k) ELSE w(k + 1)) /\ ~(k < i)
        BY <1>8, <1>9, <2>0, <2>3
      <4> QED BY <4>1, <4>2
    <3>3. g[k - 1] \in Nat /\ w(i) \in Nat /\ w(k + 1) \in Nat /\ f[k] \in Nat
      BY <2>0, <1>5, <1>7, <1>8, <1>9
    <3>4. g[k] + w(i) = f[k + 1]
      BY SMTT(60), <3>1, <3>2, <3>3
    <3> QED BY <2>0, <2>3, <3>4, <1>9
  <2> QED BY <2>1, <2>2, <2>3, <1>9
<1>12. L - 1 \in S
  <2> HIDE DEF S
  <2>1. \A k \in 0 .. L - 1 : k \in S
    BY <1>9, <1>10, <1>11, UpTo
  <2> QED BY <1>9, <2>1
<1>13. g[L - 1] <= f[L]
  <2>1. g[L - 1] \in Nat /\ w(L) \in Nat /\ w(i) \in Nat /\ f[L] = f[L - 1] + w(L) /\ f[L - 1] \in Nat
    BY <1>5, <1>7, <1>8, <1>9
  <2>2. CASE L - 1 < i BY <2>1, <2>2, <1>9, <1>12
  <2>3. CASE ~(L - 1 < i) BY <2>1, <2>3, <1>9, <1>12
  <2> QED BY <2>2, <2>3
<1> QED BY <1>1, <1>2, <1>3, <1>4, <1>13

(* commit: the longest start of the list that fits.                          *)
LEMMA KeptFacts ==
    ASSUME NEW s \in Seq(Entries), s # <<>>, NEW t, t = Kept(s)
    PROVE  /\ t \in Seq(Entries) /\ Len(t) \in 1 .. Len(s) /\ \A k \in 1 .. Len(t) : t[k] = s[k]
           /\ Fits(t, Len(t))
           /\ Fits(s, Len(s)) => t = s
<1> DEFINE fits == {n \in 1 .. Len(s) : Fits(s, n)}
<1>1. PICK L \in Nat : L = Len(s) /\ L # 0
  OBVIOUS
<1>2. 1 \in fits
  BY <1>1, BoundsAssumption DEF Fits
<1>3. fits \subseteq 1 .. L /\ \A n \in fits : Fits(s, n)
  BY <1>1
<1>4. \E n \in fits : \A m \in fits : m <= n
  <2> HIDE DEF fits
  <2> DEFINE T == {L - n : n \in fits}
  <2>1. T \in SUBSET Nat /\ T # {}
    BY <1>1, <1>2, <1>3
  <2>2. PICK l \in T : \A m \in T : l <= m
    <3> HIDE DEF T
    <3> QED BY <2>1, LeastNumber
  <2>3. PICK n \in fits : l = L - n
    BY <2>2
  <2>4. ASSUME NEW m \in fits PROVE m <= n
    <3>1. L - n <= L - m
      BY <2>2, <2>3
    <3> QED BY <3>1, <1>1, <1>3
  <2> QED BY <2>3, <2>4
<1>5. PICK n : n = CHOOSE k \in fits : \A m \in fits : m <= k
  OBVIOUS
<1>6. n \in fits /\ \A m \in fits : m <= n
  <2> HIDE DEF fits
  <2> QED BY <1>4, <1>5
<1>7. t = SubSeq(s, 1, n)
  BY <1>5 DEF Kept
<1>8. n \in 1 .. L /\ Fits(s, n)
  BY <1>3, <1>6
<1>9. t \in Seq(Entries) /\ Len(t) = n /\ \A k \in 1 .. n : t[k] = s[k]
  BY <1>1, <1>7, <1>8
<1>10. Size(s)[n] = Size(t)[n]
  BY <1>1, <1>8, <1>9, SumsAgree
<1>11. Fits(t, n)
  BY <1>8, <1>10 DEF Fits
<1>12. ASSUME Fits(s, Len(s)) PROVE t = s
  <2>1. L \in fits
    BY <1>1, <1>12
  <2>2. n = L
    BY <2>1, <1>1, <1>6, <1>8
  <2> QED BY <2>2, <1>1, <1>9
<1> QED BY <1>1, <1>8, <1>9, <1>11, <1>12

(* Others: every entry of another id, and nothing else.                      *)
LEMMA OthersFacts ==
    ASSUME NEW id, sessions \in Seq(Entries), OnceEach(sessions), NEW t, t = Others(id)
    PROVE  /\ t \in Seq(Entries) /\ Len(t) <= Len(sessions) /\ OnceEach(t)
           /\ \A k \in DOMAIN t : t[k].id # id /\ \E l \in DOMAIN sessions : t[k] = sessions[l]
           /\ \A l \in DOMAIN sessions : sessions[l].id # id => \E k \in DOMAIN t : t[k] = sessions[l]
           /\ (t # <<>> /\ Fits(sessions, Len(sessions))) => Fits(t, Len(t))
<1> DEFINE Here == \E i \in DOMAIN sessions : sessions[i].id = id
<1>1. CASE ~Here
  <2>1. t = sessions
    BY <1>1 DEF Others
  <2> QED BY <1>1, <2>1
<1>2. CASE Here
  <2>1. PICK i : i = CHOOSE x \in DOMAIN sessions : sessions[x].id = id
    OBVIOUS
  <2>2. i \in DOMAIN sessions /\ sessions[i].id = id
    BY <1>2, <2>1
  <2>3. t = RemoveAt(sessions, i)
    BY <1>2, <2>1 DEF Others
  <2>4. PICK L \in Nat : L = Len(sessions) /\ i \in 1 .. L /\ DOMAIN sessions = 1 .. L
    BY <2>2
  <2>5. /\ t \in Seq(Entries) /\ Len(t) = L - 1
        /\ \A k \in 1 .. L - 1 : t[k] = IF k < i THEN sessions[k] ELSE sessions[k + 1]
    <3>1. /\ t \in Seq(Entries) /\ Len(t) = Len(sessions) - 1
          /\ \A k \in 1 .. Len(t) : t[k] = IF k < i THEN sessions[k] ELSE sessions[k + 1]
      BY <2>3, <2>4, RemoveFacts, ZenonT(120)
    <3> QED BY <3>1, <2>4
  <2>6. Size(t)[Len(t)] <= Size(sessions)[Len(sessions)]
    BY <2>3, <2>4, RemoveShrinks
  <2> DEFINE at(k) == IF k < i THEN k ELSE k + 1
  <2>7. DOMAIN t = 1 .. L - 1
    BY <2>4, <2>5
  <2>8. ASSUME NEW k \in 1 .. L - 1 PROVE at(k) \in 1 .. L /\ at(k) # i /\ t[k] = sessions[at(k)]
    BY <2>4, <2>5
  <2>9. ASSUME NEW k \in 1 .. L - 1, NEW l \in 1 .. L - 1, at(k) = at(l) PROVE k = l
    BY <2>9, <2>4
  <2>10. ASSUME NEW l \in 1 .. L, l # i PROVE \E k \in 1 .. L - 1 : at(k) = l
    <3>1. CASE l < i BY <3>1, <2>4
    <3>2. CASE ~(l < i)
      <4>1. l - 1 \in 1 .. L - 1 /\ at(l - 1) = l
        BY <2>10, <3>2, <2>4
      <4> QED BY <4>1
    <3> QED BY <3>1, <3>2
  <2> HIDE DEF at
  <2>11. OnceEach(t)
    <3> SUFFICES ASSUME NEW k \in 1 .. L - 1, NEW l \in 1 .. L - 1, t[k].id = t[l].id PROVE k = l
      BY <2>7 DEF OnceEach
    <3>1. at(k) = at(l)
      BY <2>4, <2>8 DEF OnceEach
    <3> QED BY <3>1, <2>9
  <2>12. \A k \in 1 .. L - 1 : t[k].id # id /\ \E l \in DOMAIN sessions : t[k] = sessions[l]
    BY <2>2, <2>4, <2>8 DEF OnceEach
  <2>13. \A l \in DOMAIN sessions : sessions[l].id # id => \E k \in 1 .. L - 1 : t[k] = sessions[l]
    BY <2>2, <2>4, <2>8, <2>10
  <2>14. (t # <<>> /\ Fits(sessions, Len(sessions))) => Fits(t, Len(t))
    <3> SUFFICES ASSUME t # <<>>, Fits(sessions, L) PROVE Fits(t, L - 1)
      BY <2>4, <2>5
    <3>0. CASE L - 1 = 1 BY <3>0, BoundsAssumption DEF Fits
    <3> SUFFICES ASSUME L - 1 # 1 PROVE Fits(t, L - 1)
      BY <3>0
    <3>1. L - 1 # 0 /\ L # 1
      BY <2>5
    <3>2. PICK a : a = Size(t)[L - 1]
      OBVIOUS
    <3>3. PICK b : b = Size(sessions)[L]
      OBVIOUS
    <3>4. a <= b /\ b <= MaxTotal /\ L <= MaxSessions
      BY <3>1, <3>2, <3>3, <2>4, <2>5, <2>6 DEF Fits
    <3>5. a \in Nat /\ b \in Nat
      <4>1. Sums(Size(t), t) /\ Sums(Size(sessions), sessions)
        BY <2>5, SizeFacts
      <4>2. L - 1 \in 0 .. Len(t) /\ L \in 0 .. Len(sessions)
        BY <2>4, <2>5, <3>1
      <4> QED BY <3>2, <3>3, <4>1, <4>2 DEF Sums
    <3> QED BY SMTT(60), <3>2, <3>4, <3>5, <2>4, BoundsAssumption DEF Fits
  <2>15. t \in Seq(Entries) /\ Len(t) <= Len(sessions)
    BY <2>4, <2>5
  <2> QED BY <2>7, <2>11, <2>12, <2>13, <2>14, <2>15, Zenon
<1> QED BY <1>1, <1>2

----------------------------------------------------------------------------
(* Later requests leave the conversations of the earlier ones alone.         *)
Grows(ts, us) ==
    /\ ts \in Seq(Jobs) /\ us \in Seq(Jobs) /\ DOMAIN ts \subseteq DOMAIN us
    /\ \A r \in DOMAIN ts : us[r].conv = ts[r].conv

(* What a handle belongs to, and whether a store is right, does not change.  *)
LEMMA OwnStays ==
    ASSUME NEW ts, NEW us, Grows(ts, us)
    PROVE  /\ \A h, c : Own(ts, h, c) => Own(us, h, c)
           /\ \A s : StoreOk(ts, s) => StoreOk(us, s)
<1>1. \A h, c : Own(ts, h, c) => Own(us, h, c)
  BY DEF Own, Grows
<1> QED BY <1>1 DEF StoreOk, EntryOk

(* A turn whose own state is right stays right while the others grow and     *)
(* the panel keeps what the turn needs.                                      *)
LEMMA JobStays ==
    ASSUME NEW ts, NEW us, Grows(ts, us), NEW p, NEW q, NEW r, NEW j, JobOk(ts, p, r, j),
           j.mine => q # NoPanel /\ q.busy /\ q.requestId = r /\ q.conv = j.conv
    PROVE  JobOk(us, q, r, j)
<1>1. \A h, c : Own(ts, h, c) => Own(us, h, c)
  BY OwnStays
<1>2. \A e : EventOk(ts, r, j, e) => EventOk(us, r, j, e)
  BY <1>1 DEF EventOk
<1> QED BY <1>1, <1>2 DEF JobOk

(* Changing one request.                                                     *)
With(ts, r, j) == [ts EXCEPT ![r] = j]
Changed(ts, us, r, j) ==
    /\ DOMAIN us = DOMAIN ts /\ us[r] = j /\ Len(us) = Len(ts)
    /\ \A k \in DOMAIN ts : k # r => us[k] = ts[k]

(* Only that request changes, and its conversation does not. *)
LEMMA ChangeOne ==
    ASSUME NEW ts \in Seq(Jobs), NEW r \in DOMAIN ts, NEW j \in Jobs, j.conv = ts[r].conv,
           NEW us, us = With(ts, r, j)
    PROVE  Grows(ts, us) /\ Changed(ts, us, r, j)
<1>1. us \in Seq(Jobs) /\ DOMAIN us = DOMAIN ts /\ Len(us) = Len(ts)
  BY DEF With
<1>2. us[r] = j /\ \A k \in DOMAIN ts : k # r => us[k] = ts[k]
  BY DEF With
<1> QED BY <1>1, <1>2 DEF Grows, Changed

(* Adding a request.                                                         *)
Added(ts, j) == Append(ts, j)
NewId(ts) == Len(ts) + 1
Longer(ts, us, n, j) ==
    /\ DOMAIN us = DOMAIN ts \cup {n} /\ us[n] = j /\ n \in Nat /\ n \notin DOMAIN ts
    /\ \A k \in DOMAIN ts : us[k] = ts[k]

(* The others stay, and the new one comes last. *)
LEMMA AddOne ==
    ASSUME NEW ts \in Seq(Jobs), NEW j \in Jobs, NEW us, us = Added(ts, j), NEW n, n = NewId(ts)
    PROVE  Grows(ts, us) /\ Longer(ts, us, n, j)
<1>1. PICK L \in Nat : L = Len(ts) /\ DOMAIN ts = 1 .. L
  OBVIOUS
<1>2. us \in Seq(Jobs) /\ DOMAIN us = 1 .. L + 1 /\ us[L + 1] = j /\ \A k \in 1 .. L : us[k] = ts[k]
  BY <1>1 DEF Added
<1>3. 1 .. L + 1 = 1 .. L \cup {L + 1} /\ L + 1 \notin 1 .. L
  BY <1>1
<1> QED BY <1>1, <1>2, <1>3 DEF Grows, NewId, Longer

(* IdleIsStored, of a panel.                                                 *)
Stored(p, s, gone) ==
    (p # NoPanel /\ ~p.busy /\ p.messages # <<>> /\ p.conv \notin gone) =>
        \E k \in DOMAIN s : s[k].id = p.conv /\ s[k].messages = p.messages /\ s[k].handle = p.handle

(* The panel is open or it is closed.                                        *)
LEMMA NoPanelFacts == NoPanel \notin Panels
<1>1. NoPanel.conv = -1
  BY DEF NoPanel
<1>2. \A p \in Panels : p.conv \in Nat
  BY DEF Panels
<1> QED BY <1>1, <1>2

(* upsert stores what an idle panel shows and keeps the store right.         *)
LEMMA UpsertFacts ==
    ASSUME TypeInv, StoreOk(turn, sessions), NEW p \in Panels, Upsert(p),
           Own(turn, p.handle, p.conv), OfConv(p.messages, p.conv)
    PROVE  sessions' \in Seq(Entries) /\ StoreOk(turn, sessions') /\ Stored(p, sessions', forgotten')
<1> DEFINE entry == [id |-> p.conv, provider |-> p.provider, handle |-> p.handle, messages |-> p.messages]
           same == \E i \in DOMAIN sessions : sessions[i].id = p.conv /\ SameEntry(sessions[i], p)
<1>0. sessions \in Seq(Entries)
  BY DEF TypeInv
<1>1. CASE p.busy \/ p.messages = <<>> \/ same
  <2>1. UNCHANGED <<sessions, forgotten>>
    BY <1>1 DEF Upsert
  <2>2. Stored(p, sessions, forgotten)
    BY <1>1 DEF Stored, SameEntry
  <2> QED BY <2>1, <2>2, <1>0
<1>2. CASE ~(p.busy \/ p.messages = <<>> \/ same)
  <2>1. sessions' = Kept(<<entry>> \o Others(p.conv))
    BY <1>2 DEF Upsert
  <2>2. entry \in Entries /\ EntryOk(turn, entry) /\ entry.id = p.conv
    BY DEF Entries, Panels, EntryOk
  <2>3. entry.messages = p.messages /\ entry.handle = p.handle
    OBVIOUS
  <2> HIDE DEF entry
  <2>4. PICK o : o = Others(p.conv)
    OBVIOUS
  <2>5. /\ o \in Seq(Entries) /\ OnceEach(o)
        /\ \A k \in DOMAIN o : o[k].id # p.conv /\ \E l \in DOMAIN sessions : o[k] = sessions[l]
    BY <1>0, <2>4, OthersFacts DEF StoreOk
  <2>6. PICK s : s = <<entry>> \o o
    OBVIOUS
  <2>7. PICK L \in Nat : L = Len(o) /\ DOMAIN o = 1 .. L
    BY <2>5
  <2>8. /\ s \in Seq(Entries) /\ Len(s) = L + 1 /\ s # <<>> /\ s[1] = entry
        /\ \A k \in 2 .. L + 1 : k - 1 \in 1 .. L /\ s[k] = o[k - 1]
    BY <2>2, <2>5, <2>6, <2>7
  <2>9. PICK t : t = Kept(s)
    OBVIOUS
  <2>10. /\ t \in Seq(Entries) /\ Len(t) \in 1 .. L + 1 /\ Fits(t, Len(t))
         /\ \A k \in 1 .. Len(t) : t[k] = s[k]
    BY <2>8, <2>9, KeptFacts
  <2>11. t = sessions'
    BY <2>1, <2>4, <2>6, <2>9
  <2>12. PICK n \in Nat : n = Len(t) /\ DOMAIN t = 1 .. n /\ n \in 1 .. L + 1
    BY <2>10
  <2>13. t[1] = entry /\ 1 \in 1 .. n /\ \A k \in 2 .. n : t[k] = o[k - 1] /\ k - 1 \in 1 .. L
    BY <2>7, <2>8, <2>10, <2>12
  <2>14. ASSUME NEW k \in DOMAIN t PROVE EntryOk(turn, t[k])
    <3>1. CASE k = 1 BY <3>1, <2>2, <2>13
    <3>2. CASE k # 1
      <4>1. k \in 2 .. n
        BY <3>2, <2>12
      <4>2. \E l \in DOMAIN sessions : t[k] = sessions[l]
        BY <4>1, <2>5, <2>7, <2>13
      <4> QED BY <4>2 DEF StoreOk
    <3> QED BY <3>1, <3>2
  <2>15. OnceEach(t)
    <3> SUFFICES ASSUME NEW k \in 1 .. n, NEW l \in 1 .. n, t[k].id = t[l].id PROVE k = l
      BY <2>12 DEF OnceEach
    <3>1. CASE k = 1 /\ l = 1 BY <3>1
    <3>2. CASE k # 1 /\ l # 1
      <4>1. k \in 2 .. n /\ l \in 2 .. n
        BY <3>2, <2>12
      <4>2. PICK i \in DOMAIN o, m \in DOMAIN o : i = k - 1 /\ m = l - 1
        BY <4>1, <2>7, <2>13
      <4>3. o[i].id = o[m].id
        BY <4>1, <4>2, <2>13
      <4>4. i = m
        BY <4>3, <2>5 DEF OnceEach
      <4> QED BY <4>1, <4>2, <4>4, <2>12
    <3>3. CASE k = 1 /\ l # 1
      <4>1. l \in 2 .. n
        BY <3>3, <2>12
      <4> QED BY <4>1, <3>3, <2>2, <2>5, <2>7, <2>13
    <3>4. CASE k # 1 /\ l = 1
      <4>1. k \in 2 .. n
        BY <3>4, <2>12
      <4> QED BY <4>1, <3>4, <2>2, <2>5, <2>7, <2>13
    <3> QED BY <3>1, <3>2, <3>3, <3>4
  <2>16. StoreOk(turn, t)
    BY <2>10, <2>14, <2>15 DEF StoreOk
  <2>17. Stored(p, t, forgotten')
    BY <2>2, <2>3, <2>12, <2>13 DEF Stored
  <2> QED BY <2>10, <2>11, <2>16, <2>17
<1> QED BY <1>1, <1>2

----------------------------------------------------------------------------
(* A step of the panel: it shows p, whose own state is right, and the turns  *)
(* it does not have to answer for stay as they are.                          *)
LEMMA ShowKeeps ==
    ASSUME ChatInv, NEW p \in Panels, Show(p), Grows(turn, turn'), nextConv' \in Nat,
           Own(turn, p.handle, p.conv), OfConv(p.messages, p.conv),
           PanelOk(turn', p), TurnsOk(turn', p)
    PROVE  ChatInv'
<1>1. panel' = p /\ Upsert(p)
  BY DEF Show
<1>2. sessions' \in Seq(Entries) /\ StoreOk(turn, sessions') /\ Stored(p, sessions', forgotten')
  BY <1>1, UpsertFacts DEF ChatInv
<1>3. StoreOk(turn', sessions')
  BY <1>2, OwnStays
<1>4. IdleIsStored'
  BY <1>1, <1>2 DEF IdleIsStored, Stored, Mounted
<1>5. TypeInv'
  BY <1>1, <1>2 DEF TypeInv, Grows
<1> QED BY <1>1, <1>3, <1>4, <1>5 DEF ChatInv

(* A step that leaves the transcripts alone and an idle panel as it is.      *)
LEMMA StoreStays ==
    ASSUME ChatInv, UNCHANGED <<sessions, forgotten>>, Grows(turn, turn'), nextConv' \in Nat,
           panel' \in Panels \cup {NoPanel},
           panel' = panel \/ panel' = NoPanel \/ panel'.busy \/ panel'.messages = <<>>,
           PanelOk(turn', panel'), TurnsOk(turn', panel')
    PROVE  ChatInv'
<1>1. StoreOk(turn', sessions)
  BY OwnStays DEF ChatInv
<1>2. IdleIsStored'
  BY DEF IdleIsStored, Mounted, ChatInv
<1>3. TypeInv'
  BY DEF TypeInv, Grows, ChatInv
<1> QED BY <1>1, <1>2, <1>3 DEF ChatInv

(* While the panel is idle no turn is its own, and nothing is asked.         *)
LEMMA IdleFacts ==
    ASSUME ChatInv, panel = NoPanel \/ ~panel.busy
    PROVE  /\ \A r \in Requests : ~turn[r].mine
           /\ Mounted => panel.approvals = {}
<1>1. \A r \in Requests : ~turn[r].mine
  BY DEF ChatInv, TurnsOk, JobOk, Requests
<1> QED BY <1>1 DEF ChatInv, PanelOk, Mounted, Requests

(* A message more.                                                           *)
LEMMA SayFacts ==
    ASSUME NEW p \in Panels, NEW role \in {"user", "assistant"}, NEW q, q = Say(p, role, p.conv),
           OfConv(p.messages, p.conv)
    PROVE  q = [p EXCEPT !.messages = q.messages] /\ q.messages \in Seq(Messages) /\ OfConv(q.messages, p.conv)
<1>1. PICK m : m = Message(role, p.conv)
  OBVIOUS
<1>2. m \in Messages /\ m.of = p.conv
  BY <1>1 DEF Message, Messages, Panels
<1>3. p.messages \in Seq(Messages) /\ q.messages = Append(p.messages, m)
  BY <1>1 DEF Say, Panels
<1>4. PICK s \in Seq(Messages) : s = p.messages
  BY <1>3
<1>5. Append(s, m) \in Seq(Messages) /\ OfConv(Append(s, m), p.conv)
  BY <1>2, <1>4 DEF OfConv
<1>6. q = [p EXCEPT !.messages = q.messages]
  BY <1>1, <1>3 DEF Say, Panels
<1> QED BY <1>3, <1>4, <1>5, <1>6

(* send: the panel was idle, so the new turn is its only one. *)
LEMMA SendStep ==
    ASSUME ChatInv, Send PROVE ChatInv'
<1>1. panel \in Panels /\ turn \in Seq(Jobs) /\ nextConv \in Nat /\ ~panel.busy /\ Mounted
  BY DEF ChatInv, TypeInv, Send, Mounted
<1>2. PICK j : j = Job(panel.provider, panel.conv, panel.handle, TRUE, 1)
  OBVIOUS
<1>3. /\ j \in Jobs /\ j.conv = panel.conv /\ j.handle = panel.handle /\ j.mine
      /\ j.step = "invoked" /\ j.out = <<>>
  <2>1. /\ panel.provider \in Providers /\ panel.conv \in Nat /\ panel.handle \in Int
        /\ TRUE \in BOOLEAN /\ 1 \in Nat
    BY <1>1 DEF Panels
  <2> QED BY <1>2, <2>1 DEF Job, Jobs, Steps, NoHandle
<1>4. turn' = Added(turn, j)
  BY <1>2 DEF Send, Added
<1>5. PICK n : n = NewId(turn)
  OBVIOUS
<1>6. /\ Grows(turn, turn') /\ DOMAIN turn' = DOMAIN turn \cup {n} /\ turn'[n] = j
      /\ n \in Nat /\ n \notin DOMAIN turn /\ \A k \in DOMAIN turn : turn'[k] = turn[k]
  <2>1. j \in Jobs /\ turn \in Seq(Jobs)
    BY <1>1, <1>3
  <2>2. Grows(turn, turn') /\ Longer(turn, turn', n, j)
    BY <1>4, <1>5, <2>1, AddOne
  <2> QED BY <2>2 DEF Longer
<1>7. PICK s : s = Say(panel, "user", panel.conv)
  OBVIOUS
<1>8. /\ s = [panel EXCEPT !.messages = s.messages] /\ s.messages \in Seq(Messages)
      /\ OfConv(s.messages, panel.conv)
  BY <1>1, <1>7, SayFacts DEF ChatInv, PanelOk, Mounted
<1>9. PICK p : p = [s EXCEPT !.busy = TRUE, !.approvals = {}, !.requestId = n]
  OBVIOUS
<1>10. /\ p \in Panels /\ p.busy = TRUE /\ p.approvals = {} /\ p.requestId = n
       /\ p.conv = panel.conv /\ p.handle = panel.handle /\ p.messages = s.messages
  BY <1>1, <1>6, <1>8, <1>9 DEF Panels
<1>11. Show(p) /\ nextConv' = nextConv
  BY <1>5, <1>7, <1>9 DEF Send, counters, NewId
<1>12. Own(turn, p.handle, p.conv) /\ OfConv(p.messages, p.conv)
  BY <1>1, <1>8, <1>10 DEF ChatInv, PanelOk, Mounted
<1>13. Own(turn', p.handle, p.conv) /\ p # NoPanel
  BY <1>6, <1>10, <1>12, OwnStays, NoPanelFacts
<1>14. PanelOk(turn', p)
  BY <1>10, <1>12, <1>13 DEF PanelOk
<1>15. TurnsOk(turn', p)
  <2>1. JobOk(turn', p, n, j)
    BY <1>3, <1>10, <1>13 DEF JobOk
  <2>2. ASSUME NEW r \in DOMAIN turn PROVE JobOk(turn', p, r, turn[r])
    <3>1. ~turn[r].mine
      BY <1>1, IdleFacts DEF Requests
    <3>2. JobOk(turn, panel, r, turn[r])
      BY DEF ChatInv, TurnsOk
    <3> QED BY <1>6, <3>1, <3>2, JobStays
  <2> QED BY <1>6, <2>1, <2>2 DEF TurnsOk
<1> QED BY <1>1, <1>6, <1>10, <1>11, <1>12, <1>14, <1>15, ShowKeeps

(* No turn of the panel runs: it may show another conversation.              *)
LEMMA IdleShow ==
    ASSUME ChatInv, Mounted, ~panel.busy, UNCHANGED turn, nextConv' \in Nat,
           NEW p \in Panels, Show(p), p.approvals = panel.approvals,
           Own(turn, p.handle, p.conv), OfConv(p.messages, p.conv)
    PROVE  ChatInv'
<1>1. turn \in Seq(Jobs) /\ turn' = turn
  BY DEF ChatInv, TypeInv
<1>2. Grows(turn, turn')
  BY <1>1 DEF Grows
<1>3. p.approvals = {}
  BY IdleFacts
<1>4. PanelOk(turn', p)
  BY <1>1, <1>3 DEF PanelOk
<1>5. TurnsOk(turn', p)
  BY <1>1, IdleFacts DEF TurnsOk, JobOk, ChatInv, Requests
<1> QED BY <1>2, <1>4, <1>5, ShowKeeps

(* newConversation: nothing is asked and nothing runs. *)
LEMMA NewConversationStep ==
    ASSUME ChatInv, NewConversation PROVE ChatInv'
<1>1. panel \in Panels /\ nextConv \in Nat /\ Mounted /\ ~panel.busy
  BY DEF ChatInv, TypeInv, NewConversation, Mounted
<1>2. PICK p : p = [panel EXCEPT !.conv = nextConv, !.handle = NoHandle, !.messages = <<>>]
  OBVIOUS
<1>3. /\ p \in Panels /\ p.approvals = panel.approvals /\ p.messages = <<>> /\ p.handle = NoHandle
  <2>1. NoHandle \in Int /\ <<>> \in Seq(Messages)
    BY DEF NoHandle
  <2>2. p \in Panels
    BY <1>1, <1>2, <2>1 DEF Panels
  <2> QED BY <1>1, <1>2, <2>2 DEF Panels
<1>4. Show(p) /\ nextConv' \in Nat /\ turn' = turn
  BY <1>1, <1>2 DEF NewConversation
<1>5. Own(turn, p.handle, p.conv) /\ OfConv(p.messages, p.conv)
  BY <1>3 DEF Own, OfConv
<1> QED BY <1>1, <1>3, <1>4, <1>5, IdleShow

(* restore shows a transcript as it was stored. *)
LEMMA RestoreStep ==
    ASSUME ChatInv, NEW i \in DOMAIN sessions, Restore(sessions[i]) PROVE ChatInv'
<1>1. panel \in Panels /\ nextConv \in Nat /\ Mounted /\ ~panel.busy /\ sessions \in Seq(Entries)
  BY DEF ChatInv, TypeInv, Restore, Mounted
<1>2. PICK e \in Entries : e = sessions[i]
  BY <1>1
<1>3. PICK p : p = [panel EXCEPT !.conv = e.id, !.handle = e.handle, !.provider = e.provider,
                                 !.messages = e.messages]
  OBVIOUS
<1>4. /\ p \in Panels /\ p.approvals = panel.approvals /\ p.messages = e.messages
      /\ p.handle = e.handle /\ p.conv = e.id
  BY ZenonT(120), <1>1, <1>2, <1>3 DEF Panels, Entries
<1>5. Show(p) /\ nextConv' \in Nat /\ turn' = turn
  BY <1>1, <1>2, <1>3 DEF Restore, counters
<1>6. EntryOk(turn, e)
  BY <1>2 DEF ChatInv, StoreOk
<1> QED BY <1>1, <1>4, <1>5, <1>6, IdleShow DEF EntryOk

(* remove evicts nothing else: what remains fits. *)
LEMMA RemoveStep ==
    ASSUME ChatInv, NEW i \in DOMAIN sessions, RemoveConversation(sessions[i]) PROVE ChatInv'
<1>1. sessions \in Seq(Entries) /\ UNCHANGED <<panel, turn, nextConv>> /\ StoreOk(turn, sessions)
  BY DEF ChatInv, TypeInv, RemoveConversation, counters
<1>2. PICK id : id = sessions[i].id
  OBVIOUS
<1>3. PICK t : t = Others(id)
  OBVIOUS
<1>4. sessions' = Kept(t) /\ forgotten' = forgotten \cup {id}
  BY <1>2, <1>3 DEF RemoveConversation
<1>5. /\ t \in Seq(Entries) /\ OnceEach(t)
      /\ \A k \in DOMAIN t : t[k].id # id /\ \E l \in DOMAIN sessions : t[k] = sessions[l]
      /\ \A l \in DOMAIN sessions : sessions[l].id # id => \E k \in DOMAIN t : t[k] = sessions[l]
      /\ t # <<>> => Fits(t, Len(t))
  <2>1. sessions # <<>>
    BY <1>1
  <2> QED BY <1>1, <1>3, <2>1, OthersFacts DEF StoreOk
<1>6. sessions' = t
  <2>1. CASE t = <<>> BY <2>1, <1>4 DEF Kept
  <2>2. CASE t # <<>> BY <2>2, <1>4, <1>5, KeptFacts
  <2> QED BY <2>1, <2>2
<1>7. StoreOk(turn, t)
  BY <1>1, <1>5 DEF StoreOk
<1>8. IdleIsStored'
  <2> SUFFICES ASSUME Mounted, ~panel.busy, panel.messages # <<>>, panel.conv \notin forgotten \cup {id}
               PROVE  \E k \in DOMAIN t : /\ t[k].id = panel.conv /\ t[k].messages = panel.messages
                                          /\ t[k].handle = panel.handle
    BY <1>1, <1>4, <1>6 DEF IdleIsStored, Mounted
  <2>1. PICK l \in DOMAIN sessions : /\ sessions[l].id = panel.conv
                                     /\ sessions[l].messages = panel.messages
                                     /\ sessions[l].handle = panel.handle
    BY DEF ChatInv, IdleIsStored
  <2>2. PICK k \in DOMAIN t : t[k] = sessions[l]
    BY <2>1, <1>5
  <2> QED BY <2>1, <2>2
<1> QED BY <1>1, <1>5, <1>6, <1>7, <1>8 DEF ChatInv, TypeInv

(* A change of the provider drops the handle and saves an idle transcript. *)
LEMMA ChangeProviderStep ==
    ASSUME ChatInv, NEW x \in Providers, ChangeProvider(x) PROVE ChatInv'
<1>1. panel \in Panels /\ nextConv \in Nat /\ Mounted /\ turn' = turn /\ turn \in Seq(Jobs)
  BY DEF ChatInv, TypeInv, ChangeProvider, Mounted
<1>2. PICK p : p = [panel EXCEPT !.provider = x, !.handle = NoHandle]
  OBVIOUS
<1>3. /\ p \in Panels /\ p.approvals = panel.approvals /\ p.messages = panel.messages
      /\ p.handle = NoHandle /\ p.conv = panel.conv /\ p.busy = panel.busy
      /\ p.requestId = panel.requestId
  <2>1. NoHandle \in Int
    BY DEF NoHandle
  <2>2. p \in Panels
    BY <1>1, <1>2, <2>1 DEF Panels
  <2> QED BY <1>1, <1>2, <2>2 DEF Panels
<1>4. Show(p) /\ nextConv' \in Nat
  BY <1>1, <1>2 DEF ChangeProvider
<1>5. Own(turn, p.handle, p.conv) /\ OfConv(p.messages, p.conv) /\ p # NoPanel
  BY <1>1, <1>3, NoPanelFacts DEF Own, ChatInv, PanelOk, Mounted
<1>6. PanelOk(turn, p)
  BY <1>1, <1>3, <1>5 DEF PanelOk, ChatInv, Mounted
<1>7. TurnsOk(turn, p)
  <2> SUFFICES ASSUME NEW r \in DOMAIN turn PROVE JobOk(turn, p, r, turn[r])
    BY DEF TurnsOk
  <2>1. JobOk(turn, panel, r, turn[r])
    BY DEF TurnsOk, ChatInv
  <2> QED BY <1>3, <1>5, <2>1 DEF JobOk
<1>8. Grows(turn, turn')
  BY <1>1 DEF Grows
<1> QED BY <1>1, <1>3, <1>4, <1>5, <1>6, <1>7, <1>8, ShowKeeps

(* A new panel has no turn. *)
LEMMA OpenStep ==
    ASSUME ChatInv, OpenPanel PROVE ChatInv'
<1>1. panel = NoPanel /\ nextConv \in Nat /\ turn \in Seq(Jobs) /\ turn' = turn
  BY DEF ChatInv, TypeInv, OpenPanel, Mounted
<1>2. PICK p : p = Fresh(nextConv)
  OBVIOUS
<1>3. p \in Panels /\ p.messages = <<>> /\ p.handle = NoHandle /\ p.approvals = {}
  BY <1>1, <1>2, BoundsAssumption DEF Fresh, Panels, Providers, NoHandle, NoRequest
<1>4. panel' = p /\ nextConv' \in Nat /\ UNCHANGED <<sessions, forgotten>>
  BY <1>1, <1>2 DEF OpenPanel
<1>5. Grows(turn, turn')
  BY <1>1 DEF Grows
<1>6. PanelOk(turn', p)
  BY <1>3 DEF PanelOk, OfConv, Own
<1>7. TurnsOk(turn', p)
  BY <1>1, IdleFacts DEF TurnsOk, JobOk, ChatInv, Requests
<1> QED BY <1>3, <1>4, <1>5, <1>6, <1>7, StoreStays

(* Closing the panel takes its turn away from the screen. *)
LEMMA CloseStep ==
    ASSUME ChatInv, ClosePanel PROVE ChatInv'
<1>1. /\ panel \in Panels /\ nextConv \in Nat /\ turn \in Seq(Jobs)
      /\ panel' = NoPanel /\ UNCHANGED <<sessions, forgotten, nextConv>>
  BY DEF ChatInv, TypeInv, ClosePanel, Mounted, counters
<1> DEFINE j(r) == IF turn[r].mine THEN [turn[r] EXCEPT !.mine = FALSE, !.ref = panel.handle] ELSE turn[r]
<1>2. turn' = [r \in DOMAIN turn |-> j(r)]
  BY DEF ClosePanel, Requests
<1>3. ASSUME NEW r \in DOMAIN turn
      PROVE  /\ j(r) \in Jobs /\ j(r).conv = turn[r].conv /\ j(r).handle = turn[r].handle
             /\ j(r).step = turn[r].step /\ j(r).out = turn[r].out /\ j(r).cli = turn[r].cli
             /\ j(r).sent = turn[r].sent /\ ~j(r).mine
  <2>1. turn[r] \in Jobs /\ panel.handle \in Int
    BY <1>1 DEF Panels
  <2>2. CASE turn[r].mine
    <3>1. PICK k : k = [turn[r] EXCEPT !.mine = FALSE, !.ref = panel.handle]
      OBVIOUS
    <3>2. k = j(r)
      BY <2>2, <3>1
    <3>3. k \in Jobs /\ ~k.mine
      BY <2>1, <3>1 DEF Jobs
    <3>4. /\ k.conv = turn[r].conv /\ k.handle = turn[r].handle
          /\ k.step = turn[r].step /\ k.out = turn[r].out /\ k.cli = turn[r].cli
          /\ k.sent = turn[r].sent
      BY <2>1, <3>1 DEF Jobs
    <3> HIDE DEF j
    <3> QED BY <3>2, <3>3, <3>4
  <2>3. CASE ~turn[r].mine BY <2>1, <2>3
  <2> QED BY <2>2, <2>3
<1> HIDE DEF j
<1>4. DOMAIN turn' = DOMAIN turn /\ \A r \in DOMAIN turn : turn'[r] = j(r)
  BY <1>2
<1>5. turn' \in Seq(Jobs)
  <2>1. PICK L \in Nat : L = Len(turn) /\ DOMAIN turn = 1 .. L
    BY <1>1
  <2>2. turn' \in [1 .. L -> Jobs]
    BY <1>2, <1>3, <2>1
  <2> QED BY <2>1, <2>2
<1>6. Grows(turn, turn')
  BY <1>1, <1>3, <1>4, <1>5 DEF Grows
<1>7. PanelOk(turn', panel')
  BY <1>1 DEF PanelOk
<1>8. TurnsOk(turn', panel')
  <2> SUFFICES ASSUME NEW r \in DOMAIN turn PROVE JobOk(turn', panel', r, j(r))
    BY <1>4 DEF TurnsOk
  <2>1. JobOk(turn, panel, r, turn[r])
    BY DEF ChatInv, TurnsOk
  <2>2. \A h, c : Own(turn, h, c) => Own(turn', h, c)
    BY <1>6, OwnStays
  <2>3. \A i \in DOMAIN j(r).out : EventOk(turn', r, j(r), j(r).out[i])
    <3> SUFFICES ASSUME NEW i \in DOMAIN turn[r].out PROVE EventOk(turn', r, j(r), turn[r].out[i])
      BY <1>3
    <3>1. EventOk(turn, r, turn[r], turn[r].out[i])
      BY <2>1 DEF JobOk
    <3> QED BY <1>3, <2>2, <3>1 DEF EventOk
  <2>4. Own(turn', j(r).handle, j(r).conv)
    BY <1>3, <2>1, <2>2 DEF JobOk
  <2>5. j(r).step = "done" => j(r).out = <<>>
    BY <1>3, <2>1 DEF JobOk
  <2>6. (j(r).step = "expired" /\ j(r).cli = "codex") => ~j(r).sent
    BY <1>3, <2>1 DEF JobOk
  <2> QED BY <1>3, <2>3, <2>4, <2>5, <2>6 DEF JobOk
<1> QED BY <1>1, <1>6, <1>7, <1>8, StoreStays

(* A step of one request: the turns stay right while the panel stays busy    *)
(* with the same one, and what the panel asks stays a question of it.        *)
Asked(ts, us) ==
    \A a \in DOMAIN ts : (ts[a].mine /\ ts[a].cli = "codex" /\ ts[a].sent) =>
        a \in DOMAIN us /\ us[a].mine /\ us[a].cli = "codex" /\ us[a].sent

(* The step itself. *)
LEMMA OneTurn ==
    ASSUME ChatInv, NEW r \in DOMAIN turn, NEW j \in Jobs, turn' = With(turn, r, j),
           j.conv = turn[r].conv, j.cli = turn[r].cli, j.handle = turn[r].handle,
           j.mine <=> turn[r].mine, turn[r].sent => j.sent, j.step # "done",
           (j.step = "expired" /\ j.cli = "codex") => ~j.sent,
           \A i \in DOMAIN j.out : EventOk(turn, r, j, j.out[i]),
           NEW q, (panel # NoPanel /\ panel.busy) =>
                    q # NoPanel /\ q.busy /\ q.requestId = panel.requestId /\ q.conv = panel.conv
    PROVE  Grows(turn, turn') /\ TurnsOk(turn', q) /\ Asked(turn, turn')
<1>1. turn \in Seq(Jobs)
  BY DEF ChatInv, TypeInv
<1>2. Grows(turn, turn') /\ Changed(turn, turn', r, j)
  BY <1>1, ChangeOne
<1>3. Asked(turn, turn')
  <2> SUFFICES ASSUME NEW a \in DOMAIN turn, turn[a].mine, turn[a].cli = "codex", turn[a].sent
               PROVE  a \in DOMAIN turn' /\ turn'[a].mine /\ turn'[a].cli = "codex" /\ turn'[a].sent
    BY DEF Asked
  <2>1. CASE a = r BY <2>1, <1>2 DEF Changed
  <2>2. CASE a # r BY <2>2, <1>2 DEF Changed
  <2> QED BY <2>1, <2>2
<1>4. TurnsOk(turn', q)
  <2>1. JobOk(turn, panel, r, j)
    BY DEF ChatInv, TurnsOk, JobOk
  <2>2. ASSUME NEW k \in DOMAIN turn PROVE JobOk(turn', q, k, turn'[k])
    <3>1. JobOk(turn, panel, k, turn'[k])
      BY <2>1, <1>2 DEF ChatInv, TurnsOk, Changed
    <3>2. PICK i : i = turn'[k]
      OBVIOUS
    <3>3. i.mine => q # NoPanel /\ q.busy /\ q.requestId = k /\ q.conv = i.conv
      BY <3>1, <3>2 DEF JobOk
    <3>4. JobOk(turn', q, k, i)
      BY <1>2, <3>1, <3>2, <3>3, JobStays
    <3> QED BY <3>2, <3>4
  <2> QED BY <2>2, <1>2 DEF TurnsOk, Changed
<1> QED BY <1>2, <1>3, <1>4

(* A step of one request that nobody sees.                                   *)
LEMMA OneJob ==
    ASSUME ChatInv, NEW r \in DOMAIN turn, NEW j \in Jobs, turn' = With(turn, r, j),
           UNCHANGED <<panel, sessions, forgotten, nextConv>>,
           j.conv = turn[r].conv, j.cli = turn[r].cli, j.handle = turn[r].handle,
           j.mine <=> turn[r].mine, turn[r].sent => j.sent, j.step # "done",
           (j.step = "expired" /\ j.cli = "codex") => ~j.sent,
           \A i \in DOMAIN j.out : EventOk(turn, r, j, j.out[i])
    PROVE  ChatInv'
<1>1. nextConv \in Nat /\ panel \in Panels \cup {NoPanel}
  BY DEF ChatInv, TypeInv
<1>2. Grows(turn, turn') /\ TurnsOk(turn', panel) /\ Asked(turn, turn')
  BY OneTurn
<1>3. PanelOk(turn', panel)
  BY <1>2, OwnStays DEF ChatInv, PanelOk, Asked
<1> QED BY <1>1, <1>2, <1>3, StoreStays

(* Events of both parts.                                                     *)
LEMMA EventsOfBoth ==
    ASSUME NEW ts, NEW r, NEW j, NEW a \in Seq(Events), NEW b \in Seq(Events), NEW c, c = a \o b,
           \A i \in DOMAIN a : EventOk(ts, r, j, a[i]), \A i \in DOMAIN b : EventOk(ts, r, j, b[i])
    PROVE  c \in Seq(Events) /\ \A i \in DOMAIN c : EventOk(ts, r, j, c[i])
<1>1. PICK k \in Nat : k = Len(a) /\ DOMAIN a = 1 .. k
  OBVIOUS
<1>2. PICK l \in Nat : l = Len(b) /\ DOMAIN b = 1 .. l
  OBVIOUS
<1>3. /\ c \in Seq(Events) /\ DOMAIN c = 1 .. k + l
      /\ \A i \in 1 .. k + l : c[i] = IF i <= k THEN a[i] ELSE b[i - k]
  BY <1>1, <1>2
<1>4. ASSUME NEW i \in 1 .. k + l PROVE EventOk(ts, r, j, c[i])
  <2>1. CASE i <= k
    <3>1. i \in DOMAIN a /\ c[i] = a[i]
      BY <2>1, <1>1, <1>3
    <3> QED BY <3>1
  <2>2. CASE ~(i <= k)
    <3>1. i - k \in DOMAIN b /\ c[i] = b[i - k]
      BY <2>2, <1>1, <1>2, <1>3
    <3> QED BY <3>1
  <2> QED BY <2>1, <2>2
<1> QED BY <1>3, <1>4

(* What Event sends.                                                         *)
Only(e, type, n) == e \in Seq(Events) /\ \A i \in DOMAIN e : e[i].type = type /\ e[i].n = n

(* It sends one event. *)
LEMMA EventFacts ==
    ASSUME NEW type \in {"session", "chunk", "approval"}, NEW n \in Int, NEW e, e = Event(type, n)
    PROVE  Only(e, type, n)
  BY DEF Event, Events, Only

(* A step of the backend: the request goes on and sends events.              *)
LEMMA StepKeeps ==
    ASSUME ChatInv, NEW r \in DOMAIN turn, NEW step \in Steps \ {"done"}, NEW events \in Seq(Events),
           Step(r, step, events),
           \A i \in DOMAIN events : EventOk(turn, r, turn[r], events[i]),
           (step = "expired" /\ turn[r].cli = "codex") => ~turn[r].sent
    PROVE  ChatInv'
<1>1. turn \in Seq(Jobs) /\ turn[r] \in Jobs /\ UNCHANGED <<panel, sessions, forgotten, nextConv>>
  BY DEF ChatInv, TypeInv, Step, counters
<1>2. PICK out : out = turn[r].out \o events
  OBVIOUS
<1>3. /\ turn[r].out \in Seq(Events) /\ \A i \in DOMAIN turn[r].out : EventOk(turn, r, turn[r], turn[r].out[i])
  BY <1>1 DEF ChatInv, TurnsOk, JobOk, Jobs
<1>4. out \in Seq(Events) /\ \A i \in DOMAIN out : EventOk(turn, r, turn[r], out[i])
  BY <1>2, <1>3, EventsOfBoth
<1>5. PICK j : j = [turn[r] EXCEPT !.step = step, !.out = out]
  OBVIOUS
<1>6. j \in Jobs
  BY <1>1, <1>4, <1>5 DEF Jobs
<1>7. /\ j.conv = turn[r].conv /\ j.cli = turn[r].cli /\ j.handle = turn[r].handle
      /\ j.mine = turn[r].mine /\ j.sent = turn[r].sent /\ j.step = step /\ j.out = out
  BY <1>1, <1>5 DEF Jobs
<1>8. turn' = With(turn, r, j)
  BY <1>1, <1>2, <1>5 DEF Step, With
<1>9. \A i \in DOMAIN j.out : EventOk(turn, r, j, j.out[i])
  BY <1>4, <1>7 DEF EventOk
<1> QED BY <1>1, <1>6, <1>7, <1>8, <1>9, OneJob

(* The session a request names is of its own conversation.                   *)
LEMMA SessionEvents ==
    ASSUME ChatInv, NEW r \in DOMAIN turn
    PROVE  /\ Event("session", SessionOf(r)) \in Seq(Events)
           /\ \A i \in DOMAIN Event("session", SessionOf(r)) :
                EventOk(turn, r, turn[r], Event("session", SessionOf(r))[i])
           /\ LastEvents(r) \in Seq(Events)
           /\ \A i \in DOMAIN LastEvents(r) : EventOk(turn, r, turn[r], LastEvents(r)[i])
<1>1. turn \in Seq(Jobs) /\ turn[r] \in Jobs /\ r \in Int
  BY DEF ChatInv, TypeInv
<1>2. PICK h : h = SessionOf(r)
  OBVIOUS
<1>3. h \in Int /\ Own(turn, h, turn[r].conv)
  <2>1. turn[r].handle \in Int /\ Own(turn, turn[r].handle, turn[r].conv)
    BY <1>1 DEF Jobs, ChatInv, TurnsOk, JobOk
  <2>2. CASE turn[r].handle = NoHandle
    BY <1>1, <1>2, <2>2 DEF SessionOf, Own
  <2>3. CASE turn[r].handle # NoHandle
    BY <1>2, <2>1, <2>3 DEF SessionOf
  <2> QED BY <2>2, <2>3
<1>4. PICK e : e = Event("session", h)
  OBVIOUS
<1>5. e \in Seq(Events) /\ \A i \in DOMAIN e : e[i].type = "session" /\ e[i].n = h
  <2>1. Only(e, "session", h)
    BY <1>3, <1>4, EventFacts
  <2> QED BY <2>1 DEF Only
<1>6. \A i \in DOMAIN e : EventOk(turn, r, turn[r], e[i])
  BY <1>3, <1>5 DEF EventOk
<1>7. LastEvents(r) = e \/ LastEvents(r) = <<>>
  BY <1>2, <1>4 DEF LastEvents
<1>8. <<>> \in Seq(Events) /\ DOMAIN <<>> = {}
  OBVIOUS
<1> QED BY <1>2, <1>4, <1>5, <1>6, <1>7, <1>8

(* The steps that start and end a CLI process. *)
LEMMA BackendSteps ==
    ASSUME ChatInv, NEW r \in DOMAIN turn,
           \/ SpawnFails(r) \/ Register(r) \/ ThreadStarted(r) \/ Refused(r)
           \/ Completed(r) \/ Dies(r) \/ Killed(r)
    PROVE  ChatInv'
<1>1. PICK none : none = <<>>
  OBVIOUS
<1>2. none \in Seq(Events) /\ \A i \in DOMAIN none : EventOk(turn, r, turn[r], none[i])
  BY <1>1
<1>3. PICK last : last = LastEvents(r)
  OBVIOUS
<1>4. last \in Seq(Events) /\ \A i \in DOMAIN last : EventOk(turn, r, turn[r], last[i])
  BY <1>3, SessionEvents
<1>5. PICK named : named = Event("session", SessionOf(r))
  OBVIOUS
<1>6. named \in Seq(Events) /\ \A i \in DOMAIN named : EventOk(turn, r, turn[r], named[i])
  BY <1>5, SessionEvents
<1>7. {"failed", "starting", "running", "ok", "expired"} \subseteq Steps \ {"done"}
  BY DEF Steps
<1>8. ASSUME NEW step \in {"failed", "starting", "running", "ok"},
             NEW events \in {none, last, named}, Step(r, step, events)
      PROVE  ChatInv'
  <2>1. step # "expired" /\ step \in Steps \ {"done"}
    BY <1>7
  <2>2. events \in Seq(Events) /\ \A i \in DOMAIN events : EventOk(turn, r, turn[r], events[i])
    BY <1>2, <1>4, <1>6
  <2> QED BY <1>8, <2>1, <2>2, StepKeeps
<1>9. CASE SpawnFails(r)
  BY <1>1, <1>8, <1>9 DEF SpawnFails
<1>10. CASE Register(r)
  BY <1>1, <1>8, <1>10 DEF Register
<1>11. CASE ThreadStarted(r)
  BY <1>5, <1>8, <1>11 DEF ThreadStarted
<1>12. CASE Completed(r)
  BY <1>3, <1>8, <1>12 DEF Completed
<1>13. CASE Dies(r)
  BY <1>3, <1>8, <1>13 DEF Dies
<1>14. CASE Killed(r)
  BY <1>1, <1>3, <1>8, <1>14 DEF Killed
<1>15. CASE Refused(r)
  <2>1. CASE Step(r, "failed", none)
    BY <1>8, <2>1
  <2>2. CASE Step(r, "expired", none)
    <3>1. turn[r].cli = "codex" => ~turn[r].sent
      BY <1>15 DEF Refused
    <3>2. PICK step \in Steps \ {"done"} : step = "expired"
      BY <1>7
    <3> QED BY <1>2, <2>2, <3>1, <3>2, StepKeeps
  <2> QED BY <1>1, <1>15, <2>1, <2>2 DEF Refused
<1> QED BY <1>9, <1>10, <1>11, <1>12, <1>13, <1>14, <1>15

(* A piece of the answer, or a question. *)
LEMMA ChunkStep ==
    ASSUME ChatInv, NEW r \in DOMAIN turn, Chunk(r) \/ AsksApproval(r) PROVE ChatInv'
<1>1. /\ turn \in Seq(Jobs) /\ turn[r] \in Jobs /\ UNCHANGED <<panel, sessions, forgotten, nextConv>>
      /\ r \in Nat /\ turn[r].step = "running" /\ (AsksApproval(r) => turn[r].cli = "codex")
  BY DEF ChatInv, TypeInv, Chunk, AsksApproval, counters
<1>2. PICK type \in {"chunk", "approval"}, asks \in SUBSET Nat :
        /\ type = "approval" => turn[r].cli = "codex"
        /\ turn' = [turn EXCEPT ![r].out = @ \o Event(type, r), ![r].sent = TRUE, ![r].asks = asks]
  <2>1. CASE Chunk(r)
    <3>1. turn[r].asks \in SUBSET Nat
      BY <1>1 DEF Jobs
    <3>2. turn' = [turn EXCEPT ![r].out = @ \o Event("chunk", r), ![r].sent = TRUE,
                               ![r].asks = turn[r].asks]
      BY ZenonT(120), <1>1, <2>1 DEF Chunk, Jobs
    <3> QED BY <3>1, <3>2
  <2>2. CASE AsksApproval(r)
    <3>1. {r} \in SUBSET Nat
      BY <1>1
    <3> QED BY <1>1, <2>2, <3>1 DEF AsksApproval
  <2> QED BY <2>1, <2>2
<1>3. PICK out : out = turn[r].out \o Event(type, r)
  OBVIOUS
<1>4. PICK j : j = [turn[r] EXCEPT !.out = out, !.sent = TRUE, !.asks = asks]
  OBVIOUS
<1>5. PICK e : e = Event(type, r)
  OBVIOUS
<1>6. e \in Seq(Events) /\ \A i \in DOMAIN e : e[i].type = type /\ e[i].n = r
  <2>1. Only(e, type, r)
    BY <1>1, <1>5, EventFacts
  <2> QED BY <2>1 DEF Only
<1>7. turn[r].out \in Seq(Events) /\ \A i \in DOMAIN turn[r].out : EventOk(turn, r, turn[r], turn[r].out[i])
  BY <1>1 DEF ChatInv, TurnsOk, JobOk, Jobs
<1>8. /\ j.conv = turn[r].conv /\ j.cli = turn[r].cli /\ j.handle = turn[r].handle
      /\ j.mine = turn[r].mine /\ j.step = turn[r].step /\ j.out = out
  BY <1>1, <1>4 DEF Jobs
<1>9. j.sent
  BY <1>1, <1>4 DEF Jobs
<1>10. /\ \A i \in DOMAIN turn[r].out : EventOk(turn, r, j, turn[r].out[i])
       /\ \A i \in DOMAIN e : EventOk(turn, r, j, e[i])
  BY <1>2, <1>6, <1>7, <1>8, <1>9 DEF EventOk
<1>11. out \in Seq(Events) /\ \A i \in DOMAIN out : EventOk(turn, r, j, out[i])
  BY <1>3, <1>5, <1>6, <1>7, <1>10, EventsOfBoth
<1>12. j \in Jobs
  BY <1>1, <1>2, <1>4, <1>11 DEF Jobs
<1>13. turn' = With(turn, r, j)
  BY <1>1, <1>2, <1>3, <1>4 DEF With
<1> QED BY <1>1, <1>8, <1>9, <1>11, <1>12, <1>13, OneJob

(* cancel only marks the request. *)
LEMMA CancelStep ==
    ASSUME ChatInv, Cancel PROVE ChatInv'
<1>1. turn \in Seq(Jobs) /\ UNCHANGED <<panel, sessions, forgotten, nextConv>>
  BY DEF ChatInv, TypeInv, Cancel, counters
<1>2. PICK r : r = panel.requestId
  OBVIOUS
<1>3. turn' = [turn EXCEPT ![r].canceled = TRUE] /\ turn[r].step \in {"starting", "running"}
  <2>1. turn' = [turn EXCEPT ![panel.requestId].canceled = TRUE]
    BY DEF Cancel
  <2>2. turn[panel.requestId].step \in {"starting", "running"}
    BY DEF Cancel, Registered
  <2> QED BY <1>2, <2>1, <2>2
<1>4. CASE r \notin DOMAIN turn
  <2>1. turn' = turn
    BY <1>1, <1>3, <1>4
  <2> QED BY <1>1, <2>1 DEF ChatInv, TypeInv, IdleIsStored, Mounted
<1>5. CASE r \in DOMAIN turn
  <2>1. turn[r] \in Jobs /\ JobOk(turn, panel, r, turn[r])
    BY <1>1, <1>5 DEF ChatInv, TurnsOk
  <2>2. PICK j : j = [turn[r] EXCEPT !.canceled = TRUE]
    OBVIOUS
  <2>3. j \in Jobs
    BY <2>1, <2>2 DEF Jobs
  <2>4. /\ j.conv = turn[r].conv /\ j.cli = turn[r].cli /\ j.handle = turn[r].handle
        /\ j.mine = turn[r].mine /\ j.sent = turn[r].sent /\ j.step = turn[r].step /\ j.out = turn[r].out
    BY <2>1, <2>2 DEF Jobs
  <2>5. turn' = With(turn, r, j)
    BY <1>3, <2>2 DEF With
  <2>6. \A i \in DOMAIN j.out : EventOk(turn, r, j, j.out[i])
    BY <2>1, <2>4 DEF JobOk, EventOk
  <2> QED BY <1>1, <1>3, <1>5, <2>3, <2>4, <2>5, <2>6, OneJob
<1> QED BY <1>4, <1>5

(* answerApproval takes the question away. *)
LEMMA AnswerStep ==
    ASSUME ChatInv, NEW a \in panel.approvals, AnswerApproval(a) PROVE ChatInv'
<1>1. /\ panel \in Panels /\ panel # NoPanel /\ nextConv \in Nat /\ turn \in Seq(Jobs)
      /\ UNCHANGED <<sessions, forgotten, nextConv>>
  BY DEF ChatInv, TypeInv, AnswerApproval, Mounted, counters
<1>2. a = panel.requestId /\ a \in DOMAIN turn /\ turn[a].mine /\ turn[a].cli = "codex" /\ turn[a].sent
  BY <1>1 DEF ChatInv, PanelOk
<1>3. turn[a] \in Jobs /\ JobOk(turn, panel, a, turn[a])
  BY <1>1, <1>2 DEF ChatInv, TurnsOk
<1>4. panel.busy /\ turn[a].step # "done"
  BY <1>2, <1>3 DEF JobOk
<1>5. PICK p : p = [panel EXCEPT !.approvals = @ \ {a}]
  OBVIOUS
<1>6. p \in Panels /\ panel' = p
  BY <1>1, <1>5 DEF Panels, AnswerApproval
<1>7. /\ p.approvals \subseteq panel.approvals /\ p.messages = panel.messages /\ p.conv = panel.conv
      /\ p.handle = panel.handle /\ p.requestId = panel.requestId /\ p.busy = panel.busy
  BY <1>1, <1>5 DEF Panels
<1>8. PICK j \in Jobs :
        /\ turn' = With(turn, a, j)
        /\ j.conv = turn[a].conv /\ j.cli = turn[a].cli /\ j.handle = turn[a].handle
        /\ j.mine = turn[a].mine /\ j.sent = turn[a].sent /\ j.step = turn[a].step /\ j.out = turn[a].out
  <2>1. CASE turn' = turn
    <3>1. turn' = With(turn, a, turn[a])
      BY <1>1, <1>2, <2>1 DEF With
    <3> QED BY <1>3, <3>1
  <2>2. CASE turn' = [turn EXCEPT ![panel.requestId].asks = @ \ {a}]
    <3>1. PICK j : j = [turn[a] EXCEPT !.asks = @ \ {a}]
      OBVIOUS
    <3>2. j \in Jobs
      BY <1>3, <3>1 DEF Jobs
    <3>3. /\ j.conv = turn[a].conv /\ j.cli = turn[a].cli /\ j.handle = turn[a].handle
          /\ j.mine = turn[a].mine /\ j.sent = turn[a].sent /\ j.step = turn[a].step
          /\ j.out = turn[a].out
      BY <1>3, <3>1 DEF Jobs
    <3>4. turn' = With(turn, a, j)
      BY <1>2, <2>2, <3>1 DEF With
    <3> QED BY <3>2, <3>3, <3>4
  <2> QED BY <2>1, <2>2 DEF AnswerApproval
<1>9. \A i \in DOMAIN j.out : EventOk(turn, a, j, j.out[i])
  BY <1>3, <1>8 DEF JobOk, EventOk
<1>10. p # NoPanel
  BY <1>6, NoPanelFacts
<1>11. (j.step = "expired" /\ j.cli = "codex") => ~j.sent
  BY <1>3, <1>8 DEF JobOk
<1>12. Grows(turn, turn') /\ TurnsOk(turn', p) /\ Asked(turn, turn')
  BY ZenonT(120), <1>2, <1>4, <1>7, <1>8, <1>9, <1>10, <1>11, OneTurn
<1>13. PanelOk(turn', p)
  BY <1>1, <1>7, <1>12, OwnStays DEF ChatInv, PanelOk, Asked
<1> QED BY <1>1, <1>4, <1>6, <1>7, <1>12, <1>13, StoreStays

(* What the delivery of an event does to its request.                        *)
LEMMA DeliverFacts ==
    ASSUME ChatInv, NEW r \in DOMAIN turn, Deliver(r)
    PROVE  /\ \E j \in Jobs :
                /\ turn' = With(turn, r, j)
                /\ j.conv = turn[r].conv /\ j.cli = turn[r].cli /\ j.handle = turn[r].handle
                /\ j.mine = turn[r].mine /\ j.sent = turn[r].sent /\ j.step # "done"
                /\ (j.step = "expired" /\ j.cli = "codex") => ~j.sent
                /\ \A i \in DOMAIN j.out : EventOk(turn, r, j, j.out[i])
           /\ EventOk(turn, r, turn[r], Head(turn[r].out)) /\ Head(turn[r].out) \in Events
<1>1. turn \in Seq(Jobs) /\ turn[r] \in Jobs /\ JobOk(turn, panel, r, turn[r])
  BY DEF ChatInv, TypeInv, TurnsOk
<1>2. turn[r].out \in Seq(Events) /\ turn[r].out # <<>>
  BY <1>1 DEF Jobs, Deliver
<1>3. PICK out \in Seq(Events) : out = turn[r].out /\ out # <<>>
  BY <1>2
<1>4. PICK e \in Events : e = Head(out) /\ e = out[1] /\ 1 \in DOMAIN out
  BY <1>3
<1>5. PICK rest \in Seq(Events) :
        rest = Tail(out) /\ \A i \in DOMAIN rest : i + 1 \in DOMAIN out /\ rest[i] = out[i + 1]
  <2>1. PICK L \in Nat : L = Len(out) /\ DOMAIN out = 1 .. L /\ L # 0
    BY <1>3
  <2>2. PICK rest : rest = Tail(out)
    OBVIOUS
  <2>3. rest \in Seq(Events) /\ DOMAIN rest = 1 .. L - 1 /\ \A i \in 1 .. L - 1 : rest[i] = out[i + 1]
    BY <1>3, <2>1, <2>2
  <2>4. \A i \in 1 .. L - 1 : i + 1 \in 1 .. L
    BY <2>1
  <2> QED BY <2>1, <2>2, <2>3, <2>4
<1>6. \A i \in DOMAIN out : EventOk(turn, r, turn[r], out[i])
  BY <1>1, <1>3 DEF JobOk
<1>7. PICK ref \in Int : turn' = [turn EXCEPT ![r].out = rest, ![r].ref = ref]
  <2>1. PICK ref : ref = IF e.type = "session" /\ ~turn[r].mine THEN e.n ELSE turn[r].ref
    OBVIOUS
  <2>2. ref \in Int
    BY <1>1, <2>1 DEF Jobs, Events
  <2>3. turn' = [turn EXCEPT ![r].out = Tail(@),
                   ![r].ref = IF e.type = "session" /\ ~turn[r].mine THEN e.n ELSE @]
    BY <1>3, <1>4 DEF Deliver
  <2>4. turn' = [turn EXCEPT ![r].out = rest, ![r].ref = ref]
    BY <1>1, <1>3, <1>5, <2>1, <2>3 DEF Jobs
  <2> QED BY <2>2, <2>4
<1>8. PICK j : j = [turn[r] EXCEPT !.out = rest, !.ref = ref]
  OBVIOUS
<1>9. j \in Jobs
  BY <1>1, <1>8 DEF Jobs
<1>10. /\ j.conv = turn[r].conv /\ j.cli = turn[r].cli /\ j.handle = turn[r].handle
       /\ j.mine = turn[r].mine /\ j.sent = turn[r].sent /\ j.step = turn[r].step /\ j.out = rest
  BY <1>1, <1>8 DEF Jobs
<1>11. turn' = With(turn, r, j)
  BY <1>1, <1>7, <1>8 DEF With, Jobs
<1>12. \A i \in DOMAIN rest : EventOk(turn, r, j, rest[i])
  BY <1>5, <1>6, <1>10 DEF EventOk
<1>13. j.step # "done" /\ ((j.step = "expired" /\ j.cli = "codex") => ~j.sent)
  BY <1>1, <1>2, <1>10 DEF JobOk
<1>14. EventOk(turn, r, turn[r], Head(turn[r].out)) /\ Head(turn[r].out) \in Events
  BY <1>3, <1>4, <1>6
<1> QED BY <1>9, <1>10, <1>11, <1>12, <1>13, <1>14

(* The last message is replaced by a longer one.                             *)
LEMMA LastFacts ==
    ASSUME NEW s \in Seq(Messages), s # <<>>, NEW m \in Messages, NEW c, OfConv(s, c), m.of = c,
           NEW t, t = Append(Front(s), m)
    PROVE  t \in Seq(Messages) /\ OfConv(t, c)
<1>1. PICK L \in Nat : L = Len(s) /\ DOMAIN s = 1 .. L /\ L # 0
  OBVIOUS
<1>2. PICK f : f = Front(s)
  OBVIOUS
<1>3. f = SubSeq(s, 1, L - 1)
  BY <1>1, <1>2 DEF Front
<1>4. f \in Seq(Messages) /\ Len(f) = L - 1 /\ \A i \in 1 .. L - 1 : f[i] = s[i]
  BY <1>1, <1>3
<1>5. t \in Seq(Messages) /\ DOMAIN t = 1 .. L /\ t[L] = m /\ \A i \in 1 .. L - 1 : t[i] = f[i]
  BY <1>1, <1>2, <1>4
<1>6. ASSUME NEW i \in 1 .. L PROVE t[i].of = c
  <2>1. CASE i = L BY <2>1, <1>5
  <2>2. CASE i # L
    <3>1. i \in 1 .. L - 1
      BY <2>2, <1>1
    <3> QED BY <3>1, <1>1, <1>4, <1>5 DEF OfConv
  <2> QED BY <2>1, <2>2
<1> QED BY <1>5, <1>6 DEF OfConv

(* onmessage: an event changes the panel of its own turn only. *)
LEMMA DeliverStep ==
    ASSUME ChatInv, NEW r \in DOMAIN turn, Deliver(r) PROVE ChatInv'
<1>1. /\ turn \in Seq(Jobs) /\ turn[r] \in Jobs /\ JobOk(turn, panel, r, turn[r]) /\ nextConv \in Nat
      /\ nextConv' = nextConv
  BY DEF ChatInv, TypeInv, TurnsOk, Deliver, counters
<1>2. PICK e : e = Head(turn[r].out)
  OBVIOUS
<1>3. e \in Events /\ EventOk(turn, r, turn[r], e)
  BY <1>2, DeliverFacts
<1>4. PICK j \in Jobs :
        /\ turn' = With(turn, r, j)
        /\ j.conv = turn[r].conv /\ j.cli = turn[r].cli /\ j.handle = turn[r].handle
        /\ j.mine = turn[r].mine /\ j.sent = turn[r].sent /\ j.step # "done"
        /\ (j.step = "expired" /\ j.cli = "codex") => ~j.sent
        /\ \A i \in DOMAIN j.out : EventOk(turn, r, j, j.out[i])
  BY DeliverFacts
<1>5. CASE ~turn[r].mine
  <2>1. UNCHANGED <<panel, sessions, forgotten, nextConv>>
    BY <1>1, <1>5 DEF Deliver
  <2> QED BY <1>4, <2>1, OneJob
<1>6. CASE turn[r].mine
  <2>1. /\ panel # NoPanel /\ panel \in Panels /\ panel.busy /\ panel.requestId = r
        /\ panel.conv = turn[r].conv
    BY <1>1, <1>6 DEF JobOk, ChatInv, TypeInv
  <2>2. /\ OfConv(panel.messages, panel.conv) /\ Own(turn, panel.handle, panel.conv)
        /\ \A a \in panel.approvals :
             /\ a = panel.requestId /\ a \in DOMAIN turn
             /\ turn[a].mine /\ turn[a].cli = "codex" /\ turn[a].sent
    BY <2>1 DEF ChatInv, PanelOk
  <2>3. ASSUME NEW q \in Panels, q.busy, q.requestId = panel.requestId, q.conv = panel.conv,
               OfConv(q.messages, q.conv), Own(turn, q.handle, q.conv),
               \A a \in q.approvals :
                 /\ a = q.requestId /\ a \in DOMAIN turn
                 /\ turn[a].mine /\ turn[a].cli = "codex" /\ turn[a].sent
        PROVE  Grows(turn, turn') /\ TurnsOk(turn', q) /\ PanelOk(turn', q)
    <3>1. q # NoPanel
      BY NoPanelFacts
    <3>2. Grows(turn, turn') /\ TurnsOk(turn', q) /\ Asked(turn, turn')
      BY <1>4, <2>3, <3>1, OneTurn
    <3> QED BY <2>3, <3>2, OwnStays DEF PanelOk, Asked
  <2>4. CASE e.type = "session"
    <3>1. PICK q : q = [panel EXCEPT !.handle = e.n]
      OBVIOUS
    <3>2. panel' = q /\ UNCHANGED <<sessions, forgotten>>
      BY <1>2, <1>6, <2>4, <3>1 DEF Deliver
    <3>3. q \in Panels
      BY <1>3, <2>1, <3>1 DEF Panels, Events
    <3>4. /\ q.busy = panel.busy /\ q.requestId = panel.requestId /\ q.conv = panel.conv
          /\ q.messages = panel.messages /\ q.approvals = panel.approvals /\ q.handle = e.n
      BY <2>1, <3>1 DEF Panels
    <3>5. Own(turn, q.handle, q.conv)
      BY <1>3, <2>1, <2>4, <3>4 DEF EventOk
    <3>6. Grows(turn, turn') /\ TurnsOk(turn', q) /\ PanelOk(turn', q)
      BY <2>1, <2>2, <2>3, <3>3, <3>4, <3>5
    <3> QED BY <1>1, <2>1, <3>2, <3>3, <3>4, <3>6, StoreStays
  <2>5. CASE e.type = "approval"
    <3>1. PICK q : q = [panel EXCEPT !.approvals = @ \cup {e.n}]
      OBVIOUS
    <3>2. panel' = q /\ UNCHANGED <<sessions, forgotten>>
      BY <1>2, <1>6, <2>5, <3>1 DEF Deliver
    <3>3. e.n = r /\ turn[r].cli = "codex" /\ turn[r].sent /\ r \in Nat
      BY <1>1, <1>3, <2>5 DEF EventOk
    <3>4. q \in Panels
      BY <2>1, <3>1, <3>3 DEF Panels
    <3>5. /\ q.busy = panel.busy /\ q.requestId = panel.requestId /\ q.conv = panel.conv
          /\ q.messages = panel.messages /\ q.approvals = panel.approvals \cup {r}
          /\ q.handle = panel.handle
      BY <2>1, <3>1, <3>3 DEF Panels
    <3>6. Grows(turn, turn') /\ TurnsOk(turn', q) /\ PanelOk(turn', q)
      BY <1>6, <2>1, <2>2, <2>3, <3>3, <3>4, <3>5
    <3> QED BY <1>1, <2>1, <3>2, <3>4, <3>5, <3>6, StoreStays
  <2>6. CASE e.type = "chunk"
    <3>1. PICK m : m = Message("assistant", turn[r].conv)
      OBVIOUS
    <3>2. m \in Messages /\ m.of = panel.conv
      BY <2>1, <3>1 DEF Message, Messages, Panels
    <3>3. PICK s \in Seq(Messages) : s = panel.messages
      BY <2>1 DEF Panels
    <3>4. PICK q : /\ Show(q)
                   /\ \/ s # <<>> /\ q = [panel EXCEPT !.messages = Append(Front(@), m)]
                      \/ q = Say(panel, "assistant", panel.conv)
      BY <1>2, <1>6, <2>1, <2>6, <3>1, <3>3 DEF Deliver
    <3>5. PICK t \in Seq(Messages) : OfConv(t, panel.conv) /\ q = [panel EXCEPT !.messages = t]
      <4>1. CASE s # <<>> /\ q = [panel EXCEPT !.messages = Append(Front(@), m)]
        <5>1. PICK t : t = Append(Front(s), m)
          OBVIOUS
        <5>2. t \in Seq(Messages) /\ OfConv(t, panel.conv)
          BY <2>2, <3>2, <3>3, <4>1, <5>1, LastFacts
        <5>3. q = [panel EXCEPT !.messages = t]
          BY <2>1, <3>3, <4>1, <5>1 DEF Panels
        <5> QED BY <5>2, <5>3
      <4>2. CASE q = Say(panel, "assistant", panel.conv)
        BY <2>1, <2>2, <4>2, SayFacts
      <4> QED BY <3>4, <4>1, <4>2
    <3>6. q \in Panels
      BY <2>1, <3>5 DEF Panels
    <3>7. /\ q.busy = panel.busy /\ q.requestId = panel.requestId /\ q.conv = panel.conv
          /\ q.messages = t /\ q.approvals = panel.approvals /\ q.handle = panel.handle
      BY <2>1, <3>5 DEF Panels
    <3>8. Grows(turn, turn') /\ TurnsOk(turn', q) /\ PanelOk(turn', q)
      BY <2>1, <2>2, <2>3, <3>5, <3>6, <3>7
    <3>9. Own(turn, q.handle, q.conv) /\ OfConv(q.messages, q.conv)
      BY <2>2, <3>5, <3>7
    <3> QED BY <1>1, <3>4, <3>6, <3>8, <3>9, ShowKeeps
  <2> QED BY <1>3, <2>4, <2>5, <2>6 DEF Events
<1> QED BY <1>5, <1>6

(* The request whose answer is handled: nothing of it is on its way.         *)
LEMMA OverFacts ==
    ASSUME ChatInv, AnswerWaits, NEW r \in DOMAIN turn, Answered(r), NEW o, o = Over(r)
    PROVE  /\ o \in Jobs /\ o.conv = turn[r].conv /\ ~o.mine
           /\ \A ts, q : JobOk(ts, q, r, o)
<1>1. turn[r] \in Jobs /\ turn[r].out = <<>>
  BY DEF ChatInv, TypeInv, Answered
<1>2. PICK j : j = Job(turn[r].cli, turn[r].conv, NoHandle, FALSE, turn[r].attempt)
  OBVIOUS
<1>3. /\ j \in Jobs /\ j.conv = turn[r].conv /\ j.handle = NoHandle /\ ~j.mine
  BY <1>1, <1>2 DEF Job, Jobs, Steps, NoHandle
<1>4. o = [j EXCEPT !.step = "done", !.out = <<>>]
  BY <1>1, <1>2 DEF Over
<1>5. o \in Jobs /\ o.conv = turn[r].conv /\ o.handle = NoHandle /\ ~o.mine
  <2>1. <<>> \in Seq(Events) /\ "done" \in Steps
    BY DEF Steps
  <2>2. o \in Jobs
    BY <1>3, <1>4, <2>1 DEF Jobs
  <2> QED BY <1>3, <1>4, <2>2 DEF Jobs
<1>6. o.step = "done" /\ o.out = <<>>
  BY <1>3, <1>4 DEF Jobs
<1> QED BY <1>5, <1>6 DEF JobOk, Own

(* The turns when one of them is over. *)
LEMMA DoneTurns ==
    ASSUME ChatInv, AnswerWaits, NEW r \in DOMAIN turn, Answered(r),
           NEW q, turn[r].mine \/ q = panel, NEW us, us = With(turn, r, Over(r))
    PROVE  /\ Grows(turn, us) /\ TurnsOk(us, q) /\ Changed(turn, us, r, Over(r))
<1>1. PICK o : o = Over(r)
  OBVIOUS
<1>2. o \in Jobs /\ o.conv = turn[r].conv /\ ~o.mine /\ \A ts, x : JobOk(ts, x, r, o)
  BY <1>1, OverFacts
<1>3. turn \in Seq(Jobs) /\ us = With(turn, r, o)
  BY <1>1 DEF ChatInv, TypeInv
<1>4. Grows(turn, us) /\ Changed(turn, us, r, o)
  BY <1>2, <1>3, ChangeOne
<1>5. ASSUME NEW k \in DOMAIN turn PROVE JobOk(us, q, k, us[k])
  <2>1. CASE k = r
    BY <1>2, <1>4, <2>1 DEF Changed
  <2>2. CASE k # r
    <3>1. JobOk(turn, panel, k, turn[k]) /\ JobOk(turn, panel, r, turn[r])
      BY DEF ChatInv, TurnsOk
    <3>2. turn[k].mine => q # NoPanel /\ q.busy /\ q.requestId = k /\ q.conv = turn[k].conv
      BY <2>2, <3>1 DEF JobOk
    <3>3. JobOk(us, q, k, turn[k])
      BY <1>4, <3>1, <3>2, JobStays
    <3> QED BY <1>4, <2>2, <3>3 DEF Changed
  <2> QED BY <2>1, <2>2
<1> QED BY <1>1, <1>4, <1>5 DEF TurnsOk, Changed

(* The questions on the screen are of a turn that goes on.                   *)
LEMMA OthersAsk ==
    ASSUME ChatInv, AnswerWaits, NEW r \in DOMAIN turn, Answered(r), ~turn[r].mine,
           NEW us, us = With(turn, r, Over(r))
    PROVE  PanelOk(us, panel)
<1>1. Grows(turn, us) /\ Changed(turn, us, r, Over(r))
  BY DoneTurns
<1>2. \A h, c : Own(turn, h, c) => Own(us, h, c)
  BY <1>1, OwnStays
<1> QED BY <1>1, <1>2 DEF ChatInv, PanelOk, Changed

(* The end of send stores what the turn left on the screen. *)
LEMMA EndStep ==
    ASSUME ChatInv, AnswerWaits, NEW r \in DOMAIN turn, TurnEnds(r) PROVE ChatInv'
<1>1. /\ turn \in Seq(Jobs) /\ JobOk(turn, panel, r, turn[r]) /\ nextConv \in Nat
      /\ nextConv' = nextConv /\ Answered(r) /\ panel \in Panels \cup {NoPanel}
  BY DEF ChatInv, TypeInv, TurnsOk, TurnEnds, counters
<1>2. turn' = With(turn, r, Over(r))
  BY DEF TurnEnds, With
<1>3. CASE ~turn[r].mine
  <2>1. UNCHANGED <<panel, sessions, forgotten>>
    BY <1>3 DEF TurnEnds
  <2>2. Grows(turn, turn') /\ TurnsOk(turn', panel) /\ PanelOk(turn', panel)
    BY <1>1, <1>2, <1>3, DoneTurns, OthersAsk
  <2> QED BY <1>1, <2>1, <2>2, StoreStays
<1>4. CASE turn[r].mine
  <2>1. panel # NoPanel /\ panel \in Panels /\ panel.conv = turn[r].conv
    BY <1>1, <1>4 DEF JobOk
  <2>2. OfConv(panel.messages, panel.conv) /\ Own(turn, panel.handle, panel.conv)
    BY <2>1 DEF ChatInv, PanelOk
  <2>3. PICK s : s = IF turn[r].step = "ok" THEN panel ELSE Say(panel, "assistant", turn[r].conv)
    OBVIOUS
  <2>4. PICK t \in Seq(Messages) : OfConv(t, panel.conv) /\ s = [panel EXCEPT !.messages = t]
    <3>1. CASE turn[r].step = "ok"
      <4>1. panel.messages \in Seq(Messages) /\ panel = [panel EXCEPT !.messages = panel.messages]
        BY <2>1 DEF Panels
      <4> QED BY <2>2, <2>3, <3>1, <4>1
    <3>2. CASE turn[r].step # "ok"
      <4>1. s = Say(panel, "assistant", panel.conv)
        BY <2>1, <2>3, <3>2
      <4> QED BY <2>1, <2>2, <4>1, SayFacts
    <3> QED BY <3>1, <3>2
  <2>5. PICK q : q = Idle(s)
    OBVIOUS
  <2>6. Show(q)
    BY <1>4, <2>3, <2>5 DEF TurnEnds
  <2>7. q \in Panels
    BY <2>1, <2>4, <2>5 DEF Idle, Panels, NoRequest
  <2>8. q.approvals = {} /\ q.messages = t /\ q.conv = panel.conv /\ q.handle = panel.handle
    BY <2>1, <2>4, <2>5 DEF Idle, Panels
  <2>9. Grows(turn, turn') /\ TurnsOk(turn', q)
    BY <1>1, <1>2, <1>4, DoneTurns
  <2>10. Own(turn, q.handle, q.conv) /\ OfConv(q.messages, q.conv)
    BY <2>2, <2>4, <2>8
  <2>11. PanelOk(turn', q)
    BY <2>8, <2>9, <2>10, OwnStays DEF PanelOk
  <2> QED BY <1>1, <2>6, <2>7, <2>9, <2>10, <2>11, ShowKeeps
<1> QED BY <1>3, <1>4

(* One request over and one more.                                            *)
LEMMA RetryTurns ==
    ASSUME ChatInv, AnswerWaits, NEW r \in DOMAIN turn, Retry(r), NEW q, turn[r].mine \/ q = panel,
           NEW n, n = NewId(turn), NEW k,
           k = Job(turn[r].cli, turn[r].conv, NoHandle, turn[r].mine, 2),
           turn[r].mine => q # NoPanel /\ q.busy /\ q.requestId = n /\ q.conv = turn[r].conv
    PROVE  /\ Grows(turn, turn') /\ TurnsOk(turn', q) /\ n \in Nat
           /\ \A a \in DOMAIN turn : a # r => a \in DOMAIN turn' /\ turn'[a] = turn[a]
<1>1. /\ turn \in Seq(Jobs) /\ turn[r] \in Jobs /\ Answered(r)
  BY DEF ChatInv, TypeInv, Retry
<1>2. PICK us : us = With(turn, r, Over(r))
  OBVIOUS
<1>3. Grows(turn, us) /\ TurnsOk(us, q) /\ Changed(turn, us, r, Over(r))
  BY <1>1, <1>2, DoneTurns
<1>4. /\ k \in Jobs /\ k.conv = turn[r].conv /\ k.handle = NoHandle /\ k.step = "invoked"
      /\ k.out = <<>>
  BY <1>1 DEF Job, Jobs, Steps, NoHandle
<1>5. k.mine <=> turn[r].mine
  BY <1>1 DEF Job
<1>6. turn' = Added(us, k)
  BY <1>2 DEF Retry, Added, With
<1>7. n = NewId(us)
  BY <1>3 DEF NewId, Changed
<1>8. Grows(us, turn') /\ Longer(us, turn', n, k)
  <2>1. us \in Seq(Jobs)
    BY <1>3 DEF Grows
  <2> QED BY <1>4, <1>6, <1>7, <2>1, AddOne
<1>9. Grows(turn, turn')
  BY <1>3, <1>8 DEF Grows
<1>10. JobOk(turn', q, n, k)
  BY <1>4, <1>5 DEF JobOk, Own
<1>11. ASSUME NEW l \in DOMAIN us PROVE JobOk(turn', q, l, turn'[l])
  <2>1. JobOk(us, q, l, us[l])
    BY <1>3 DEF TurnsOk
  <2>2. PICK i : i = us[l]
    OBVIOUS
  <2>3. i.mine => q # NoPanel /\ q.busy /\ q.requestId = l /\ q.conv = i.conv
    BY <2>1, <2>2 DEF JobOk
  <2>4. JobOk(turn', q, l, i)
    BY <1>8, <2>1, <2>2, <2>3, JobStays
  <2> QED BY <1>8, <2>2, <2>4 DEF Longer
<1>12. TurnsOk(turn', q)
  BY <1>8, <1>10, <1>11 DEF TurnsOk, Longer
<1>13. \A a \in DOMAIN turn : a # r => a \in DOMAIN turn' /\ turn'[a] = turn[a]
  BY <1>3, <1>8 DEF Changed, Longer
<1> QED BY <1>8, <1>9, <1>12, <1>13 DEF Longer

(* A retry: codex asked nothing of the turn it refused. *)
LEMMA RetryStep ==
    ASSUME ChatInv, AnswerWaits, NEW r \in DOMAIN turn, Retry(r) PROVE ChatInv'
<1>1. /\ turn \in Seq(Jobs) /\ JobOk(turn, panel, r, turn[r]) /\ nextConv \in Nat
      /\ nextConv' = nextConv /\ panel \in Panels \cup {NoPanel} /\ turn[r].step = "expired"
  BY DEF ChatInv, TypeInv, TurnsOk, Retry, Retries, counters
<1>2. PICK n : n = NewId(turn)
  OBVIOUS
<1>3. CASE ~turn[r].mine
  <2>1. UNCHANGED <<panel, sessions, forgotten>>
    BY <1>3 DEF Retry
  <2>2. /\ Grows(turn, turn') /\ TurnsOk(turn', panel)
        /\ \A a \in DOMAIN turn : a # r => a \in DOMAIN turn' /\ turn'[a] = turn[a]
    BY <1>2, <1>3, RetryTurns
  <2>3. \A h, c : Own(turn, h, c) => Own(turn', h, c)
    BY <2>2, OwnStays
  <2>4. PanelOk(turn', panel)
    BY <1>3, <2>2, <2>3 DEF ChatInv, PanelOk
  <2> QED BY <1>1, <2>1, <2>2, <2>4, StoreStays
<1>4. CASE turn[r].mine
  <2>1. /\ panel # NoPanel /\ panel \in Panels /\ panel.conv = turn[r].conv
        /\ panel.busy /\ panel.requestId = r
    BY <1>1, <1>4 DEF JobOk
  <2>2. OfConv(panel.messages, panel.conv) /\ panel.approvals = {}
    BY <1>1, <2>1 DEF ChatInv, PanelOk, JobOk
  <2>3. PICK s : s = Say(panel, "assistant", panel.conv)
    OBVIOUS
  <2>4. PICK t \in Seq(Messages) : OfConv(t, panel.conv) /\ s = [panel EXCEPT !.messages = t]
    BY <2>1, <2>2, <2>3, SayFacts
  <2>5. PICK q : q = [s EXCEPT !.handle = NoHandle, !.requestId = n]
    OBVIOUS
  <2>6. Show(q)
    BY <1>2, <1>4, <2>1, <2>3, <2>5 DEF Retry, NewId
  <2>7. n \in Nat
    BY <1>1, <1>2 DEF NewId
  <2>8. q \in Panels
    <3>1. s \in Panels
      BY <2>1, <2>4 DEF Panels
    <3>2. NoHandle \in Int
      BY DEF NoHandle
    <3> QED BY <2>5, <2>7, <3>1, <3>2 DEF Panels
  <2>9. /\ q.approvals = panel.approvals /\ q.messages = t /\ q.conv = panel.conv
        /\ q.handle = NoHandle /\ q.requestId = n /\ q.busy = panel.busy
    BY <2>1, <2>4, <2>5 DEF Panels
  <2>10. q # NoPanel
    BY <2>8, NoPanelFacts
  <2>11. Grows(turn, turn') /\ TurnsOk(turn', q)
    BY <1>2, <1>4, <2>1, <2>9, <2>10, RetryTurns
  <2>12. Own(turn, q.handle, q.conv) /\ OfConv(q.messages, q.conv)
    BY <2>4, <2>9 DEF Own
  <2>13. PanelOk(turn', q)
    BY <2>2, <2>9, <2>12 DEF PanelOk, Own
  <2> QED BY <1>1, <2>6, <2>8, <2>11, <2>12, <2>13, ShowKeeps
<1> QED BY <1>3, <1>4

----------------------------------------------------------------------------
(* At first there is one transcript, of an earlier run. *)
LEMMA ChatInit == Init => ChatInv
<1> SUFFICES ASSUME Init PROVE ChatInv
  OBVIOUS
<1>1. /\ turn = <<>> /\ nextConv = 2 /\ panel = Fresh(1)
  BY DEF Init
<1>2. /\ panel \in Panels /\ panel.messages = <<>> /\ panel.handle = NoHandle /\ panel.approvals = {}
  BY <1>1, BoundsAssumption DEF Fresh, Panels, Providers, NoHandle, NoRequest
<1>3. PICK m : m = Message("user", 0)
  OBVIOUS
<1>4. m \in Messages /\ m.of = 0
  BY <1>3 DEF Message, Messages
<1>5. PICK e : e = [id |-> 0, provider |-> "codex", handle |-> Earlier, messages |-> <<m>>]
  OBVIOUS
<1>6. e \in Entries
  BY <1>4, <1>5 DEF Entries, Providers, Earlier
<1>7. EntryOk(turn, e)
  BY <1>4, <1>5 DEF EntryOk, OfConv, Own
<1>8. sessions = <<e>>
  BY <1>3, <1>5 DEF Init
<1>9. sessions \in Seq(Entries) /\ Len(sessions) = 1 /\ DOMAIN sessions = {1} /\ sessions[1] = e
  BY <1>6, <1>8
<1>10. Fits(sessions, Len(sessions))
  BY <1>9, BoundsAssumption DEF Fits
<1>11. StoreOk(turn, sessions)
  BY <1>7, <1>9, <1>10 DEF StoreOk, OnceEach
<1>12. TypeInv
  BY <1>1, <1>2, <1>9 DEF TypeInv
<1>13. PanelOk(turn, panel)
  BY <1>2 DEF PanelOk, OfConv, Own
<1>14. TurnsOk(turn, panel)
  BY <1>1 DEF TurnsOk
<1>15. IdleIsStored
  BY <1>2 DEF IdleIsStored
<1> QED BY <1>11, <1>12, <1>13, <1>14, <1>15 DEF ChatInv

(* Every step keeps the invariant. *)
LEMMA ChatStep ==
    ASSUME ChatInv, AnswerWaits, [Next]_vars PROVE ChatInv'
<1>1. CASE UNCHANGED vars
  BY <1>1 DEF vars, ChatInv, TypeInv, IdleIsStored, Mounted
<1>2. CASE Send BY <1>2, SendStep
<1>3. CASE NewConversation BY <1>3, NewConversationStep
<1>4. CASE ClosePanel BY <1>4, CloseStep
<1>5. CASE OpenPanel BY <1>5, OpenStep
<1>6. CASE Cancel BY <1>6, CancelStep
<1>7. CASE \E i \in DOMAIN sessions : Restore(sessions[i]) \/ RemoveConversation(sessions[i])
  BY <1>7, RestoreStep, RemoveStep
<1>8. CASE \E x \in Providers : ChangeProvider(x)
  BY <1>8, ChangeProviderStep
<1>9. CASE AnswerSomeApproval
  BY <1>9, AnswerStep DEF AnswerSomeApproval
<1>10. CASE \E r \in Requests : Backend(r) \/ Dies(r) \/ Deliver(r) \/ Retry(r) \/ TurnEnds(r)
  <2>1. PICK r \in DOMAIN turn : Backend(r) \/ Dies(r) \/ Deliver(r) \/ Retry(r) \/ TurnEnds(r)
    BY <1>10 DEF Requests
  <2>2. CASE Backend(r) \/ Dies(r)
    BY <2>2, BackendSteps, ChunkStep DEF Backend
  <2> QED BY <2>1, <2>2, DeliverStep, RetryStep, EndStep
<1> QED BY <1>1, <1>2, <1>3, <1>4, <1>5, <1>6, <1>7, <1>8, <1>9, <1>10 DEF Next

(* What holds in every state.                                                *)
LEMMA ChatAlways ==
    ASSUME AnswerWaits PROVE Spec => []ChatInv
<1>1. Init => ChatInv
  BY ChatInit
<1>2. ChatInv /\ [Next]_vars => ChatInv'
  BY ChatStep
<1>3. Spec => Init /\ [][Next]_vars
  BY DEF Spec
<1> QED BY <1>1, <1>2, <1>3, PTL

(* Turns stay apart, for any number of questions, retries, conversations and *)
(* changes of the provider (send, runTurn, newConversation, restore of       *)
(* AIChatPanel.tsx, upsert and remove of aiSessionStore.ts): a question on   *)
(* the screen is one of the request an answer names, and no conversation has *)
(* messages or the CLI session of another one.                               *)
THEOREM ConversationsStayApart ==
    ASSUME AnswerWaits PROVE Spec => []TurnsApart
<1>1. ChatInv => TurnsApart
  <2> SUFFICES ASSUME ChatInv PROVE TurnsApart
    OBVIOUS
  <2>1. \A h, c : (Own(turn, h, c) /\ h # NoHandle) => ConvOf(h) = c
    <3>1. turn \in Seq(Jobs)
      BY DEF ChatInv, TypeInv
    <3>2. Earlier \notin DOMAIN turn
      BY <3>1 DEF Earlier
    <3> QED BY <3>2 DEF Own, ConvOf
  <2>2. ApprovalsOfThisRequest
    BY DEF ChatInv, PanelOk, ApprovalsOfThisRequest, Mounted
  <2>3. ConversationsApart
    BY <2>1 DEF ChatInv, PanelOk, StoreOk, EntryOk, OfConv, ConversationsApart, Mounted
  <2> QED BY <2>2, <2>3 DEF TurnsApart
<1> QED BY <1>1, ChatAlways, PTL

(* While no turn runs, the conversation on the screen is stored as it is     *)
(* shown, unless the user deleted it: neither the limits of commit nor the   *)
(* removal of another transcript (aiSessionStore.ts) ever drops it.          *)
THEOREM IdleConversationIsStored ==
    ASSUME AnswerWaits PROVE Spec => []IdleIsStored
<1>1. ChatInv => IdleIsStored
  BY DEF ChatInv
<1> QED BY <1>1, ChatAlways, PTL

=============================================================================
