------------------------ MODULE BrowserSessionProofs ------------------------
(***************************************************************************)
(* Theorems about BrowserSession for any finite set of agents, any names   *)
(* and any bounds.  BrowserInv, the inductive invariant, has six parts:    *)
(*                                                                         *)
(*   TypeOK       with the shape of every call under way                   *)
(*   SessionInv   one launch, reconnect or close at a time, at work on the *)
(*                session's own driver, until a call begins amid another   *)
(*   ListedInv    a page shown by a browser that is up is under a tab, in  *)
(*                the hands of a call that closes it, or unlisted          *)
(*   RoomInv      tabs there and tabs on their way, against MAX_TABS       *)
(*   LeakInv      drivers that run and calls yet to start or stop one,     *)
(*                against the failures and overlaps that explain them      *)
(*   DownloadInv  two downloads waiting on a page are not alone            *)
(***************************************************************************)
EXTENDS BrowserSession, SequenceTheorems, FiniteSetTheorems, TLAPS

LEMMA Numbers ==
  /\ MaxTabs \in Nat /\ MaxTabs >= 1 /\ MaxDrivers \in Nat /\ MaxDrivers >= 1
  /\ MaxPages \in Nat /\ MaxPages >= 1
  BY BrowserAssumption

-----------------------------------------------------------------------------
(* Sequences of tabs whose names differ. *)

Distinct(ts) == \A i, j \in DOMAIN ts : ts[i].name = ts[j].name => i = j
Listing(ts) == ts \in Seq(Tabs) /\ Distinct(ts)

(* The tab of a name is the only one with it. *)
LEMMA TheTab ==
  ASSUME NEW ts, Listing(ts), NEW n, Has(ts, n)
  PROVE  /\ Place(ts, n) \in 1 .. Len(ts) /\ ts[Place(ts, n)] = TabOf(ts, n)
         /\ TabOf(ts, n) \in Range(ts) /\ TabOf(ts, n) \in Tabs /\ TabOf(ts, n).name = n
         /\ \A t \in Range(ts) : t.name = n => t = TabOf(ts, n)
         /\ PagesOf(ts, n) = {TabOf(ts, n).page}
<1>1. ts \in Seq(Tabs) /\ DOMAIN ts = 1 .. Len(ts) /\ Len(ts) \in Nat
  BY DEF Listing
<1>2. Place(ts, n) \in DOMAIN ts /\ ts[Place(ts, n)].name = n
  BY DEF Has, Place
<1>3. TabOf(ts, n) \in Range(ts) /\ TabOf(ts, n) \in Tabs /\ TabOf(ts, n).name = n
  BY <1>1, <1>2 DEF TabOf, Range
<1>4. ASSUME NEW t \in Range(ts), t.name = n PROVE t = TabOf(ts, n)
  BY <1>2, <1>4 DEF Range, TabOf, Listing, Distinct
<1>5. PagesOf(ts, n) = {TabOf(ts, n).page}
  BY <1>3, <1>4 DEF PagesOf
<1> QED
  BY <1>1, <1>2, <1>3, <1>4, <1>5 DEF TabOf

(* The oldest tab goes. *)
LEMMA TailLists ==
  ASSUME NEW ts, Listing(ts), Len(ts) >= 1
  PROVE  /\ Listing(Tail(ts)) /\ Len(Tail(ts)) = Len(ts) - 1
         /\ Head(ts) \in Range(ts) /\ Head(ts) \in Tabs
         /\ Range(Tail(ts)) \subseteq Range(ts)
         /\ Range(ts) \subseteq Range(Tail(ts)) \cup {Head(ts)}
<1>1. ts \in Seq(Tabs) /\ DOMAIN ts = 1 .. Len(ts) /\ Len(ts) \in Nat
  BY DEF Listing
<1>2. Tail(ts) \in Seq(Tabs) /\ Len(Tail(ts)) = Len(ts) - 1 /\ DOMAIN Tail(ts) = 1 .. Len(ts) - 1
  BY <1>1
<1>3. \A i \in 1 .. Len(ts) - 1 : Tail(ts)[i] = ts[i + 1] /\ i + 1 \in DOMAIN ts
  BY <1>1
<1>4. Distinct(Tail(ts))
  BY <1>1, <1>2, <1>3 DEF Distinct, Listing
<1>5. Head(ts) = ts[1] /\ 1 \in DOMAIN ts
  BY <1>1
<1>6. Range(Tail(ts)) \subseteq Range(ts)
  BY <1>2, <1>3 DEF Range
<1>7. ASSUME NEW i \in DOMAIN ts PROVE ts[i] \in Range(Tail(ts)) \cup {Head(ts)}
  <2>1. CASE i = 1
    BY <2>1, <1>5
  <2>2. CASE i # 1
    <3>1. i - 1 \in 1 .. Len(ts) - 1 /\ (i - 1) + 1 = i
      BY <2>2, <1>1
    <3> QED
      BY <3>1, <1>2, <1>3 DEF Range
  <2> QED
    BY <2>1, <2>2
<1> QED
  BY <1>1, <1>2, <1>4, <1>5, <1>6, <1>7 DEF Listing, Range

(* A name is forgotten. *)
LEMMA WithoutLists ==
  ASSUME NEW ts, Listing(ts), NEW n
  PROVE  /\ Listing(Without(ts, n)) /\ Len(Without(ts, n)) <= Len(ts)
         /\ Range(Without(ts, n)) = {t \in Range(ts) : t.name # n}
<1>1. ts \in Seq(Tabs) /\ DOMAIN ts = 1 .. Len(ts) /\ Len(ts) \in Nat
  BY DEF Listing
<1>2. CASE ~ Has(ts, n)
  BY <1>1, <1>2 DEF Without, Has, Range, Listing
<1>3. CASE Has(ts, n)
  <2> DEFINE p == Place(ts, n)
             w == Without(ts, n)
  <2>1. p \in 1 .. Len(ts) /\ ts[p].name = n
    BY <1>3, TheTab
  <2> DEFINE f == SubSeq(ts, 1, p - 1)
             g == SubSeq(ts, p + 1, Len(ts))
  <2>2. w = f \o g
    BY <1>3 DEF Without, RemoveAt
  <2>3. /\ f \in Seq(Tabs) /\ Len(f) = p - 1 /\ g \in Seq(Tabs) /\ Len(g) = Len(ts) - p
        /\ \A i \in 1 .. p - 1 : f[i] = ts[i]
        /\ \A i \in 1 .. Len(ts) - p : g[i] = ts[p + i]
    <3> HIDE DEF p
    <3>1. f \in Seq(Tabs) /\ Len(f) = p - 1 /\ \A i \in 1 .. p - 1 : f[i] = ts[i]
      BY <1>1, <2>1
    <3>2. p + 1 \in 1 .. Len(ts) + 1
      BY <1>1, <2>1
    <3>3. g \in Seq(Tabs) /\ Len(g) = Len(ts) - p
      <4>1. \A i \in p + 1 .. Len(ts) : i \in 1 .. Len(ts)
        BY <1>1, <2>1
      <4>2. /\ g \in Seq(Tabs)
            /\ Len(g) = IF p + 1 <= Len(ts) THEN Len(ts) - (p + 1) + 1 ELSE 0
        BY <1>1, <3>2, <4>1, SubSeqProperties
      <4>3. p \in Nat /\ p <= Len(ts) /\ Len(ts) \in Nat
        BY <1>1, <2>1
      <4> HIDE DEF f, g, w
      <4>4. Len(g) = Len(ts) - p
        BY <4>2, <4>3
      <4> QED
        BY <4>2, <4>4
    <3>4. \A i \in 1 .. Len(ts) - p : g[i] = ts[p + i]
      BY <1>1, <2>1, <3>2
    <3> QED
      BY <3>1, <3>3, <3>4
  <2> HIDE DEF p, w, f, g
  <2>4. w \in Seq(Tabs) /\ Len(w) = Len(ts) - 1 /\ DOMAIN w = 1 .. Len(ts) - 1
    <3>1. w \in Seq(Tabs) /\ Len(w) = Len(f) + Len(g)
      BY <2>2, <2>3, ConcatProperties
    <3>2. Len(w) = Len(ts) - 1
      BY <1>1, <2>1, <2>3, <3>1
    <3> QED
      BY <3>1, <3>2
  <2>5. \A i \in 1 .. Len(ts) - 1 : w[i] = IF i < p THEN ts[i] ELSE ts[i + 1]
    <3> TAKE i \in 1 .. Len(ts) - 1
    <3>1. \A k \in 1 .. Len(f) + Len(g) : (f \o g)[k] = IF k <= Len(f) THEN f[k] ELSE g[k - Len(f)]
      BY <2>3, ConcatProperties
    <3>2. i \in 1 .. Len(f) + Len(g)
      BY <1>1, <2>1, <2>3
    <3>3. w[i] = IF i <= p - 1 THEN f[i] ELSE g[i - (p - 1)]
      BY <2>2, <2>3, <3>1, <3>2
    <3>4. CASE i < p
      BY <1>1, <2>1, <2>3, <3>3, <3>4
    <3>5. CASE ~ i < p
      <4>1. i - (p - 1) \in 1 .. Len(ts) - p /\ p + (i - (p - 1)) = i + 1 /\ ~ i <= p - 1
        BY <3>5, <2>1, <1>1
      <4> QED
        BY <4>1, <2>3, <3>3, <3>5
    <3> QED
      BY <3>4, <3>5
  <2>6. Distinct(w)
    <3> SUFFICES ASSUME NEW i \in 1 .. Len(ts) - 1, NEW j \in 1 .. Len(ts) - 1, w[i].name = w[j].name
                 PROVE  i = j
      BY <2>4 DEF Distinct
    <3> DEFINE at0(x) == IF x < p THEN x ELSE x + 1
    <3>1. at0(i) \in DOMAIN ts /\ at0(j) \in DOMAIN ts /\ w[i] = ts[at0(i)] /\ w[j] = ts[at0(j)]
      BY <2>5, <2>1, <1>1
    <3>2. at0(i) = at0(j)
      BY <3>1 DEF Listing, Distinct
    <3> QED
      BY <3>2, <2>1, <1>1
  <2>7. Range(w) = {t \in Range(ts) : t.name # n}
    <3>1. ASSUME NEW i \in 1 .. Len(ts) - 1 PROVE w[i] \in Range(ts) /\ w[i].name # n
      <4>1. PICK x \in DOMAIN ts : x # p /\ w[i] = ts[x]
        <5>1. CASE i < p
          BY <5>1, <2>5, <2>1, <1>1
        <5>2. CASE ~ i < p
          BY <5>2, <2>5, <2>1, <1>1
        <5> QED
          BY <5>1, <5>2
      <4> QED
        BY <4>1, <2>1, <1>1 DEF Range, Listing, Distinct
    <3>2. ASSUME NEW x \in DOMAIN ts, ts[x].name # n PROVE ts[x] \in Range(w)
      <4>1. x # p /\ x \in 1 .. Len(ts)
        BY <3>2, <2>1, <1>1
      <4>2. CASE x < p
        <5>1. x \in 1 .. Len(ts) - 1 /\ w[x] = ts[x]
          BY <4>1, <4>2, <2>1, <2>5, <1>1
        <5> QED
          BY <5>1, <2>4 DEF Range
      <4>3. CASE ~ x < p
        <5>1. x - 1 \in 1 .. Len(ts) - 1 /\ ~ x - 1 < p /\ (x - 1) + 1 = x
          BY <4>1, <4>3, <2>1, <1>1
        <5>2. w[x - 1] = ts[x]
          BY <5>1, <2>5
        <5> QED
          BY <5>1, <5>2, <2>4 DEF Range
      <4> QED
        BY <4>2, <4>3
    <3> QED
      BY <3>1, <3>2, <2>4 DEF Range
  <2> QED
    BY <2>4, <2>6, <2>7, <1>1 DEF Listing, w
<1> QED
  BY <1>2, <1>3

(* A tab is entered under its name. *)
LEMMA WithTabLists ==
  ASSUME NEW ts, Listing(ts), NEW tab \in Tabs
  PROVE  /\ Listing(WithTab(ts, tab)) /\ Len(WithTab(ts, tab)) <= Len(ts) + 1
         /\ Range(WithTab(ts, tab)) = {tab} \cup {t \in Range(ts) : t.name # tab.name}
<1> DEFINE w == WithTab(ts, tab)
           n == tab.name
<1>1. ts \in Seq(Tabs) /\ DOMAIN ts = 1 .. Len(ts) /\ Len(ts) \in Nat
  BY DEF Listing
<1>2. CASE Has(ts, n)
  <2> DEFINE p == Place(ts, n)
  <2>1. p \in 1 .. Len(ts) /\ ts[p].name = n
    BY <1>2, TheTab
  <2>2. w = [ts EXCEPT ![p] = tab]
    BY <1>2 DEF WithTab
  <2> HIDE DEF p, w
  <2>3. w \in Seq(Tabs) /\ Len(w) = Len(ts) /\ DOMAIN w = DOMAIN ts
    BY <1>1, <2>1, <2>2
  <2>4. \A i \in DOMAIN ts : w[i] = IF i = p THEN tab ELSE ts[i]
    BY <2>2
  <2>5. \A i \in DOMAIN ts : i # p => ts[i].name # n
    BY <2>1, <1>1 DEF Listing, Distinct
  <2>6. Distinct(w)
    BY <2>1, <2>3, <2>4, <2>5 DEF Listing, Distinct
  <2>7. Range(w) = {tab} \cup {t \in Range(ts) : t.name # n}
    BY <1>1, <2>1, <2>3, <2>4, <2>5 DEF Range
  <2> QED
    BY <1>1, <2>3, <2>6, <2>7 DEF Listing, w
<1>3. CASE ~ Has(ts, n)
  <2>1. w = Append(ts, tab)
    BY <1>3 DEF WithTab
  <2> HIDE DEF w
  <2>2. w \in Seq(Tabs) /\ Len(w) = Len(ts) + 1 /\ DOMAIN w = 1 .. Len(ts) + 1
    BY <1>1, <2>1
  <2>3. w[Len(ts) + 1] = tab /\ \A i \in 1 .. Len(ts) : w[i] = ts[i]
    BY <1>1, <2>1
  <2>4. \A i \in 1 .. Len(ts) : ts[i].name # n
    BY <1>1, <1>3 DEF Has
  <2>5. Distinct(w)
    BY <1>1, <2>2, <2>3, <2>4 DEF Listing, Distinct
  <2>6. Range(w) = {tab} \cup {t \in Range(ts) : t.name # n}
    <3>1. Range(w) = {w[i] : i \in 1 .. Len(ts)} \cup {w[Len(ts) + 1]}
      BY <1>1, <2>2 DEF Range
    <3>2. {w[i] : i \in 1 .. Len(ts)} = Range(ts)
      BY <1>1, <2>3 DEF Range
    <3>3. \A t \in Range(ts) : t.name # n
      BY <1>1, <2>4 DEF Range
    <3> QED
      BY <2>3, <3>1, <3>2, <3>3
  <2> QED
    BY <1>1, <2>2, <2>5, <2>6 DEF Listing, w
<1> QED
  BY <1>2, <1>3
-----------------------------------------------------------------------------
(* The pages a reconnect finds become tabs of their own. *)

LEMMA PagesCounted ==
  ASSUME TypeOK, NEW S, S \subseteq open
  PROVE  IsFiniteSet(S) /\ Cardinality(S) \in 0 .. MaxPages
<1> DEFINE f == [p \in S |-> p[1]]
<1>1. \A p \in S : p[1] \in 1 .. MaxPages
  BY DEF TypeOK, Pages
<1>2. \A p, q \in S : p[1] = q[1] => p = q
  BY DEF TypeOK
<1>3. f \in Injection(S, 1 .. MaxPages)
  BY <1>1, <1>2 DEF Injection, IsInjective
<1>4. IsFiniteSet(1 .. MaxPages) /\ Cardinality(1 .. MaxPages) = MaxPages
  BY Numbers, FS_Interval
<1> QED
  BY <1>3, <1>4, FS_Injection, FS_CardinalityType, Numbers

UpTo(p) == {q \in open : q[1] <= p[1]}

LEMMA RecoveredApart ==
  ASSUME TypeOK, NEW d \in 1 .. MaxDrivers, NEW p \in open, NEW q \in open
  PROVE  /\ RecoveredTab(p, d) \in Tabs
         /\ RecoveredTab(p, d).name = RecoveredTab(q, d).name => p = q
<1>1. /\ UpTo(p) \subseteq open /\ UpTo(q) \subseteq open /\ p \in UpTo(p) /\ q \in UpTo(q)
      /\ p[1] \in Nat /\ q[1] \in Nat /\ \A x \in open : x[1] \in Nat
  BY DEF UpTo, TypeOK, Pages
<1>2. /\ IsFiniteSet(UpTo(p)) /\ Cardinality(UpTo(p)) \in 0 .. MaxPages
      /\ IsFiniteSet(UpTo(q)) /\ Cardinality(UpTo(q)) \in 0 .. MaxPages
  BY <1>1, PagesCounted
<1>3. Cardinality(UpTo(p)) \in 1 .. MaxPages
  BY <1>1, <1>2, FS_EmptySet
<1>4. Recovered(Cardinality(UpTo(p))) \in Names
  BY <1>3 DEF Names
<1>5. RecoveredTab(p, d) = [name |-> Recovered(Cardinality(UpTo(p))), page |-> p, via |-> d]
      /\ RecoveredTab(q, d) = [name |-> Recovered(Cardinality(UpTo(q))), page |-> q, via |-> d]
  BY DEF RecoveredTab, UpTo
<1>6. RecoveredTab(p, d) \in Tabs
  BY <1>4, <1>5 DEF Tabs, TypeOK
<1>7. ASSUME RecoveredTab(p, d).name = RecoveredTab(q, d).name PROVE p = q
  <2>1. Cardinality(UpTo(p)) = Cardinality(UpTo(q))
    BY <1>5, <1>7 DEF Recovered
  <2>2. CASE p[1] < q[1]
    <3>1. UpTo(p) \subseteq UpTo(q) /\ q \notin UpTo(p)
      BY <1>1, <2>2 DEF UpTo
    <3> QED
      BY <1>1, <1>2, <2>1, <3>1, FS_Subset
  <2>3. CASE q[1] < p[1]
    <3>1. UpTo(q) \subseteq UpTo(p) /\ p \notin UpTo(q)
      BY <1>1, <2>3 DEF UpTo
    <3> QED
      BY <1>1, <1>2, <2>1, <3>1, FS_Subset
  <2>4. CASE p[1] = q[1]
    BY <2>4 DEF TypeOK
  <2> QED
    BY <1>1, <2>2, <2>3, <2>4
<1> QED
  BY <1>6, <1>7

Found(d) == {RecoveredTab(p, d) : p \in IF remote THEN open ELSE {}}

LEMMA AdoptsLists ==
  ASSUME TypeOK, NEW d \in 1 .. MaxDrivers, Adopts(d)
  PROVE  /\ Listing(tabs')
         /\ Range(tabs') \subseteq Range(tabs) \cup Found(d) /\ Found(d) \subseteq Range(tabs')
         /\ ~ remote => tabs' = tabs
<1> DEFINE found == Found(d)
           new == {t \in found : ~ Has(tabs, t.name)}
           Renewed(t) == IF \E u \in found : u.name = t.name
                         THEN CHOOSE u \in found : u.name = t.name ELSE t
           m == [i \in DOMAIN tabs |-> Renewed(tabs[i])]
<1>1. PICK s \in [1 .. Cardinality(new) -> new] :
        /\ Range(s) = new
        /\ \A i, j \in DOMAIN s : i < j => s[i].page[1] < s[j].page[1]
        /\ tabs' = m \o s
  BY DEF Adopts, Found
<1>2. tabs \in Seq(Tabs) /\ DOMAIN tabs = 1 .. Len(tabs) /\ Len(tabs) \in Nat /\ Distinct(tabs)
  BY DEF TypeOK, Distinct
<1>3. /\ found \subseteq Tabs /\ \A u, v \in found : u.name = v.name => u = v
      /\ \A u \in found : u.page \in open
  <2>1. \A u \in found : \E p \in open : u = RecoveredTab(p, d)
    BY DEF Found
  <2>2. \A p \in open : RecoveredTab(p, d).page = p
    BY DEF RecoveredTab
  <2> QED
    BY <2>1, <2>2, RecoveredApart
<1>4. ASSUME NEW t \in Tabs
      PROVE  Renewed(t) \in Tabs /\ Renewed(t).name = t.name /\ Renewed(t) \in found \cup {t}
             /\ \A u \in found : u.name = t.name => Renewed(t) = u
  BY <1>3
<1> HIDE DEF found, Renewed
<1>5. m \in Seq(Tabs) /\ Len(m) = Len(tabs) /\ DOMAIN m = DOMAIN tabs
  <2>1. \A i \in 1 .. Len(tabs) : Renewed(tabs[i]) \in Tabs
    BY <1>2, <1>4
  <2> QED
    BY <1>2, <2>1
<1>6. IsFiniteSet(new) /\ Cardinality(new) \in Nat
  <2>1. IsFiniteSet(open)
    BY PagesCounted
  <2> DEFINE g == [u \in new |-> u.page]
  <2>2. new \subseteq found
    OBVIOUS
  <2>3. ASSUME NEW u \in found PROVE u = RecoveredTab(u.page, d)
    <3>1. PICK p \in open : u = RecoveredTab(p, d)
      BY DEF Found, found
    <3>2. RecoveredTab(p, d).page = p
      BY DEF RecoveredTab
    <3> QED
      BY <3>1, <3>2
  <2>4. \A u, v \in new : u.page = v.page => u = v
    BY <2>2, <2>3
  <2>5. g \in Injection(new, open)
    BY <1>3, <2>2, <2>4 DEF Injection, IsInjective
  <2> QED
    BY <2>1, <2>5, FS_Injection, FS_CardinalityType
<1> DEFINE k == Cardinality(new)
<1> HIDE DEF k
<1>7. s \in Seq(Tabs) /\ Len(s) = k /\ DOMAIN s = 1 .. k /\ \A i \in 1 .. k : s[i] \in new
  <2>1. s \in [1 .. k -> new] /\ k \in Nat /\ new \subseteq Tabs
    BY <1>1, <1>3, <1>6 DEF k
  <2>2. s \in [1 .. k -> Tabs] /\ \A i \in 1 .. k : s[i] \in new
    <3> HIDE DEF new
    <3> QED
      BY <2>1
  <2> QED
    BY <2>1, <2>2
<1>8. \A i, j \in 1 .. k : s[i].name = s[j].name => i = j
  <2> SUFFICES ASSUME NEW i \in 1 .. k, NEW j \in 1 .. k, s[i].name = s[j].name, i # j PROVE FALSE
    OBVIOUS
  <2>1. s[i] = s[j]
    BY <1>3, <1>7
  <2>2. s[i].page[1] \in Int
    BY <1>3, <1>7 DEF TypeOK, Pages
  <2>3. i < j \/ j < i
    BY <1>6 DEF k
  <2> QED
    BY <1>1, <1>7, <2>1, <2>2, <2>3
<1> HIDE DEF m
<1>9. /\ tabs' \in Seq(Tabs) /\ Len(tabs') = Len(tabs) + k /\ DOMAIN tabs' = 1 .. Len(tabs) + k
      /\ \A i \in 1 .. Len(tabs) + k : tabs'[i] = IF i <= Len(tabs) THEN m[i] ELSE s[i - Len(tabs)]
  <2>1. tabs' = m \o s
    BY <1>1
  <2>2. /\ tabs' \in Seq(Tabs) /\ Len(tabs') = Len(m) + Len(s)
        /\ \A i \in 1 .. Len(m) + Len(s) : tabs'[i] = IF i <= Len(m) THEN m[i] ELSE s[i - Len(m)]
    BY <1>5, <1>7, <2>1, ConcatProperties
  <2> QED
    BY <1>5, <1>7, <2>2
<1>10. \A i \in 1 .. Len(tabs) : m[i] = Renewed(tabs[i]) /\ tabs[i] \in Tabs /\ m[i].name = tabs[i].name
  BY <1>2, <1>4 DEF m
<1>11. ASSUME NEW i \in 1 .. Len(tabs) PROVE tabs'[i] = m[i] /\ i \in DOMAIN tabs'
  BY <1>2, <1>6, <1>9 DEF k
<1>12. ASSUME NEW i \in 1 .. k PROVE tabs'[Len(tabs) + i] = s[i] /\ Len(tabs) + i \in DOMAIN tabs'
  <2>1. Len(tabs) + i \in 1 .. Len(tabs) + k /\ ~ Len(tabs) + i <= Len(tabs) /\ (Len(tabs) + i) - Len(tabs) = i
    BY <1>2, <1>6 DEF k
  <2> QED
    BY <1>9, <2>1
<1>13. ASSUME NEW x \in DOMAIN tabs'
       PROVE  x \in 1 .. Len(tabs) \/ \E i \in 1 .. k : x = Len(tabs) + i
  <2>1. x \in 1 .. Len(tabs) + k
    BY <1>9
  <2>2. CASE ~ x <= Len(tabs)
    <3>1. x - Len(tabs) \in 1 .. k /\ x = Len(tabs) + (x - Len(tabs))
      BY <1>2, <1>6, <2>1, <2>2 DEF k
    <3> QED
      BY <3>1
  <2> QED
    BY <1>2, <2>1, <2>2
<1>14. Distinct(tabs')
  <2> SUFFICES ASSUME NEW x \in DOMAIN tabs', NEW y \in DOMAIN tabs', tabs'[x].name = tabs'[y].name
               PROVE  x = y
    BY DEF Distinct
  <2>1. CASE x \in 1 .. Len(tabs) /\ y \in 1 .. Len(tabs)
    BY <1>2, <1>10, <1>11, <2>1 DEF Distinct
  <2>2. ASSUME NEW z \in 1 .. Len(tabs), NEW i \in 1 .. k PROVE m[z].name # s[i].name
    BY <1>2, <1>7, <1>10 DEF Has
  <2>3. CASE x \in 1 .. Len(tabs) /\ \E i \in 1 .. k : y = Len(tabs) + i
    BY <1>11, <1>12, <2>2, <2>3
  <2>4. CASE y \in 1 .. Len(tabs) /\ \E i \in 1 .. k : x = Len(tabs) + i
    BY <1>11, <1>12, <2>2, <2>4
  <2>5. CASE (\E i \in 1 .. k : x = Len(tabs) + i) /\ \E i \in 1 .. k : y = Len(tabs) + i
    BY <1>8, <1>12, <2>5
  <2> QED
    BY <1>13, <2>1, <2>3, <2>4, <2>5
<1>15. Range(tabs') \subseteq Range(tabs) \cup found
  <2>1. ASSUME NEW x \in DOMAIN tabs' PROVE tabs'[x] \in Range(tabs) \cup found
    <3>1. CASE x \in 1 .. Len(tabs)
      <4>1. tabs'[x] \in found \cup {tabs[x]}
        BY <1>4, <1>10, <1>11, <3>1
      <4> QED
        BY <4>1, <1>2, <3>1 DEF Range
    <3>2. CASE \E i \in 1 .. k : x = Len(tabs) + i
      BY <1>7, <1>12, <3>2
    <3> QED
      BY <1>13, <3>1, <3>2
  <2> QED
    BY <2>1 DEF Range
<1>16. ASSUME NEW u \in found PROVE u \in Range(tabs')
  <2>1. CASE Has(tabs, u.name)
    <3>1. PICK i \in DOMAIN tabs : tabs[i].name = u.name
      BY <2>1 DEF Has
    <3>2. m[i] = u
      BY <1>2, <1>4, <1>10, <3>1
    <3> QED
      BY <1>2, <1>11, <3>1, <3>2 DEF Range
  <2>2. CASE ~ Has(tabs, u.name)
    <3>1. u \in Range(s)
      BY <1>1, <2>2
    <3>2. PICK i \in 1 .. k : u = s[i]
      BY <1>7, <3>1 DEF Range
    <3> QED
      BY <1>12, <3>2 DEF Range
  <2> QED
    BY <2>1, <2>2
<1>17. ASSUME ~ remote PROVE tabs' = tabs
  <2>1. found = {}
    BY <1>17 DEF Found, found
  <2>2. k = 0
    BY <2>1, FS_EmptySet DEF k
  <2>3. \A i \in 1 .. Len(tabs) : tabs'[i] = tabs[i]
    BY <1>4, <1>10, <1>11, <2>1
  <2>4. tabs' \in Seq(Tabs) /\ Len(tabs') = Len(tabs)
    BY <1>2, <1>9, <2>2
  <2> QED
    BY <1>2, <2>3, <2>4
<1> QED
  BY <1>9, <1>14, <1>15, <1>16, <1>17 DEF Listing, found

-----------------------------------------------------------------------------
(* Types. *)

LEMMA CallFields ==
  ASSUME TypeOK, NEW a \in Agents
  PROVE  LET c == at[a] IN
         /\ c.pc \in {"idle", "probe", "evict", "open", "closetab"} \cup Lifecycle
         /\ c.pc \in {"start", "connect", "reclose", "restop"} =>
              /\ c.then \in {"get", "get again"} => c.name \in Names
              /\ c.then \notin {"get", "get again"} => c.then = "reconnect" /\ c.name = NoName
         /\ c.pc \in {"connect", "reclose", "restop"} => c.via \in 1 .. MaxDrivers
         /\ c.pc = "open" => c.name \in Names /\ c.via \in 0 .. MaxDrivers /\ c.retry \in BOOLEAN
         /\ c.pc \in {"probe", "evict"} => c.name \in Names
         /\ c.pc \in {"probe", "evict", "closetab", "emptying"} => c.page \in Pages /\ c.via \in 1 .. MaxDrivers
         /\ c.pc = "emptying" => c.names \in Seq(Names)
         /\ c.pc \in {"downing", "stopping"} => c.via \in 0 .. MaxDrivers
<1>1. at[a] \in Calls
  BY DEF TypeOK
<1>2. CASE at[a] = Idle
  BY <1>2 DEF Idle, Lifecycle
<1>3. CASE at[a] \in [pc : {"start"}, name : Names, then : {"get", "get again"}]
  BY <1>3 DEF Idle, Lifecycle
<1>4. CASE at[a] \in [pc : {"start"}, name : {NoName}, then : {"reconnect"}]
  BY <1>4 DEF Idle, Lifecycle
<1>5. CASE at[a] \in [pc : {"connect", "reclose", "restop"}, name : Names, then : {"get", "get again"}, via : 1 .. MaxDrivers]
  BY <1>5 DEF Idle, Lifecycle
<1>6. CASE at[a] \in [pc : {"connect", "reclose", "restop"}, name : {NoName}, then : {"reconnect"}, via : 1 .. MaxDrivers]
  BY <1>6 DEF Idle, Lifecycle
<1>7. CASE at[a] \in [pc : {"open"}, name : Names, via : 0 .. MaxDrivers, retry : BOOLEAN]
  BY <1>7 DEF Idle, Lifecycle
<1>8. CASE at[a] \in [pc : {"probe", "evict"}, name : Names, page : Pages, via : 1 .. MaxDrivers]
  BY <1>8 DEF Idle, Lifecycle
<1>9. CASE at[a] \in [pc : {"closetab"}, page : Pages, via : 1 .. MaxDrivers]
  BY <1>9 DEF Idle, Lifecycle
<1>10. CASE at[a] \in [pc : {"emptying"}, names : Seq(Names), page : Pages, via : 1 .. MaxDrivers]
  BY <1>10 DEF Idle, Lifecycle
<1>11. CASE at[a] \in [pc : {"saving"}]
  BY <1>11 DEF Idle, Lifecycle
<1>12. CASE at[a] \in [pc : {"downing", "stopping"}, via : 0 .. MaxDrivers]
  BY <1>12 DEF Idle, Lifecycle
<1> QED
  BY <1>1, <1>2, <1>3, <1>4, <1>5, <1>6, <1>7, <1>8, <1>9, <1>10, <1>11, <1>12 DEF Calls, Launches

LEMMA Moves ==
  ASSUME TypeOK, NEW a \in Agents, NEW r, r \in Calls, Goes(a, r)
  PROVE  at' \in [Agents -> Calls] /\ at'[a] = r /\ \A b \in Agents : b # a => at'[b] = at[b]
  BY DEF TypeOK, Goes

(* MakesRoom enters the new tab's call, with or without closing the oldest. *)
EvictOf(n, t) == [pc |-> "evict", name |-> n, page |-> t.page, via |-> t.via]
RoomMade(a, n, ts, c) ==
  /\ at' \in [Agents -> Calls] /\ \A b \in Agents : b # a => at'[b] = at[b]
  /\ Listing(tabs') /\ Range(tabs') \subseteq Range(ts)
  /\ \/ tabs' = ts /\ Len(ts) < MaxTabs /\ at'[a] = Opening(n, c, TRUE)
     \/ /\ Len(ts) >= MaxTabs /\ Len(tabs') = Len(ts) - 1
        /\ \E t \in Range(ts) : Range(ts) \subseteq Range(tabs') \cup {t} /\ at'[a] = EvictOf(n, t)

LEMMA RoomIsMade ==
  ASSUME TypeOK, NEW a \in Agents, NEW n \in Names, NEW ts, Listing(ts), NEW c \in 0 .. MaxDrivers,
         MakesRoom(a, n, ts, c)
  PROVE  RoomMade(a, n, ts, c)
<1>1. ts \in Seq(Tabs) /\ Len(ts) \in Nat
  BY DEF Listing
<1>2. CASE Len(ts) >= MaxTabs
  <2>1. Len(ts) >= 1
    BY <1>1, <1>2, Numbers
  <2>2. /\ Listing(Tail(ts)) /\ Len(Tail(ts)) = Len(ts) - 1 /\ Range(Tail(ts)) \subseteq Range(ts)
        /\ Head(ts) \in Range(ts) /\ Head(ts) \in Tabs /\ Range(ts) \subseteq Range(Tail(ts)) \cup {Head(ts)}
    BY <2>1, TailLists
  <2>3. EvictOf(n, Head(ts)) \in Calls
    BY <2>2 DEF EvictOf, Calls, Tabs
  <2>4. tabs' = Tail(ts) /\ Goes(a, EvictOf(n, Head(ts)))
    BY <1>2 DEF MakesRoom, EvictOf
  <2> QED
    BY <1>2, <2>2, <2>3, <2>4, Moves DEF RoomMade
<1>3. CASE ~ Len(ts) >= MaxTabs
  <2>1. Opening(n, c, TRUE) \in Calls
    BY DEF Opening, Calls
  <2>2. Goes(a, Opening(n, c, TRUE)) /\ tabs' = ts
    BY <1>3 DEF MakesRoom
  <2>3. Len(ts) < MaxTabs
    BY <1>1, <1>3, Numbers
  <2> QED
    BY <2>1, <2>2, <2>3, Moves DEF RoomMade
<1> QED
  BY <1>2, <1>3

ProbeOf(n, t) == [pc |-> "probe", name |-> n, page |-> t.page, via |-> t.via]
Looked(a, n, c) ==
  \/ /\ at' \in [Agents -> Calls] /\ \A b \in Agents : b # a => at'[b] = at[b]
     /\ tabs' = tabs /\ \E t \in Range(tabs) : at'[a] = ProbeOf(n, t)
  \/ RoomMade(a, n, tabs, c)

LEMMA TabsList == ASSUME TypeOK PROVE Listing(tabs)
  BY DEF TypeOK, Listing, Distinct

LEMMA HasLooked ==
  ASSUME TypeOK, NEW a \in Agents, NEW n \in Names, NEW c \in 0 .. MaxDrivers, Looks(a, n, c)
  PROVE  Looked(a, n, c)
<1>1. CASE Has(tabs, n)
  <2>1. TabOf(tabs, n) \in Range(tabs) /\ TabOf(tabs, n) \in Tabs
    BY <1>1, TabsList, TheTab
  <2>2. ProbeOf(n, TabOf(tabs, n)) \in Calls
    BY <2>1 DEF ProbeOf, Calls, Tabs
  <2>3. tabs' = tabs /\ Goes(a, ProbeOf(n, TabOf(tabs, n)))
    BY <1>1 DEF Looks, ProbeOf
  <2> QED
    BY <2>1, <2>2, <2>3, Moves DEF Looked
<1>2. CASE ~ Has(tabs, n)
  BY <1>2, TabsList, RoomIsMade DEF Looks, Looked
<1> QED
  BY <1>1, <1>2

(* close goes to the next tab or to the browser. *)
LeavesTabs(a) ==
  /\ tabs' = tabs
  /\ \/ ~ remote /\ context # None /\ at'[a] = [pc |-> "downing", via |-> context]
     \/ (remote \/ context = None) /\ at'[a] = [pc |-> "stopping", via |-> playwright]
TakesTab(a) ==
  /\ Listing(tabs') /\ Len(tabs') <= Len(tabs) /\ Range(tabs') \subseteq Range(tabs)
  /\ at'[a].pc = "emptying"
  /\ \E t \in Range(tabs) :
       Range(tabs) \subseteq Range(tabs') \cup {t} /\ at'[a].page = t.page /\ at'[a].via = t.via
Emptying(a) ==
  /\ at' \in [Agents -> Calls] /\ \A b \in Agents : b # a => at'[b] = at[b]
  /\ LeavesTabs(a) \/ TakesTab(a)

LEMMA NextEmpties ==
  ASSUME TypeOK, NEW a \in Agents, NEW names \in Seq(Names), NextTab(a, names)
  PROVE  Emptying(a)
<1>1. CASE ToBrowser(a) /\ UNCHANGED tabs
  <2>1. context \in 0 .. MaxDrivers /\ playwright \in 0 .. MaxDrivers
    BY Numbers DEF TypeOK, None
  <2>2. [pc |-> "downing", via |-> context] \in Calls /\ [pc |-> "stopping", via |-> playwright] \in Calls
    BY <2>1 DEF Calls
  <2> QED
    BY <1>1, <2>2, Moves DEF ToBrowser, Emptying, LeavesTabs
<1>2. CASE \E i \in DOMAIN names :
            /\ Has(tabs, names[i]) /\ tabs' = Without(tabs, names[i])
            /\ Goes(a, [pc |-> "emptying", names |-> SubSeq(names, i + 1, Len(names)),
                        page |-> TabOf(tabs, names[i]).page, via |-> TabOf(tabs, names[i]).via])
  <2>1. PICK i \in DOMAIN names :
            /\ Has(tabs, names[i]) /\ tabs' = Without(tabs, names[i])
            /\ Goes(a, [pc |-> "emptying", names |-> SubSeq(names, i + 1, Len(names)),
                        page |-> TabOf(tabs, names[i]).page, via |-> TabOf(tabs, names[i]).via])
    BY <1>2
  <2> DEFINE t == TabOf(tabs, names[i])
             r == [pc |-> "emptying", names |-> SubSeq(names, i + 1, Len(names)), page |-> t.page, via |-> t.via]
  <2>2. /\ t \in Range(tabs) /\ t \in Tabs /\ t.name = names[i]
        /\ \A u \in Range(tabs) : u.name = names[i] => u = t
    BY <2>1, TabsList, TheTab
  <2>3. SubSeq(names, i + 1, Len(names)) \in Seq(Names)
    <3>1. i \in 1 .. Len(names) /\ Len(names) \in Nat
      OBVIOUS
    <3>2. \A j \in i + 1 .. Len(names) : names[j] \in Names
      BY <3>1
    <3> QED
      BY <3>1, <3>2, SubSeqProperties
  <2>4. r \in Calls
    BY <2>2, <2>3 DEF Calls, Tabs
  <2>5. /\ Listing(tabs') /\ Len(tabs') <= Len(tabs)
        /\ Range(tabs') = {u \in Range(tabs) : u.name # names[i]}
    BY <2>1, TabsList, WithoutLists
  <2>6. at' \in [Agents -> Calls] /\ at'[a] = r /\ \A b \in Agents : b # a => at'[b] = at[b]
    BY <2>1, <2>4, Moves
  <2>7. Range(tabs) \subseteq Range(tabs') \cup {t}
    BY <2>2, <2>5
  <2> QED
    BY <2>2, <2>5, <2>6, <2>7 DEF Emptying, TakesTab
<1> QED
  BY <1>1, <1>2 DEF NextTab

(* StopsDriver and Reconnects. *)
Request(n, then) ==
  (n \in Names /\ then \in {"get", "get again"}) \/ (n = NoName /\ then = "reconnect")
DriverStops(a, n, then) ==
  /\ context' = None
  /\ \/ /\ playwright # None /\ playwright' = playwright /\ launched' = launched
        /\ at'[a] = [pc |-> "restop", name |-> n, then |-> then, via |-> playwright]
     \/ /\ playwright = None /\ playwright' = None /\ launched' = FALSE
        /\ at'[a] = [pc |-> "start", name |-> n, then |-> then]

LEMMA StartCall ==
  ASSUME NEW n, NEW then, Request(n, then)
  PROVE  /\ [pc |-> "start", name |-> n, then |-> then] \in Calls
         /\ \A d \in 1 .. MaxDrivers, pc \in {"connect", "reclose", "restop"} :
              [pc |-> pc, name |-> n, then |-> then, via |-> d] \in Calls
<1>1. CASE n \in Names /\ then \in {"get", "get again"}
  BY <1>1 DEF Calls, Launches
<1>2. CASE n = NoName /\ then = "reconnect"
  BY <1>2 DEF Calls, Launches
<1> QED
  BY <1>1, <1>2 DEF Request

LEMMA FieldTypes ==
  ASSUME TypeOK
  PROVE  /\ playwright # None => playwright \in 1 .. MaxDrivers /\ playwright \in running
         /\ context # None => context \in 1 .. MaxDrivers
         /\ context \in 0 .. MaxDrivers /\ playwright \in 0 .. MaxDrivers
         /\ running \subseteq 1 .. MaxDrivers /\ alive \subseteq 1 .. MaxDrivers
         /\ used.drivers \in 0 .. MaxDrivers /\ used.pages \in 0 .. MaxPages
<1>1. used.drivers \in 0 .. MaxDrivers /\ used.pages \in 0 .. MaxPages
  BY DEF TypeOK
<1> QED
  BY <1>1, Numbers DEF TypeOK, None

LEMMA StopsStep ==
  ASSUME TypeOK, NEW a \in Agents, NEW n, NEW then, Request(n, then), StopsDriver(a, n, then)
  PROVE  /\ at' \in [Agents -> Calls] /\ \A b \in Agents : b # a => at'[b] = at[b]
         /\ DriverStops(a, n, then)
<1>1. CASE playwright # None
  <2>1. [pc |-> "restop", name |-> n, then |-> then, via |-> playwright] \in Calls
    BY <1>1, StartCall, FieldTypes
  <2> QED
    BY <1>1, <2>1, Moves DEF StopsDriver, DriverStops
<1>2. CASE playwright = None
  BY <1>2, StartCall, Moves DEF StopsDriver, DriverStops, Launching
<1> QED
  BY <1>1, <1>2

Recloses(a, n, then) ==
  /\ ~ remote /\ context # None /\ UNCHANGED session
  /\ at'[a] = [pc |-> "reclose", name |-> n, then |-> then, via |-> context]

LEMMA ReconnectsStep ==
  ASSUME TypeOK, NEW a \in Agents, NEW n, NEW then, Request(n, then), Reconnects(a, n, then)
  PROVE  /\ at' \in [Agents -> Calls] /\ \A b \in Agents : b # a => at'[b] = at[b]
         /\ tabs' = <<>> /\ Began(a)
         /\ Recloses(a, n, then) \/ ((remote \/ context = None) /\ DriverStops(a, n, then))
<1>1. CASE ~ remote /\ context # None
  <2>1. [pc |-> "reclose", name |-> n, then |-> then, via |-> context] \in Calls
    BY <1>1, StartCall, FieldTypes
  <2> QED
    BY <1>1, <2>1, Moves DEF Reconnects, Recloses
<1>2. CASE ~ (~ remote /\ context # None)
  BY <1>2, StopsStep DEF Reconnects, TypeOK
<1> QED
  BY <1>1, <1>2

-----------------------------------------------------------------------------
Fields ==
  /\ remote \in BOOLEAN /\ launched \in BOOLEAN
  /\ used \in [drivers : 0 .. MaxDrivers, pages : 0 .. MaxPages]
  /\ alive \subseteq running /\ running \subseteq 1 .. used.drivers
  /\ playwright \in running \cup {None} /\ context \in 0 .. used.drivers
  /\ failures \in Nat /\ overlaps \in Nat /\ unlisted \subseteq Pages
OpenPages ==
  /\ open \subseteq Pages /\ \A p \in open : p[1] <= used.pages
  /\ \A p, q \in open : p[1] = q[1] => p = q
Parts == Fields /\ OpenPages /\ Listing(tabs) /\ at \in [Agents -> Calls]

LEMMA PartsType == Parts <=> TypeOK
  BY DEF Parts, Fields, OpenPages, Listing, Distinct, TypeOK

LEMMA NoTabs == Listing(<<>>) /\ Range(<<>>) = {} /\ Len(<<>>) = 0
  BY DEF Listing, Distinct, Range

LEMMA TypeStart == ASSUME Init PROVE TypeOK
<1>1. used \in [drivers : 0 .. MaxDrivers, pages : 0 .. MaxPages] /\ used.drivers = 0 /\ used.pages = 0
  BY Numbers DEF Init
<1> Fields
  <2>1. remote \in BOOLEAN /\ launched \in BOOLEAN
    BY DEF Init
  <2>2. playwright \in running \cup {None} /\ context \in 0 .. used.drivers
    BY <1>1 DEF Init, None
  <2>3. alive \subseteq running /\ running \subseteq 1 .. used.drivers /\ unlisted \subseteq Pages
    BY DEF Init
  <2> QED
    BY <1>1, <2>1, <2>2, <2>3 DEF Init, Fields
<1> OpenPages
  BY <1>1 DEF Init, OpenPages
<1>2. at \in [Agents -> Calls]
  BY DEF Init, Idle, Calls
<1> QED
  BY <1>2, NoTabs, PartsType DEF Init, Parts

LEMMA BeganTypes == ASSUME TypeOK, NEW a \in Agents, Began(a) PROVE overlaps' \in Nat
  BY DEF Began, TypeOK

(* Leaves a call, or goes nowhere. *)
LEMMA Rests == Idle \in Calls
  BY DEF Calls

LEMMA SessionTypes ==
  ASSUME TypeOK, NEW a \in Agents, NEW n, NEW then, Recloses(a, n, then) \/ DriverStops(a, n, then)
  PROVE  launched' \in BOOLEAN /\ playwright' \in running \cup {None} /\ context' \in 0 .. used.drivers
<1>1. used.drivers \in Nat
  BY FieldTypes
<1>2. launched \in BOOLEAN /\ playwright \in running \cup {None} /\ context \in 0 .. used.drivers
  BY DEF TypeOK
<1>3. CASE Recloses(a, n, then)
  BY <1>2, <1>3 DEF Recloses, session
<1>4. CASE DriverStops(a, n, then)
  <2>1. context' = 0 /\ 0 \in 0 .. used.drivers
    BY <1>1, <1>4 DEF DriverStops, None
  <2>2. playwright' \in {playwright, None} /\ launched' \in {launched, FALSE}
    BY <1>4 DEF DriverStops
  <2> QED
    BY <1>2, <2>1, <2>2
<1> QED
  BY <1>3, <1>4

Downloads ==
  \/ \E n \in Names : Download(n)
  \/ \E i \in DOMAIN downloads : DownloadBegins(i) \/ DownloadEnds(i)

LEMMA ListedTabs == ASSUME NEW ts, Listing(ts) PROVE Range(ts) \subseteq Tabs
<1>1. \A i \in 1 .. Len(ts) : ts[i] \in Tabs
  BY DEF Listing
<1>2. DOMAIN ts = 1 .. Len(ts)
  BY DEF Listing
<1> QED
  BY <1>1, <1>2 DEF Range

LEMMA Wider == ASSUME NEW n \in Nat, NEW i \in 1 .. n PROVE i \in 0 .. n
  OBVIOUS

LEMMA NamesListed == ASSUME TypeOK PROVE AllNames \in Seq(Names)
<1>1. tabs \in Seq(Tabs)
  BY DEF TypeOK
<1>2. \A i \in 1 .. Len(tabs) : tabs[i] \in Tabs
  BY <1>1
<1>3. \A i \in 1 .. Len(tabs) : tabs[i].name \in Names
  BY <1>2 DEF Tabs
<1> QED
  BY <1>1, <1>3 DEF AllNames

LEMMA TypeStep == ASSUME TypeOK, [Next]_vars PROVE TypeOK'
<1>0. Parts /\ Listing(tabs)
  BY PartsType DEF Parts
<1> SUFFICES Fields' /\ OpenPages' /\ Listing(tabs') /\ at' \in [Agents -> Calls]
  BY DEF Fields, OpenPages, Listing, Distinct, TypeOK
<1>1. ASSUME NEW a \in Agents, NEW n \in Names, Get(a, n)
      PROVE  Fields' /\ OpenPages' /\ Listing(tabs') /\ at' \in [Agents -> Calls]
  <2>1. Fields'
    BY <1>0, <1>1, BeganTypes DEF Get, Parts, Fields, session
  <2>2. OpenPages'
    BY <1>0, <1>1 DEF Get, Parts, OpenPages
  <2>3. CASE IsOpen
    <3>1. Looked(a, n, context)
      BY <1>1, <2>3, FieldTypes, HasLooked DEF Get
    <3> QED
      BY <1>0, <2>1, <2>2, <3>1 DEF Looked, RoomMade
  <2>4. CASE ~ IsOpen
    <3>1. [pc |-> "start", name |-> n, then |-> "get"] \in Calls
      BY StartCall DEF Request
    <3> QED
      BY <1>0, <1>1, <2>1, <2>2, <2>4, <3>1, Moves DEF Get, Launching
  <2> QED
    BY <2>3, <2>4
<1>2. ASSUME NEW a \in Agents, Probed(a)
      PROVE  Fields' /\ OpenPages' /\ Listing(tabs') /\ at' \in [Agents -> Calls]
  <2>1. Fields'
    BY <1>0, <1>2 DEF Probed, Parts, Fields, session
  <2>2. OpenPages'
    BY <1>0, <1>2 DEF Probed, Parts, OpenPages
  <2>3. at' \in [Agents -> Calls]
    BY <1>2, Rests, Moves DEF Probed
  <2> QED
    BY <1>0, <1>2, <2>1, <2>2, <2>3 DEF Probed, Parts
<1>3. ASSUME NEW a \in Agents, ProbeFails(a)
      PROVE  Fields' /\ OpenPages' /\ Listing(tabs') /\ at' \in [Agents -> Calls]
  <2>1. at[a].name \in Names /\ context \in 0 .. MaxDrivers
    BY <1>3, CallFields, FieldTypes DEF ProbeFails
  <2>2. Listing(Without(tabs, at[a].name))
    BY <1>0, WithoutLists
  <2>3. RoomMade(a, at[a].name, Without(tabs, at[a].name), context)
    BY <1>3, <2>1, <2>2, RoomIsMade DEF ProbeFails
  <2>4. PagesOf(tabs, at[a].name) \subseteq Pages
    <3>1. Range(tabs) \subseteq Tabs
      BY <1>0 DEF Listing, Range
    <3> QED
      BY <3>1 DEF PagesOf, Tabs
  <2>5. Fields'
    BY <1>0, <1>3, <2>4 DEF ProbeFails, Parts, Fields, session
  <2>6. OpenPages'
    BY <1>0, <1>3 DEF ProbeFails, Parts, OpenPages
  <2> QED
    BY <2>3, <2>5, <2>6 DEF RoomMade
<1>4. ASSUME NEW a \in Agents, Evicted(a)
      PROVE  Fields' /\ OpenPages' /\ Listing(tabs') /\ at' \in [Agents -> Calls]
  <2>1. Opening(at[a].name, context, TRUE) \in Calls
    BY <1>4, CallFields, FieldTypes DEF Evicted, Opening, Calls
  <2>2. at' \in [Agents -> Calls]
    BY <1>4, <2>1, Moves DEF Evicted
  <2>3. Fields'
    BY <1>0, <1>4 DEF Evicted, Parts, Fields, session
  <2>4. OpenPages'
    BY <1>0, <1>4 DEF Evicted, Parts, OpenPages
  <2> QED
    BY <1>0, <1>4, <2>2, <2>3, <2>4 DEF Evicted
<1>5. ASSUME NEW a \in Agents, Opened(a)
      PROVE  Fields' /\ OpenPages' /\ Listing(tabs') /\ at' \in [Agents -> Calls]
  <2> DEFINE page == <<used.pages + 1, IF remote THEN None ELSE at[a].via>>
             tab == [name |-> at[a].name, page |-> page, via |-> at[a].via]
  <2>1. at[a].name \in Names /\ at[a].via \in 1 .. MaxDrivers
    BY <1>5, CallFields, FieldTypes DEF Opened
  <2>2. /\ used' = [used EXCEPT !.pages = @ + 1] /\ used.pages + 1 \in 1 .. MaxPages
        /\ used' \in [drivers : 0 .. MaxDrivers, pages : 0 .. MaxPages]
        /\ used'.pages = used.pages + 1 /\ used'.drivers = used.drivers /\ used.pages \in Nat
    <3>1. used' = [used EXCEPT !.pages = @ + 1] /\ used.pages < MaxPages
      BY <1>5 DEF Opened
    <3>2. used \in [drivers : 0 .. MaxDrivers, pages : 0 .. MaxPages] /\ used.pages \in Nat
      BY DEF TypeOK
    <3>3. used.pages + 1 \in 1 .. MaxPages
      BY <3>1, <3>2, Numbers
    <3> QED
      BY <3>1, <3>2, <3>3
  <2>3. page \in Pages /\ page[1] = used.pages + 1
    BY <2>1, <2>2, Numbers DEF Pages, None
  <2>4. tab \in Tabs
    BY <2>1, <2>3 DEF Tabs
  <2>5. Listing(tabs')
    BY <1>0, <1>5, <2>4, WithTabLists DEF Opened
  <2>6. PagesOf(tabs, at[a].name) \subseteq Pages
    <3>1. Range(tabs) \subseteq Tabs
      BY <1>0 DEF Listing, Range
    <3> QED
      BY <3>1 DEF PagesOf, Tabs
  <2>7. Fields'
    BY <1>0, <1>5, <2>2, <2>6 DEF Opened, Parts, Fields, session
  <2>8. OpenPages'
    <3>1. open' = open \cup {page}
      BY <1>5 DEF Opened
    <3>2. \A p \in open : p \in Pages /\ p[1] <= used.pages /\ p[1] \in Nat
      BY DEF TypeOK, Pages
    <3>3. \A p, q \in open : p[1] = q[1] => p = q
      BY DEF TypeOK
    <3>4. open' \subseteq Pages
      BY <2>3, <3>1, <3>2
    <3>5. \A p \in open' : p[1] <= used'.pages
      BY <2>2, <2>3, <3>1, <3>2
    <3>6. \A p, q \in open' : p[1] = q[1] => p = q
      BY <2>2, <2>3, <3>1, <3>2, <3>3
    <3> QED
      BY <3>4, <3>5, <3>6 DEF OpenPages
  <2>9. at' \in [Agents -> Calls]
    BY <1>5, Rests, Moves DEF Opened
  <2> QED
    BY <2>5, <2>7, <2>8, <2>9
<1>6. ASSUME NEW a \in Agents, OpenFails(a)
      PROVE  Fields' /\ OpenPages' /\ Listing(tabs') /\ at' \in [Agents -> Calls]
  <2>1. Request(at[a].name, "get again") /\ open' = open /\ used' = used
    BY <1>6, CallFields DEF OpenFails, Request
  <2>2. OpenPages'
    BY <1>0, <2>1 DEF Parts, OpenPages
  <2>3. CASE at[a].retry
    <3>1. Reconnects(a, at[a].name, "get again")
      BY <1>6, <2>3 DEF OpenFails
    <3>2. /\ at' \in [Agents -> Calls] /\ tabs' = <<>> /\ Began(a)
          /\ Recloses(a, at[a].name, "get again") \/ DriverStops(a, at[a].name, "get again")
      BY <2>1, <3>1, ReconnectsStep
    <3>3. Fields'
      BY <1>0, <1>6, <3>2, BeganTypes, SessionTypes DEF OpenFails, Parts, Fields
    <3> QED
      BY <2>2, <3>2, <3>3, NoTabs
  <2>4. CASE ~ at[a].retry
    <3>1. at' \in [Agents -> Calls] /\ tabs' = tabs
      BY <1>6, <2>4, Rests, Moves DEF OpenFails
    <3>2. Fields'
      BY <1>0, <1>6, <2>4 DEF OpenFails, Parts, Fields, session
    <3> QED
      BY <1>0, <2>2, <3>1, <3>2
  <2> QED
    BY <2>3, <2>4
<1>7. ASSUME NEW a \in Agents, Reconnect(a)
      PROVE  Fields' /\ OpenPages' /\ Listing(tabs') /\ at' \in [Agents -> Calls]
  <2>1. Request(NoName, "reconnect") /\ open' = open /\ used' = used
    BY <1>7 DEF Reconnect, Request
  <2>2. OpenPages'
    BY <1>0, <2>1 DEF Parts, OpenPages
  <2>3. /\ at' \in [Agents -> Calls] /\ tabs' = <<>> /\ Began(a)
        /\ Recloses(a, NoName, "reconnect") \/ DriverStops(a, NoName, "reconnect")
    BY <1>7, <2>1, ReconnectsStep DEF Reconnect
  <2>4. Fields'
    BY <1>0, <1>7, <2>3, BeganTypes, SessionTypes DEF Reconnect, Parts, Fields
  <2> QED
    BY <2>2, <2>3, <2>4, NoTabs
<1>8. ASSUME NEW a \in Agents, Reclosed(a)
      PROVE  Fields' /\ OpenPages' /\ Listing(tabs') /\ at' \in [Agents -> Calls]
  <2>1. Request(at[a].name, at[a].then)
    BY <1>8, CallFields DEF Reclosed, Request
  <2>2. at' \in [Agents -> Calls] /\ DriverStops(a, at[a].name, at[a].then)
    BY <1>8, <2>1, StopsStep DEF Reclosed
  <2>3. Fields'
    BY <1>0, <1>8, <2>2, SessionTypes DEF Reclosed, Parts, Fields
  <2>4. OpenPages'
    BY <1>0, <1>8 DEF Reclosed, Parts, OpenPages
  <2> QED
    BY <1>0, <1>8, <2>2, <2>3, <2>4 DEF Reclosed
<1>9. ASSUME NEW a \in Agents, Restopped(a)
      PROVE  Fields' /\ OpenPages' /\ Listing(tabs') /\ at' \in [Agents -> Calls]
  <2>1. Request(at[a].name, at[a].then)
    BY <1>9, CallFields DEF Restopped, Request
  <2>2. at' \in [Agents -> Calls]
    BY <1>9, <2>1, StartCall, Moves DEF Restopped, Launching
  <2>3. Fields'
    BY <1>0, <1>9 DEF Restopped, Stopped, Parts, Fields, None
  <2>4. OpenPages'
    BY <1>0, <1>9 DEF Restopped, Stopped, Parts, OpenPages
  <2> QED
    BY <1>0, <1>9, <2>2, <2>3, <2>4 DEF Restopped
<1>10. ASSUME NEW a \in Agents, Started(a)
      PROVE  Fields' /\ OpenPages' /\ Listing(tabs') /\ at' \in [Agents -> Calls]
  <2> DEFINE d == used.drivers + 1
  <2>1. Request(at[a].name, at[a].then) /\ d \in 1 .. MaxDrivers
    <3>1. Request(at[a].name, at[a].then)
      BY <1>10, CallFields DEF Started, Request
    <3>2. d <= MaxDrivers
      BY <1>10 DEF Started
    <3> QED
      BY <3>1, <3>2, FieldTypes, Numbers
  <2>2. at' \in [Agents -> Calls]
    BY <1>10, <2>1, StartCall, Moves DEF Started
  <2>3. /\ used' \in [drivers : 0 .. MaxDrivers, pages : 0 .. MaxPages]
        /\ used'.pages = used.pages /\ used'.drivers = d
    BY <1>10, <2>1, Numbers DEF Started, TypeOK
  <2>4. Fields'
    <3>1. used.drivers \in Nat /\ used'.drivers = used.drivers + 1
      BY <2>3, FieldTypes, Numbers
    <3>2. running' = running \cup {d} /\ playwright' = d
      BY <1>10 DEF Started
    <3>3. running' \subseteq 1 .. used'.drivers /\ context' \in 0 .. used'.drivers
      BY <1>0, <1>10, <3>1, <3>2 DEF Started, Parts, Fields
    <3> QED
      BY <1>0, <1>10, <2>3, <3>2, <3>3 DEF Started, Parts, Fields
  <2>5. OpenPages'
    BY <1>0, <1>10, <2>3 DEF Started, Parts, OpenPages
  <2> QED
    BY <1>0, <1>10, <2>2, <2>4, <2>5 DEF Started
<1>11. ASSUME NEW a \in Agents, Connected(a)
      PROVE  Fields' /\ OpenPages' /\ Listing(tabs') /\ at' \in [Agents -> Calls]
  <2> DEFINE d == at[a].via
             n == at[a].name
  <2>1. d \in 1 .. MaxDrivers /\ d \in running /\ at[a].then \in {"get", "reconnect", "get again"}
        /\ (at[a].then # "reconnect" => n \in Names)
    BY <1>11, CallFields DEF Connected
  <2>2. d \in 0 .. used.drivers
    <3>1. running \subseteq 1 .. used.drivers /\ used.drivers \in Nat
      BY FieldTypes DEF TypeOK
    <3>2. d \in 1 .. used.drivers
      BY <2>1, <3>1
    <3> QED
      BY <3>1, <3>2, Wider
  <2>3. open' = open /\ used' = used
    BY <1>11 DEF Connected
  <2>4. OpenPages'
    BY <1>0, <2>3 DEF Parts, OpenPages
  <2>5. unlisted' = unlisted \/ unlisted' = unlisted \cup (IF remote THEN open ELSE {})
    BY <1>11, <2>1 DEF Connected
  <2>6. Fields'
    <3>1. unlisted' \subseteq Pages
      BY <2>5 DEF TypeOK
    <3> QED
      BY <1>0, <1>11, <2>1, <2>2, <2>3, <3>1 DEF Connected, Parts, Fields
  <2>7. CASE at[a].then = "get"
    <3>1. Looked(a, n, d)
      BY <1>11, <2>1, <2>7, Numbers, HasLooked DEF Connected
    <3> QED
      BY <1>0, <2>4, <2>6, <3>1 DEF Looked, RoomMade
  <2>8. CASE at[a].then = "reconnect"
    <3>1. Listing(tabs')
      BY <1>11, <2>1, <2>8, AdoptsLists DEF Connected
    <3>2. at' \in [Agents -> Calls]
      BY <1>11, <2>8, Rests, Moves DEF Connected
    <3> QED
      BY <2>4, <2>6, <3>1, <3>2
  <2>9. CASE at[a].then = "get again"
    <3>1. Listing(tabs')
      BY <1>11, <2>1, <2>9, AdoptsLists DEF Connected
    <3>2. Opening(n, d, FALSE) \in Calls
      <4>1. n \in Names /\ d \in 0 .. MaxDrivers
        BY <2>1, <2>9, Numbers, Wider
      <4> QED
        BY <4>1 DEF Opening, Calls
    <3>3. at' \in [Agents -> Calls]
      BY <1>11, <2>9, <3>2, Moves DEF Connected
    <3> QED
      BY <2>4, <2>6, <3>1, <3>3
  <2> QED
    BY <2>1, <2>7, <2>8, <2>9
<1>12. ASSUME NEW a \in Agents, ConnectFails(a)
      PROVE  Fields' /\ OpenPages' /\ Listing(tabs') /\ at' \in [Agents -> Calls]
  <2>1. Opening(at[a].name, context, FALSE) \in Calls \/ at[a].then # "get again"
    BY <1>12, CallFields, FieldTypes DEF ConnectFails, Opening, Calls
  <2>2. at' \in [Agents -> Calls]
    BY <1>12, <2>1, Rests, Moves DEF ConnectFails
  <2>3. Fields'
    <3>1. failures' \in Nat
      <4>1. failures' = failures + 1 \/ failures' = failures
        BY <1>12 DEF ConnectFails
      <4>2. failures \in Nat
        BY DEF TypeOK
      <4> QED
        BY <4>1, <4>2
    <3> QED
      BY <1>0, <1>12, <3>1 DEF ConnectFails, Parts, Fields, session
  <2>4. OpenPages'
    BY <1>0, <1>12 DEF ConnectFails, Parts, OpenPages
  <2> QED
    BY <1>0, <1>12, <2>2, <2>3, <2>4 DEF ConnectFails
<1>13. ASSUME NEW a \in Agents, NEW n, CloseTab(a, n)
      PROVE  Fields' /\ OpenPages' /\ Listing(tabs') /\ at' \in [Agents -> Calls]
  <2>1. TabOf(tabs, n) \in Tabs
    BY <1>0, <1>13, TheTab DEF CloseTab
  <2>2. [pc |-> "closetab", page |-> TabOf(tabs, n).page, via |-> TabOf(tabs, n).via] \in Calls
    BY <2>1 DEF Calls, Tabs
  <2>3. at' \in [Agents -> Calls]
    BY <1>13, <2>2, Moves DEF CloseTab
  <2>4. Fields'
    BY <1>0, <1>13 DEF CloseTab, Parts, Fields, session
  <2>5. OpenPages'
    BY <1>0, <1>13 DEF CloseTab, Parts, OpenPages
  <2>6. Listing(tabs')
    BY <1>0, <1>13, WithoutLists DEF CloseTab
  <2> QED
    BY <2>3, <2>4, <2>5, <2>6
<1>14. ASSUME NEW a \in Agents, TabClosed(a)
      PROVE  Fields' /\ OpenPages' /\ Listing(tabs') /\ at' \in [Agents -> Calls]
  <2>1. at' \in [Agents -> Calls]
    BY <1>14, Rests, Moves DEF TabClosed
  <2>2. Fields'
    BY <1>0, <1>14 DEF TabClosed, Parts, Fields, session
  <2>3. OpenPages'
    BY <1>0, <1>14 DEF TabClosed, Parts, OpenPages
  <2> QED
    BY <1>0, <1>14, <2>1, <2>2, <2>3 DEF TabClosed
<1>15. ASSUME NEW a \in Agents, Close(a)
      PROVE  Fields' /\ OpenPages' /\ Listing(tabs') /\ at' \in [Agents -> Calls]
  <2>1. Fields'
    BY <1>0, <1>15, BeganTypes DEF Close, Parts, Fields, session
  <2>2. OpenPages'
    BY <1>0, <1>15 DEF Close, Parts, OpenPages
  <2>3. CASE ~ remote /\ context # None
    <3>1. [pc |-> "saving"] \in Calls
      BY DEF Calls
    <3>2. at' \in [Agents -> Calls] /\ tabs' = tabs
      BY <1>15, <2>3, <3>1, Moves DEF Close
    <3> QED
      BY <1>0, <2>1, <2>2, <3>2
  <2>4. CASE ~ (~ remote /\ context # None)
    <3>1. Emptying(a)
      BY <1>15, <2>4, NamesListed, NextEmpties DEF Close
    <3> QED
      BY <1>0, <2>1, <2>2, <3>1 DEF Emptying, LeavesTabs, TakesTab
  <2> QED
    BY <2>3, <2>4
<1>16. ASSUME NEW a \in Agents, Saved(a)
      PROVE  Fields' /\ OpenPages' /\ Listing(tabs') /\ at' \in [Agents -> Calls]
  <2>1. AllNames \in Seq(Names)
    BY <1>16, CallFields, NamesListed DEF Saved
  <2>2. Emptying(a)
    BY <1>16, <2>1, NextEmpties DEF Saved
  <2>3. Fields'
    BY <1>0, <1>16 DEF Saved, Parts, Fields, session
  <2>4. OpenPages'
    BY <1>0, <1>16 DEF Saved, Parts, OpenPages
  <2> QED
    BY <1>0, <2>2, <2>3, <2>4 DEF Emptying, LeavesTabs, TakesTab
<1>17. ASSUME NEW a \in Agents, Emptied(a)
      PROVE  Fields' /\ OpenPages' /\ Listing(tabs') /\ at' \in [Agents -> Calls]
  <2>1. at[a].names \in Seq(Names)
    BY <1>17, CallFields, NamesListed DEF Emptied
  <2>2. Emptying(a)
    BY <1>17, <2>1, NextEmpties DEF Emptied
  <2>3. Fields'
    BY <1>0, <1>17 DEF Emptied, Parts, Fields, session
  <2>4. OpenPages'
    BY <1>0, <1>17 DEF Emptied, Parts, OpenPages
  <2> QED
    BY <1>0, <2>2, <2>3, <2>4 DEF Emptying, LeavesTabs, TakesTab
<1>18. ASSUME NEW a \in Agents, Downed(a)
      PROVE  Fields' /\ OpenPages' /\ Listing(tabs') /\ at' \in [Agents -> Calls]
  <2>1. [pc |-> "stopping", via |-> playwright] \in Calls
    BY FieldTypes DEF Calls
  <2>2. at' \in [Agents -> Calls]
    BY <1>18, <2>1, Moves DEF Downed
  <2>3. Fields'
    BY <1>0, <1>18 DEF Downed, Parts, Fields, session
  <2>4. OpenPages'
    BY <1>0, <1>18 DEF Downed, Parts, OpenPages
  <2> QED
    BY <1>0, <1>18, <2>2, <2>3, <2>4 DEF Downed
<1>19. ASSUME NEW a \in Agents, Closed(a)
      PROVE  Fields' /\ OpenPages' /\ Listing(tabs') /\ at' \in [Agents -> Calls]
  <2>1. at' \in [Agents -> Calls]
    BY <1>19, Rests, Moves DEF Closed
  <2>2. Fields'
    <3>1. 0 \in 0 .. used.drivers
      BY FieldTypes
    <3>2. running' = running \ {at[a].via} /\ alive' = alive \ {at[a].via}
      BY <1>19 DEF Closed, Stopped
    <3>3. playwright' = 0 /\ context' = 0 /\ launched' = FALSE
      BY <1>19 DEF Closed, None
    <3> QED
      BY <1>0, <1>19, <3>1, <3>2, <3>3 DEF Closed, Parts, Fields, None
  <2>3. OpenPages'
    BY <1>0, <1>19 DEF Closed, Stopped, Parts, OpenPages
  <2> QED
    BY <1>0, <1>19, <2>1, <2>2, <2>3 DEF Closed
<1>20. ASSUME Outside
      PROVE  Fields' /\ OpenPages' /\ Listing(tabs') /\ at' \in [Agents -> Calls]
  <2>1. Fields'
    BY <1>0, <1>20 DEF Outside, BrowserDies, PageCloses, Parts, Fields, session
  <2>2. OpenPages'
    BY <1>0, <1>20 DEF Outside, BrowserDies, PageCloses, Parts, OpenPages
  <2> QED
    BY <1>0, <1>20, <2>1, <2>2 DEF Outside, BrowserDies, PageCloses, Parts
<1>21. ASSUME Downloads
      PROVE  Fields' /\ OpenPages' /\ Listing(tabs') /\ at' \in [Agents -> Calls]
  <2>1. Fields'
    BY <1>0, <1>21 DEF Downloads, Download, DownloadBegins, DownloadEnds, Parts, Fields, session
  <2>2. OpenPages'
    BY <1>0, <1>21 DEF Downloads, Download, DownloadBegins, DownloadEnds, Parts, OpenPages
  <2> QED
    BY <1>0, <1>21, <2>1, <2>2 DEF Downloads, Download, DownloadBegins, DownloadEnds, Parts
<1>22. CASE UNCHANGED vars
  BY <1>0, <1>22 DEF vars, session, Parts, Fields, OpenPages
<1>23. \A t \in Range(tabs) : t.name \in Names
  BY <1>0, ListedTabs DEF Tabs
<1> QED
  BY <1>1, <1>2, <1>3, <1>4, <1>5, <1>6, <1>7, <1>8, <1>9, <1>10, <1>11, <1>12, <1>13, <1>14, <1>15, <1>16, <1>17, <1>18, <1>19, <1>20, <1>21, <1>22, <1>23 DEF Next, Call, Resume, Downloads, Names

-----------------------------------------------------------------------------
(* While no call has begun amid another's launch, reconnect or close: one    *)
(* call at a time, at work on the session's own driver, of which alone the   *)
(* browser can be up.                                                        *)

Active(a) == at[a].pc \in Lifecycle
CallAgrees(a) ==
  /\ at[a].pc \in {"restop", "start", "connect"} => context = None
  /\ at[a].pc \in {"restop", "connect", "stopping"} => at[a].via = playwright
  /\ at[a].pc \in {"start", "connect"} => ~ launched /\ alive = {}
  /\ at[a].pc = "connect" /\ ~ remote => \A p \in open : p[2] # at[a].via
OneDriver ==
  /\ \A a, b \in Agents : Active(a) /\ Active(b) => a = b
  /\ \A a \in Agents : CallAgrees(a)
  /\ context # None => context = playwright
  /\ alive \subseteq {playwright}
  /\ Steady => (launched <=> context # None) /\ (context = None => alive = {})
SessionInv ==
  /\ overlaps = 0 => OneDriver
  /\ \A p \in open : p[2] <= used.drivers

(* A call that is none of these leaves the driver alone. *)
LEMMA Aside ==
  ASSUME TypeOK, SessionInv, UNCHANGED <<session, remote, overlaps, used>>, alive' \subseteq alive,
         \A b \in Agents : at'[b] = at[b] \/ (~ Active(b) /\ at'[b].pc \notin Lifecycle),
         open' \subseteq open
  PROVE  SessionInv'
<1> SUFFICES ASSUME overlaps = 0 PROVE OneDriver'
  BY DEF SessionInv
<1>1. OneDriver
  BY DEF SessionInv
<1>2. \A b \in Agents : Active(b) <=> (Active(b))'
  BY DEF Active
<1>3. ASSUME NEW b \in Agents PROVE (CallAgrees(b))'
  <2>1. CASE at'[b] = at[b]
    BY <1>1, <2>1 DEF OneDriver, CallAgrees, session
  <2>2. CASE at'[b].pc \notin Lifecycle
    BY <2>2 DEF CallAgrees, Lifecycle
  <2> QED
    BY <2>1, <2>2
<1>4. Steady <=> Steady'
  BY <1>2 DEF Steady, Active
<1>5. /\ context # None => context = playwright
      /\ alive \subseteq {playwright}
      /\ Steady => (launched <=> context # None) /\ (context = None => alive = {})
  BY <1>1 DEF OneDriver
<1>6. \A x, y \in Agents : (Active(x))' /\ (Active(y))' => x = y
  BY <1>1, <1>2 DEF OneDriver
<1> QED
  BY <1>3, <1>4, <1>5, <1>6 DEF OneDriver, session

(* A call that begins while overlaps stays 0 begins alone. *)
LEMMA BeginsAlone ==
  ASSUME TypeOK, SessionInv, NEW a \in Agents, Began(a), overlaps' = 0
  PROVE  /\ overlaps = 0 /\ OneDriver
         /\ \A b \in Agents : b # a => ~ Active(b)
<1>1. overlaps \in Nat
  BY DEF TypeOK
<1>2. ~ Busy(a) /\ overlaps = 0
  BY <1>1 DEF Began
<1> QED
  BY <1>2 DEF Busy, Active, SessionInv

(* Of one active call, nobody else is active. *)
LEMMA OnlyOne ==
  ASSUME SessionInv, overlaps = 0, NEW a \in Agents, Active(a)
  PROVE  OneDriver /\ CallAgrees(a) /\ \A b \in Agents : b # a => ~ Active(b)
  BY DEF SessionInv, OneDriver

(* If nobody else is active, the rest is about the call itself. *)
LEMMA Alone ==
  ASSUME NEW a \in Agents, \A b \in Agents : b # a => ~ Active(b) /\ at'[b] = at[b],
         (CallAgrees(a))', context' # None => context' = playwright', alive' \subseteq {playwright'},
         at'[a].pc \notin Lifecycle => (launched' <=> context' # None) /\ (context' = None => alive' = {})
  PROVE  OneDriver'
<1>1. \A b \in Agents : b # a => at'[b].pc \notin Lifecycle
  BY DEF Active
<1>2. \A b \in Agents : (CallAgrees(b))'
  BY <1>1 DEF CallAgrees, Lifecycle
<1>3. \A x, y \in Agents : (Active(x))' /\ (Active(y))' => x = y
  BY <1>1 DEF Active
<1>4. Steady' => at'[a].pc \notin Lifecycle
  BY DEF Steady
<1> QED
  BY <1>2, <1>3, <1>4 DEF OneDriver

LEMMA SessionStart == ASSUME Init PROVE SessionInv
<1>1. Steady
  BY DEF Init, Steady, Idle, Lifecycle
<1>2. \A a \in Agents : ~ Active(a) /\ CallAgrees(a)
  BY DEF Init, Active, CallAgrees, Idle, Lifecycle
<1> QED
  BY <1>1, <1>2 DEF Init, SessionInv, OneDriver, None

LEMMA NoDriver == ASSUME TypeOK PROVE None \notin alive /\ None \notin running
  BY DEF TypeOK, None

(* Stopping the driver of a session that nobody else is at work on. *)
LEMMA StopsAlone ==
  ASSUME TypeOK, NEW a \in Agents, \A b \in Agents : b # a => ~ Active(b) /\ at'[b] = at[b],
         NEW n, NEW then, DriverStops(a, n, then), alive' \subseteq alive, alive \subseteq {playwright}
  PROVE  OneDriver'
<1>1. CASE playwright # None /\ playwright' = playwright
            /\ at'[a] = [pc |-> "restop", name |-> n, then |-> then, via |-> playwright]
  <2>1. at'[a].pc = "restop" /\ at'[a].via = playwright /\ context' = None
    BY <1>1 DEF DriverStops
  <2>2. (CallAgrees(a))'
    BY <1>1, <2>1 DEF CallAgrees
  <2> QED
    BY <1>1, <2>1, <2>2, Alone DEF Lifecycle
<1>2. CASE playwright = None /\ playwright' = None /\ launched' = FALSE
            /\ at'[a] = [pc |-> "start", name |-> n, then |-> then]
  <2>1. at'[a].pc = "start" /\ context' = None
    BY <1>2 DEF DriverStops
  <2>2. alive' = {}
    BY <1>2, NoDriver
  <2>3. (CallAgrees(a))'
    BY <1>2, <2>1, <2>2 DEF CallAgrees
  <2> QED
    BY <1>2, <2>1, <2>2, <2>3, Alone DEF Lifecycle
<1> QED
  BY <1>1, <1>2 DEF DriverStops

(* A reconnect that begins alone. *)
LEMMA ReconnectAlone ==
  ASSUME TypeOK, SessionInv, NEW a \in Agents, ~ Active(a), NEW n, NEW then, Request(n, then),
         Reconnects(a, n, then), UNCHANGED <<remote, alive, open, used>>
  PROVE  SessionInv'
<1> SUFFICES ASSUME overlaps' = 0 PROVE OneDriver'
  BY DEF SessionInv
<1>1. /\ Began(a) /\ \A b \in Agents : b # a => at'[b] = at[b]
      /\ Recloses(a, n, then) \/ DriverStops(a, n, then)
  BY ReconnectsStep
<1>2. OneDriver /\ \A b \in Agents : b # a => ~ Active(b)
  BY <1>1, BeginsAlone
<1>3. /\ context # None => context = playwright
      /\ alive \subseteq {playwright}
  BY <1>2 DEF OneDriver
<1>4. CASE Recloses(a, n, then)
  <2>1. at'[a].pc = "reclose" /\ UNCHANGED session
    BY <1>4 DEF Recloses
  <2>2. (CallAgrees(a))'
    BY <2>1 DEF CallAgrees
  <2> QED
    BY <1>1, <1>2, <1>3, <2>1, <2>2, Alone DEF Lifecycle, session
<1>5. CASE DriverStops(a, n, then)
  BY <1>1, <1>2, <1>3, <1>5, StopsAlone
<1> QED
  BY <1>1, <1>4, <1>5

-----------------------------------------------------------------------------
(* The steps, in three kinds: those that leave the driver and the launches   *)
(* alone, those of a launch, a reconnect or a close, and the rest.           *)

Minor(a) ==
  \/ ((\E n \in Names : Get(a, n)) /\ IsOpen)
  \/ Probed(a) \/ ProbeFails(a) \/ Evicted(a) \/ Opened(a) \/ (OpenFails(a) /\ ~ at[a].retry)
  \/ (\E n \in Names : CloseTab(a, n)) \/ TabClosed(a)
Major(a) ==
  \/ ((\E n \in Names : Get(a, n)) /\ ~ IsOpen)
  \/ Reconnect(a) \/ (OpenFails(a) /\ at[a].retry) \/ Close(a)
  \/ Reclosed(a) \/ Restopped(a) \/ Started(a) \/ Connected(a) \/ ConnectFails(a)
  \/ Saved(a) \/ Emptied(a) \/ Downed(a) \/ Closed(a)

LEMMA Kinds ==
  ASSUME TypeOK, [Next]_vars
  PROVE  (\E a \in Agents : Minor(a) \/ Major(a)) \/ Downloads \/ Outside \/ UNCHANGED vars
<1>1. \A t \in Range(tabs) : t.name \in Names
  BY TabsList, ListedTabs DEF Tabs
<1>2. ASSUME NEW a \in Agents, Call(a) PROVE Minor(a) \/ Major(a)
  <2>1. CASE \E n \in Names : Get(a, n)
    BY <2>1 DEF Minor, Major
  <2>2. CASE \E n \in Names : CloseTab(a, n)
    BY <2>2 DEF Minor
  <2>3. (\E n \in Names : Get(a, n)) \/ (\E n \in Names : CloseTab(a, n)) \/ Reconnect(a) \/ Close(a)
    BY <1>1, <1>2 DEF Call, Names
  <2> QED
    BY <2>1, <2>2, <2>3 DEF Major
<1>3. ASSUME NEW a \in Agents, Resume(a) PROVE Minor(a) \/ Major(a)
  BY <1>3 DEF Resume, Minor, Major
<1> QED
  BY <1>2, <1>3 DEF Next, Downloads

LEMMA Went ==
  ASSUME TypeOK, NEW a \in Agents, NEW r, Goes(a, r)
  PROVE  at'[a] = r /\ \A b \in Agents : b # a => at'[b] = at[b]
  BY DEF TypeOK, Goes

LEMMA LooksOn ==
  ASSUME TypeOK, NEW a \in Agents, NEW n \in Names, NEW c \in 0 .. MaxDrivers, Looked(a, n, c)
  PROVE  /\ at'[a].pc \in {"probe", "evict", "open"} /\ \A b \in Agents : b # a => at'[b] = at[b]
<1>1. CASE RoomMade(a, n, tabs, c)
  BY <1>1 DEF RoomMade, EvictOf, Opening
<1>2. CASE (\E t \in Range(tabs) : at'[a] = ProbeOf(n, t)) /\ \A b \in Agents : b # a => at'[b] = at[b]
  BY <1>2 DEF ProbeOf
<1> QED
  BY <1>1, <1>2 DEF Looked

LEMMA Minors ==
  ASSUME TypeOK, NEW a \in Agents, Minor(a)
  PROVE  /\ UNCHANGED <<remote, running, alive, session, downloads, failures, overlaps>>
         /\ used'.drivers = used.drivers /\ (~ Opened(a) => used' = used /\ open' \subseteq open)
         /\ at[a].pc \notin Lifecycle /\ at'[a].pc \notin Lifecycle
         /\ \A b \in Agents : b # a => at'[b] = at[b]
<1>1. CASE (\E n \in Names : Get(a, n)) /\ IsOpen
  <2>1. PICK n \in Names : Get(a, n) /\ IsOpen
    BY <1>1
  <2>2. Looked(a, n, context)
    BY <2>1, FieldTypes, HasLooked DEF Get
  <2>3. at'[a].pc \notin Lifecycle /\ \A b \in Agents : b # a => at'[b] = at[b]
    BY <2>2, FieldTypes, LooksOn DEF Lifecycle
  <2> QED
    BY <2>1, <2>3 DEF Get, Idle, Lifecycle
<1>2. CASE Probed(a)
  BY <1>2, Went DEF Probed, Idle, Lifecycle
<1>3. CASE ProbeFails(a)
  <2>1. at[a].name \in Names /\ context \in 0 .. MaxDrivers
    BY <1>3, CallFields, FieldTypes DEF ProbeFails
  <2>2. RoomMade(a, at[a].name, Without(tabs, at[a].name), context)
    BY <1>3, <2>1, TabsList, WithoutLists, RoomIsMade DEF ProbeFails
  <2>3. at'[a].pc \notin Lifecycle /\ \A b \in Agents : b # a => at'[b] = at[b]
    BY <2>2 DEF RoomMade, EvictOf, Opening, Lifecycle
  <2> QED
    BY <1>3, <2>3 DEF ProbeFails, Lifecycle
<1>4. CASE Evicted(a)
  BY <1>4, Went DEF Evicted, Opening, Lifecycle
<1>5. CASE Opened(a)
  <2>1. used'.drivers = used.drivers
    BY <1>5 DEF Opened, TypeOK
  <2> QED
    BY <1>5, <2>1, Went DEF Opened, Idle, Lifecycle
<1>6. CASE OpenFails(a) /\ ~ at[a].retry
  BY <1>6, Went DEF OpenFails, Idle, Lifecycle, session
<1>7. CASE \E n \in Names : CloseTab(a, n)
  BY <1>7, Went DEF CloseTab, Idle, Lifecycle
<1>8. CASE TabClosed(a)
  BY <1>8, Went DEF TabClosed, Idle, Lifecycle
<1> QED
  BY <1>1, <1>2, <1>3, <1>4, <1>5, <1>6, <1>7, <1>8 DEF Minor

(* What Outside and the downloads touch. *)
LEMMA Others ==
  ASSUME TypeOK, Downloads \/ Outside \/ UNCHANGED vars
  PROVE  /\ UNCHANGED <<remote, running, session, tabs, at, used, failures, overlaps, unlisted>>
         /\ alive' \subseteq alive /\ open' \subseteq open
<1>1. CASE Downloads
  BY <1>1 DEF Downloads, Download, DownloadBegins, DownloadEnds
<1>2. CASE Outside
  BY <1>2 DEF Outside, BrowserDies, PageCloses
<1>3. CASE UNCHANGED vars
  BY <1>3 DEF vars, session
<1> QED
  BY <1>1, <1>2, <1>3

-----------------------------------------------------------------------------
LEMMA OpenedSession ==
  ASSUME TypeOK, SessionInv, NEW a \in Agents, Opened(a)
  PROVE  SessionInv'
<1> DEFINE page == <<used.pages + 1, IF remote THEN None ELSE at[a].via>>
<1>1. /\ UNCHANGED <<remote, running, alive, session, overlaps>> /\ used'.drivers = used.drivers
      /\ at[a].pc \notin Lifecycle /\ at'[a].pc \notin Lifecycle
      /\ \A b \in Agents : b # a => at'[b] = at[b]
  BY Minors DEF Minor
<1>2. open' = open \cup {page} /\ at[a].via \in alive
  BY DEF Opened
<1>3. page[2] <= used.drivers
  <2>1. alive \subseteq 1 .. used.drivers /\ used.drivers \in Nat
    BY FieldTypes DEF TypeOK
  <2>2. at[a].via \in 1 .. used.drivers
    BY <1>2, <2>1
  <2>3. at[a].via <= used.drivers /\ 0 <= used.drivers
    BY <2>1, <2>2
  <2> QED
    BY <2>3 DEF None
<1>4. \A p \in open' : p[2] <= used'.drivers
  BY <1>1, <1>2, <1>3 DEF SessionInv
<1>5. ASSUME overlaps = 0 PROVE OneDriver'
  <2>1. OneDriver
    BY <1>5 DEF SessionInv
  <2>2. \A b \in Agents : Active(b) <=> (Active(b))'
    BY <1>1 DEF Active
  <2>3. ASSUME NEW b \in Agents PROVE (CallAgrees(b))'
    <3>1. CASE b = a
      BY <1>1, <3>1 DEF CallAgrees, Lifecycle
    <3>2. CASE b # a
      <4>1. at'[b] = at[b] /\ CallAgrees(b)
        BY <1>1, <2>1, <3>2 DEF OneDriver
      <4>2. at[b].pc # "connect"
        BY <1>2, <4>1 DEF CallAgrees
      <4> QED
        BY <1>1, <4>1, <4>2 DEF CallAgrees, session
    <3> QED
      BY <3>1, <3>2
  <2>4. Steady <=> Steady'
    BY <2>2 DEF Steady, Active
  <2>5. \A x, y \in Agents : (Active(x))' /\ (Active(y))' => x = y
    BY <2>1, <2>2 DEF OneDriver
  <2> QED
    BY <1>1, <2>1, <2>3, <2>4, <2>5 DEF OneDriver, session
<1> QED
  BY <1>1, <1>4, <1>5 DEF SessionInv

(* However it ends, the call is no launch any more. *)
LEMMA LeavesConnect ==
  ASSUME TypeOK, NEW a \in Agents, Connected(a) \/ ConnectFails(a)
  PROVE  at'[a].pc \notin Lifecycle /\ \A b \in Agents : b # a => at'[b] = at[b]
<1>1. CASE ConnectFails(a)
  <2>1. Goes(a, Idle) \/ Goes(a, Opening(at[a].name, context, FALSE))
    BY <1>1 DEF ConnectFails
  <2>2. Idle.pc \notin Lifecycle /\ Opening(at[a].name, context, FALSE).pc \notin Lifecycle
    BY DEF Idle, Opening, Lifecycle
  <2> QED
    BY <2>1, <2>2, Went
<1>2. CASE Connected(a)
  <2>1. at[a].pc = "connect" /\ at[a].via \in 1 .. MaxDrivers
    BY <1>2, CallFields DEF Connected
  <2>2. CASE at[a].then = "get"
    <3>1. at[a].name \in Names /\ at[a].via \in 0 .. MaxDrivers
      BY <2>1, <2>2, CallFields, Numbers, Wider
    <3>2. Looked(a, at[a].name, at[a].via)
      BY <1>2, <2>2, <3>1, HasLooked DEF Connected
    <3> QED
      BY <3>1, <3>2, LooksOn DEF Lifecycle
  <2>3. CASE at[a].then = "reconnect"
    BY <1>2, <2>3, Went DEF Connected, Idle, Lifecycle
  <2>4. CASE at[a].then = "get again"
    <3>1. Goes(a, Opening(at[a].name, at[a].via, FALSE))
      BY <1>2, <2>4 DEF Connected
    <3> QED
      BY <3>1, Went DEF Opening, Lifecycle
  <2> QED
    BY <2>1, <2>2, <2>3, <2>4, CallFields
<1> QED
  BY <1>1, <1>2

LEMMA SessionStep == ASSUME TypeOK, SessionInv, [Next]_vars PROVE SessionInv'
<1>0. used.drivers \in Nat /\ \A p \in open : p[2] <= used.drivers
  BY FieldTypes DEF SessionInv
<1>1. ASSUME NEW a \in Agents, Minor(a) PROVE SessionInv'
  <2>1. CASE Opened(a)
    BY <2>1, OpenedSession
  <2>2. CASE ~ Opened(a)
    BY <1>1, <2>2, Minors, Aside DEF Active
  <2> QED
    BY <2>1, <2>2
<1>2. ASSUME Downloads \/ Outside \/ UNCHANGED vars PROVE SessionInv'
  BY <1>2, Others, Aside
<1>3. ASSUME NEW a \in Agents, NEW n \in Names, Get(a, n), ~ IsOpen PROVE SessionInv'
  <2>1. /\ UNCHANGED <<remote, alive, session, open, used>> /\ Began(a)
        /\ at'[a] = [pc |-> "start", name |-> n, then |-> "get"]
        /\ \A b \in Agents : b # a => at'[b] = at[b]
    BY <1>3, Went DEF Get, Launching
  <2>2. ASSUME overlaps' = 0 PROVE OneDriver'
    <3>1. OneDriver /\ \A b \in Agents : b # a => ~ Active(b)
      BY <2>1, <2>2, BeginsAlone
    <3>2. ~ Active(a)
      BY <1>3 DEF Get, Idle, Active, Lifecycle
    <3>3. Steady
      BY <3>1, <3>2 DEF Steady, Active
    <3>4. context = None /\ ~ launched /\ alive = {}
      BY <1>3, <3>1, <3>3 DEF OneDriver, IsOpen
    <3>5. (CallAgrees(a))' /\ (context' # None => context' = playwright')
          /\ alive' \subseteq {playwright'} /\ at'[a].pc \in Lifecycle
      BY <2>1, <3>4 DEF CallAgrees, session, Lifecycle
    <3> QED
      BY <2>1, <3>1, <3>5, Alone
  <2> QED
    BY <1>0, <2>1, <2>2 DEF SessionInv
<1>4. ASSUME NEW a \in Agents, Reconnect(a) PROVE SessionInv'
  <2>1. ~ Active(a) /\ Request(NoName, "reconnect")
    BY <1>4 DEF Reconnect, Active, Idle, Lifecycle, Request
  <2> QED
    BY <1>4, <2>1, ReconnectAlone DEF Reconnect
<1>5. ASSUME NEW a \in Agents, OpenFails(a), at[a].retry PROVE SessionInv'
  <2>1. ~ Active(a) /\ Request(at[a].name, "get again")
    BY <1>5, CallFields DEF OpenFails, Active, Lifecycle, Request
  <2> QED
    BY <1>5, <2>1, ReconnectAlone DEF OpenFails
<1>6. ASSUME NEW a \in Agents, Close(a) PROVE SessionInv'
  <2>1. UNCHANGED <<remote, alive, session, open, used>> /\ Began(a)
    BY <1>6 DEF Close
  <2>2. /\ \A b \in Agents : b # a => at'[b] = at[b]
        /\ at'[a].pc \in {"saving", "emptying", "downing", "stopping"}
        /\ at'[a].pc = "stopping" => at'[a].via = playwright
    <3>1. CASE ~ remote /\ context # None
      BY <1>6, <3>1, Went DEF Close
    <3>2. CASE ~ (~ remote /\ context # None)
      <4>1. Emptying(a)
        BY <1>6, <3>2, NamesListed, NextEmpties DEF Close
      <4> QED
        BY <4>1 DEF Emptying, LeavesTabs, TakesTab
    <3> QED
      BY <3>1, <3>2
  <2>3. ASSUME overlaps' = 0 PROVE OneDriver'
    <3>1. OneDriver /\ \A b \in Agents : b # a => ~ Active(b)
      BY <2>1, <2>3, BeginsAlone
    <3>2. (CallAgrees(a))' /\ (context' # None => context' = playwright')
          /\ alive' \subseteq {playwright'} /\ at'[a].pc \in Lifecycle
      BY <2>1, <2>2, <3>1 DEF CallAgrees, OneDriver, session, Lifecycle
    <3> QED
      BY <2>2, <3>1, <3>2, Alone
  <2> QED
    BY <1>0, <2>1, <2>3 DEF SessionInv
<1>7. ASSUME NEW a \in Agents, Reclosed(a) PROVE SessionInv'
  <2>1. UNCHANGED <<remote, used, overlaps>> /\ alive' \subseteq alive /\ open' \subseteq open
        /\ Active(a)
    BY <1>7 DEF Reclosed, Active, Lifecycle
  <2>2. Request(at[a].name, at[a].then)
    BY <1>7, CallFields DEF Reclosed, Request
  <2>3. DriverStops(a, at[a].name, at[a].then) /\ \A b \in Agents : b # a => at'[b] = at[b]
    BY <1>7, <2>2, StopsStep DEF Reclosed
  <2>4. ASSUME overlaps = 0 PROVE OneDriver'
    <3>1. OneDriver /\ \A b \in Agents : b # a => ~ Active(b)
      BY <2>1, <2>4, OnlyOne
    <3> QED
      BY <2>1, <2>3, <3>1, StopsAlone DEF OneDriver
  <2> QED
    BY <1>0, <2>1, <2>4 DEF SessionInv
<1>8. ASSUME NEW a \in Agents, Restopped(a) PROVE SessionInv'
  <2>1. UNCHANGED <<remote, used, overlaps, context>> /\ open' \subseteq open
        /\ Active(a) /\ at[a].pc = "restop" /\ alive' = alive \ {at[a].via}
        /\ playwright' = None /\ ~ launched'
    BY <1>8 DEF Restopped, Stopped, Active, Lifecycle
  <2>2. /\ at'[a] = [pc |-> "start", name |-> at[a].name, then |-> at[a].then]
        /\ \A b \in Agents : b # a => at'[b] = at[b]
    BY <1>8, Went DEF Restopped, Launching
  <2>3. ASSUME overlaps = 0 PROVE OneDriver'
    <3>1. OneDriver /\ CallAgrees(a) /\ \A b \in Agents : b # a => ~ Active(b)
      BY <2>1, <2>3, OnlyOne
    <3>2. context = None /\ alive' = {}
      BY <2>1, <3>1 DEF CallAgrees, OneDriver
    <3>3. (CallAgrees(a))' /\ context' = None /\ at'[a].pc \in Lifecycle
      BY <2>1, <2>2, <3>2 DEF CallAgrees, Lifecycle
    <3> QED
      BY <2>2, <3>1, <3>2, <3>3, Alone
  <2> QED
    BY <1>0, <2>1, <2>3 DEF SessionInv
<1>9. ASSUME NEW a \in Agents, Started(a) PROVE SessionInv'
  <2> DEFINE d == used.drivers + 1
  <2>1. UNCHANGED <<remote, alive, context, launched, open, overlaps>> /\ playwright' = d
        /\ Active(a) /\ at[a].pc = "start"
    BY <1>9 DEF Started, Active, Lifecycle
  <2>2. /\ at'[a] = [pc |-> "connect", name |-> at[a].name, then |-> at[a].then, via |-> d]
        /\ \A b \in Agents : b # a => at'[b] = at[b]
    BY <1>9, Went DEF Started
  <2>3. used'.drivers = d
    BY <1>9 DEF Started, TypeOK
  <2>4. \A p \in open : p[2] # d /\ p[2] <= d
    <3>1. \A p \in open : p[2] \in Nat
      BY Numbers DEF TypeOK, Pages
    <3> QED
      BY <1>0, <3>1
  <2>5. ASSUME overlaps = 0 PROVE OneDriver'
    <3>1. OneDriver /\ CallAgrees(a) /\ \A b \in Agents : b # a => ~ Active(b)
      BY <2>1, <2>5, OnlyOne
    <3>2. context = None /\ alive = {} /\ ~ launched
      BY <2>1, <3>1 DEF CallAgrees
    <3>3. at'[a].pc = "connect" /\ at'[a].via = d
      BY <2>2
    <3>4. (CallAgrees(a))'
      BY <2>1, <2>4, <3>2, <3>3 DEF CallAgrees
    <3> QED
      BY <2>1, <2>2, <3>1, <3>2, <3>3, <3>4, Alone DEF Lifecycle
  <2> QED
    BY <2>1, <2>3, <2>4, <2>5 DEF SessionInv
<1>10. ASSUME NEW a \in Agents, Connected(a) PROVE SessionInv'
  <2> DEFINE d == at[a].via
  <2>1. UNCHANGED <<remote, playwright, open, used, overlaps>> /\ alive' = alive \cup {d}
        /\ context' = d /\ launched' = TRUE /\ Active(a) /\ at[a].pc = "connect"
    BY <1>10 DEF Connected, Active, Lifecycle
  <2>2. at'[a].pc \notin Lifecycle /\ \A b \in Agents : b # a => at'[b] = at[b]
    BY <1>10, LeavesConnect
  <2>3. ASSUME overlaps = 0 PROVE OneDriver'
    <3>1. OneDriver /\ CallAgrees(a) /\ \A b \in Agents : b # a => ~ Active(b)
      BY <2>1, <2>3, OnlyOne
    <3>2. d = playwright /\ alive = {} /\ d # None
      <4>1. d \in 1 .. MaxDrivers
        BY <2>1, CallFields
      <4> QED
        BY <2>1, <3>1, <4>1, Numbers DEF CallAgrees, None
    <3>3. (CallAgrees(a))'
      BY <2>2 DEF CallAgrees, Lifecycle
    <3> QED
      BY <2>1, <2>2, <3>1, <3>2, <3>3, Alone
  <2> QED
    BY <1>0, <2>1, <2>3 DEF SessionInv
<1>11. ASSUME NEW a \in Agents, ConnectFails(a) PROVE SessionInv'
  <2>1. UNCHANGED <<remote, alive, session, open, used, overlaps>> /\ Active(a) /\ at[a].pc = "connect"
    BY <1>11 DEF ConnectFails, Active, Lifecycle
  <2>2. at'[a].pc \notin Lifecycle /\ \A b \in Agents : b # a => at'[b] = at[b]
    BY <1>11, LeavesConnect
  <2>3. ASSUME overlaps = 0 PROVE OneDriver'
    <3>1. OneDriver /\ CallAgrees(a) /\ \A b \in Agents : b # a => ~ Active(b)
      BY <2>1, <2>3, OnlyOne
    <3>2. context = None /\ ~ launched /\ alive = {}
      BY <2>1, <3>1 DEF CallAgrees
    <3>3. (CallAgrees(a))'
      BY <2>2 DEF CallAgrees, Lifecycle
    <3> QED
      BY <2>1, <2>2, <3>1, <3>2, <3>3, Alone DEF session
  <2> QED
    BY <1>0, <2>1, <2>3 DEF SessionInv
<1>12. ASSUME NEW a \in Agents, Saved(a) \/ Emptied(a) \/ Downed(a) PROVE SessionInv'
  <2>1. UNCHANGED <<remote, session, used, overlaps>> /\ alive' \subseteq alive /\ open' \subseteq open
        /\ Active(a)
    BY <1>12 DEF Saved, Emptied, Downed, Active, Lifecycle
  <2>2. /\ \A b \in Agents : b # a => at'[b] = at[b]
        /\ at'[a].pc \in {"emptying", "downing", "stopping"}
        /\ at'[a].pc = "stopping" => at'[a].via = playwright
    <3>1. CASE Downed(a)
      BY <3>1, Went DEF Downed
    <3>2. CASE Saved(a) \/ Emptied(a)
      <4>1. Emptying(a)
        BY <3>2, CallFields, NamesListed, NextEmpties DEF Saved, Emptied
      <4> QED
        BY <4>1 DEF Emptying, LeavesTabs, TakesTab
    <3> QED
      BY <1>12, <3>1, <3>2
  <2>3. ASSUME overlaps = 0 PROVE OneDriver'
    <3>1. OneDriver /\ \A b \in Agents : b # a => ~ Active(b)
      BY <2>1, <2>3, OnlyOne
    <3>2. (CallAgrees(a))' /\ (context' # None => context' = playwright')
          /\ alive' \subseteq {playwright'} /\ at'[a].pc \in Lifecycle
      BY <2>1, <2>2, <3>1 DEF CallAgrees, OneDriver, session, Lifecycle
    <3> QED
      BY <2>2, <3>1, <3>2, Alone
  <2> QED
    BY <1>0, <2>1, <2>3 DEF SessionInv
<1>13. ASSUME NEW a \in Agents, Closed(a) PROVE SessionInv'
  <2>1. UNCHANGED <<remote, used, overlaps>> /\ alive' = alive \ {at[a].via} /\ open' \subseteq open
        /\ playwright' = None /\ context' = None /\ launched' = FALSE /\ Active(a) /\ at[a].pc = "stopping"
    BY <1>13 DEF Closed, Stopped, Active, Lifecycle
  <2>2. at'[a].pc \notin Lifecycle /\ \A b \in Agents : b # a => at'[b] = at[b]
    BY <1>13, Went DEF Closed, Idle, Lifecycle
  <2>3. ASSUME overlaps = 0 PROVE OneDriver'
    <3>1. OneDriver /\ CallAgrees(a) /\ \A b \in Agents : b # a => ~ Active(b)
      BY <2>1, <2>3, OnlyOne
    <3>2. alive' = {}
      BY <2>1, <3>1 DEF CallAgrees, OneDriver
    <3>3. (CallAgrees(a))'
      BY <2>2 DEF CallAgrees, Lifecycle
    <3> QED
      BY <2>1, <2>2, <3>1, <3>2, <3>3, Alone
  <2> QED
    BY <1>0, <2>1, <2>3 DEF SessionInv
<1> QED
  BY <1>1, <1>2, <1>3, <1>4, <1>5, <1>6, <1>7, <1>8, <1>9, <1>10, <1>11, <1>12, <1>13, Kinds DEF Major

-----------------------------------------------------------------------------
(* Every page of the session's browser is accounted for, from the time the   *)
(* connection is up until a reconnect empties _tabs.                         *)

Closers == {"evict", "closetab", "emptying"}
Closes(a, p) == at[a].pc \in Closers /\ at[a].page = p /\ at[a].via = context
Accounted(p) ==
  \/ p \in unlisted
  \/ \E t \in Range(tabs) : t.page = p /\ t.via = context
  \/ \E a \in Agents : Closes(a, p)
Serving == overlaps = 0 /\ context \in alive /\ \A a \in Agents : at[a].pc # "reclose"
ListedInv == Serving => \A p \in ShownBy(context) : Accounted(p)

(* A tab that goes is entered in unlisted, or its page is closed by who took it. *)
Handed(a, t) ==
  \/ t \in Range(tabs') \/ t.page \in unlisted'
  \/ at'[a].pc \in Closers /\ at'[a].page = t.page /\ at'[a].via = t.via

LEMMA Passes ==
  ASSUME NEW a \in Agents, NEW p, Accounted(p), ~ Closes(a, p), context' = context,
         unlisted \subseteq unlisted', \A b \in Agents : b # a => at'[b] = at[b],
         \A t \in Range(tabs) : Handed(a, t)
  PROVE  Accounted(p)'
<1>1. CASE p \in unlisted
  BY <1>1 DEF Accounted
<1>2. CASE \E t \in Range(tabs) : t.page = p /\ t.via = context
  <2>1. PICK t \in Range(tabs) : t.page = p /\ t.via = context
    BY <1>2
  <2>2. CASE t \in Range(tabs') \/ t.page \in unlisted'
    BY <2>1, <2>2 DEF Accounted
  <2>3. CASE at'[a].pc \in Closers /\ at'[a].page = t.page /\ at'[a].via = t.via
    BY <2>1, <2>3 DEF Accounted, Closes
  <2> QED
    BY <2>1, <2>2, <2>3 DEF Handed
<1>3. CASE \E b \in Agents : Closes(b, p)
  BY <1>3 DEF Accounted, Closes
<1> QED
  BY <1>1, <1>2, <1>3 DEF Accounted

LEMMA StillListed ==
  ASSUME ListedInv, NEW a \in Agents, UNCHANGED <<remote, context>>, alive' \subseteq alive,
         overlaps' = 0 => overlaps = 0, unlisted \subseteq unlisted', at[a].pc # "reclose",
         \A b \in Agents : b # a => at'[b] = at[b], \A t \in Range(tabs) : Handed(a, t),
         open' \subseteq open, context \in alive => \A p \in open' : ~ Closes(a, p)
  PROVE  ListedInv'
<1> SUFFICES ASSUME Serving', NEW p \in (ShownBy(context))' PROVE Accounted(p)'
  BY DEF ListedInv
<1>1. Serving
  BY DEF Serving
<1>2. p \in ShownBy(context)
  BY DEF ShownBy
<1> QED
  BY <1>1, <1>2, Passes DEF ListedInv, Serving, ShownBy

LEMMA RoomHanded ==
  ASSUME NEW a, NEW n, NEW c, NEW ts, RoomMade(a, n, ts, c),
         \A t \in Range(tabs) : t \in Range(ts) \/ t.page \in unlisted'
  PROVE  \A t \in Range(tabs) : Handed(a, t)
<1>1. CASE tabs' = ts
  BY <1>1 DEF Handed
<1>2. CASE \E t \in Range(ts) : Range(ts) \subseteq Range(tabs') \cup {t} /\ at'[a] = EvictOf(n, t)
  <2>1. PICK u \in Range(ts) : Range(ts) \subseteq Range(tabs') \cup {u} /\ at'[a] = EvictOf(n, u)
    BY <1>2
  <2>2. at'[a].pc \in Closers /\ at'[a].page = u.page /\ at'[a].via = u.via
    BY <2>1 DEF EvictOf, Closers
  <2> QED
    BY <2>1, <2>2 DEF Handed
<1> QED
  BY <1>1, <1>2 DEF RoomMade

LEMMA LooksHanded ==
  ASSUME NEW a, NEW n, NEW c, Looked(a, n, c)
  PROVE  \A t \in Range(tabs) : Handed(a, t)
<1>1. CASE RoomMade(a, n, tabs, c)
  BY <1>1, RoomHanded
<1>2. CASE tabs' = tabs
  BY <1>2 DEF Handed
<1> QED
  BY <1>1, <1>2 DEF Looked

LEMMA EmptyHanded ==
  ASSUME NEW a \in Agents, Emptying(a)
  PROVE  /\ \A t \in Range(tabs) : Handed(a, t)
         /\ \A b \in Agents : b # a => at'[b] = at[b]
<1>1. CASE LeavesTabs(a)
  BY <1>1 DEF LeavesTabs, Handed, Emptying
<1>2. CASE TakesTab(a)
  BY <1>2 DEF TakesTab, Handed, Emptying, Closers
<1> QED
  BY <1>1, <1>2 DEF Emptying

LEMMA ForgottenPages ==
  ASSUME NEW n, NEW t \in Range(tabs), t.name = n
  PROVE  t.page \in PagesOf(tabs, n)
BY DEF PagesOf

LEMMA ListedStart == ASSUME Init PROVE ListedInv
BY DEF Init, ListedInv, ShownBy

LEMMA MinorListed == ASSUME TypeOK, SessionInv, ListedInv, NEW a \in Agents, Minor(a) PROVE ListedInv'
<1>0. /\ UNCHANGED <<remote, running, alive, session, overlaps>>
      /\ (~ Opened(a) => open' \subseteq open)
      /\ at[a].pc # "reclose" /\ at'[a].pc # "reclose"
      /\ \A b \in Agents : b # a => at'[b] = at[b]
  BY Minors DEF Lifecycle
<1>00. UNCHANGED <<remote, context>>
  BY <1>0 DEF session
<1>1. CASE (\E n \in Names : Get(a, n)) /\ IsOpen
  <2>1. PICK n \in Names : Get(a, n) /\ IsOpen
    BY <1>1
  <2>2. Looked(a, n, context)
    BY <2>1, FieldTypes, HasLooked DEF Get
  <2>3. at[a].pc \notin Closers /\ unlisted' = unlisted /\ open' = open
    BY <2>1 DEF Get, Idle, Closers
  <2> QED
    BY <1>0, <1>00, <2>2, <2>3, LooksHanded, StillListed DEF Closes
<1>2. CASE Probed(a)
  <2>1. at[a].pc \notin Closers /\ unlisted' = unlisted /\ open' = open /\ tabs' = tabs
    BY <1>2 DEF Probed, Closers
  <2> QED
    BY <1>0, <1>00, <2>1, StillListed DEF Closes, Handed
<1>3. CASE ProbeFails(a)
  <2>1. /\ at[a].name \in Names /\ context \in 0 .. MaxDrivers /\ at[a].pc \notin Closers
        /\ unlisted' = unlisted \cup PagesOf(tabs, at[a].name) /\ open' = open
    BY <1>3, CallFields, FieldTypes DEF ProbeFails, Closers
  <2>2. /\ RoomMade(a, at[a].name, Without(tabs, at[a].name), context)
        /\ Range(Without(tabs, at[a].name)) = {t \in Range(tabs) : t.name # at[a].name}
    BY <1>3, <2>1, TabsList, WithoutLists, RoomIsMade DEF ProbeFails
  <2>3. \A t \in Range(tabs) : t \in Range(Without(tabs, at[a].name)) \/ t.page \in unlisted'
    BY <2>1, <2>2, ForgottenPages
  <2>4. \A t \in Range(tabs) : Handed(a, t)
    BY <2>2, <2>3, RoomHanded
  <2> QED
    BY <1>0, <1>00, <2>1, <2>4, StillListed DEF Closes
<1>4. CASE Evicted(a) \/ TabClosed(a)
  <2>1. /\ unlisted' = unlisted /\ tabs' = tabs
        /\ open' = IF at[a].via \in alive THEN open \ {at[a].page} ELSE open
    BY <1>4 DEF Evicted, TabClosed
  <2>2. context \in alive => \A p \in open' : ~ Closes(a, p)
    BY <2>1 DEF Closes
  <2> QED
    BY <1>0, <1>00, <2>1, <2>2, StillListed DEF Handed
<1>5. CASE Opened(a)
  <2> DEFINE page == <<used.pages + 1, IF remote THEN None ELSE at[a].via>>
             tab == [name |-> at[a].name, page |-> page, via |-> at[a].via]
  <2>1. /\ open' = open \cup {page} /\ tabs' = WithTab(tabs, tab) /\ at[a].via \in alive
        /\ unlisted' = unlisted \cup PagesOf(tabs, at[a].name) /\ at[a].pc \notin Closers
    BY <1>5 DEF Opened, Closers
  <2>2. tab \in Tabs
    <3>1. at[a].name \in Names /\ at[a].via \in 1 .. MaxDrivers
      BY <1>5, CallFields, FieldTypes DEF Opened
    <3>2. used.pages + 1 \in 1 .. MaxPages
      <4>1. used.pages < MaxPages
        BY <1>5 DEF Opened
      <4> QED
        BY <4>1, FieldTypes, Numbers
    <3> QED
      BY <3>1, <3>2, Numbers DEF Tabs, Pages, None
  <2>3. Range(tabs') = {tab} \cup {t \in Range(tabs) : t.name # at[a].name}
    <3>1. Range(WithTab(tabs, tab)) = {tab} \cup {t \in Range(tabs) : t.name # tab.name}
      BY <2>2, TabsList, WithTabLists
    <3> QED
      BY <2>1, <3>1
  <2>4. \A t \in Range(tabs) : Handed(a, t)
    BY <2>1, <2>3, ForgottenPages DEF Handed
  <2> SUFFICES ASSUME Serving', NEW p \in (ShownBy(context))' PROVE Accounted(p)'
    BY DEF ListedInv
  <2>5. Serving
    BY <1>0, <1>00 DEF Serving
  <2>6. CASE p = page
    <3>1. at[a].via = context
      BY <2>1, <2>5 DEF Serving, SessionInv, OneDriver
    <3>2. tab \in Range(tabs') /\ tab.page = p /\ tab.via = context'
      BY <1>00, <2>3, <2>6, <3>1
    <3> QED
      BY <3>2 DEF Accounted
  <2>7. CASE p # page
    <3>1. p \in ShownBy(context)
      BY <1>00, <2>1, <2>7 DEF ShownBy
    <3>2. Accounted(p) /\ ~ Closes(a, p)
      BY <2>1, <2>5, <3>1 DEF ListedInv, Closes
    <3> QED
      BY <1>0, <1>00, <2>1, <2>4, <3>2, Passes
  <2> QED
    BY <2>6, <2>7
<1>6. CASE OpenFails(a) /\ ~ at[a].retry
  <2>1. at[a].pc \notin Closers /\ unlisted' = unlisted /\ open' = open /\ tabs' = tabs
    BY <1>6 DEF OpenFails, Closers
  <2> QED
    BY <1>0, <1>00, <2>1, StillListed DEF Closes, Handed
<1>7. CASE \E n \in Names : CloseTab(a, n)
  <2>1. PICK n \in Names : CloseTab(a, n)
    BY <1>7
  <2>2. /\ Has(tabs, n) /\ tabs' = Without(tabs, n) /\ unlisted' = unlisted /\ open' = open
        /\ Goes(a, [pc |-> "closetab", page |-> TabOf(tabs, n).page, via |-> TabOf(tabs, n).via])
        /\ at[a].pc \notin Closers
    BY <2>1 DEF CloseTab, Idle, Closers
  <2>3. at'[a] = [pc |-> "closetab", page |-> TabOf(tabs, n).page, via |-> TabOf(tabs, n).via]
    BY <2>2, Went
  <2>4. Range(tabs') = {t \in Range(tabs) : t.name # n} /\ \A t \in Range(tabs) : t.name = n => t = TabOf(tabs, n)
    BY <2>2, TabsList, WithoutLists, TheTab
  <2>5. \A t \in Range(tabs) : Handed(a, t)
    BY <2>3, <2>4 DEF Handed, Closers
  <2> QED
    BY <1>0, <1>00, <2>2, <2>5, StillListed DEF Closes
<1> QED
  BY <1>1, <1>2, <1>3, <1>4, <1>5, <1>6, <1>7 DEF Minor

LEMMA ListedStep == ASSUME TypeOK, SessionInv, ListedInv, [Next]_vars PROVE ListedInv'
<1>1. ASSUME NEW a \in Agents, Minor(a) PROVE ListedInv'
  BY <1>1, MinorListed
<1>2. ASSUME Downloads \/ Outside \/ UNCHANGED vars PROVE ListedInv'
  <2>1. /\ UNCHANGED <<remote, context, tabs, at, overlaps, unlisted>>
        /\ alive' \subseteq alive /\ open' \subseteq open
    BY <1>2, Others DEF session
  <2> SUFFICES ASSUME Serving', NEW p \in (ShownBy(context))' PROVE Accounted(p)'
    BY DEF ListedInv
  <2>2. Serving /\ p \in ShownBy(context)
    BY <2>1 DEF Serving, ShownBy
  <2> QED
    BY <2>1, <2>2 DEF ListedInv, Accounted, Closes
<1>3. ASSUME NEW a \in Agents, NEW n \in Names, Get(a, n), ~ IsOpen PROVE ListedInv'
  <2>1. /\ UNCHANGED <<remote, alive, context, open, unlisted, tabs>> /\ Began(a)
        /\ at[a].pc \notin Closers /\ at[a].pc # "reclose"
        /\ \A b \in Agents : b # a => at'[b] = at[b]
    BY <1>3, Went DEF Get, Launching, session, Idle, Closers
  <2>2. overlaps' = 0 => overlaps = 0
    BY <2>1 DEF Began, TypeOK
  <2> QED
    BY <2>1, <2>2, StillListed DEF Closes, Handed
<1>4. ASSUME NEW a \in Agents, NEW n, NEW then, Request(n, then), Reconnects(a, n, then), alive' = alive
      PROVE  ListedInv'
  <2>1. Recloses(a, n, then) \/ DriverStops(a, n, then)
    BY <1>4, ReconnectsStep
  <2>2. CASE Recloses(a, n, then)
    BY <2>2 DEF Recloses, ListedInv, Serving
  <2>3. CASE DriverStops(a, n, then)
    BY <1>4, <2>3, NoDriver DEF DriverStops, ListedInv, Serving
  <2> QED
    BY <2>1, <2>2, <2>3
<1>5. ASSUME NEW a \in Agents, Close(a) PROVE ListedInv'
  <2>1. /\ UNCHANGED <<remote, alive, context, open, unlisted>> /\ Began(a)
        /\ at[a].pc \notin Closers /\ at[a].pc # "reclose"
    BY <1>5 DEF Close, session, Idle, Closers
  <2>2. overlaps' = 0 => overlaps = 0
    BY <2>1 DEF Began, TypeOK
  <2>3. (\A b \in Agents : b # a => at'[b] = at[b]) /\ \A t \in Range(tabs) : Handed(a, t)
    <3>1. CASE ~ remote /\ context # None
      BY <1>5, <3>1, Went DEF Close, Handed
    <3>2. CASE ~ (~ remote /\ context # None)
      BY <1>5, <3>2, NamesListed, NextEmpties, EmptyHanded DEF Close
    <3> QED
      BY <3>1, <3>2
  <2> QED
    BY <2>1, <2>2, <2>3, StillListed DEF Closes
<1>6. ASSUME NEW a \in Agents, Saved(a) \/ Emptied(a) PROVE ListedInv'
  <2>1. /\ UNCHANGED <<remote, alive, context, unlisted, overlaps>> /\ open' \subseteq open
        /\ at[a].pc # "reclose"
    BY <1>6 DEF Saved, Emptied, session
  <2>2. (\A b \in Agents : b # a => at'[b] = at[b]) /\ \A t \in Range(tabs) : Handed(a, t)
    BY <1>6, CallFields, NamesListed, NextEmpties, EmptyHanded DEF Saved, Emptied
  <2>3. context \in alive => \A p \in open' : ~ Closes(a, p)
    BY <1>6 DEF Saved, Emptied, Closes, Closers
  <2> QED
    BY <2>1, <2>2, <2>3, StillListed
<1>7. ASSUME NEW a \in Agents, Downed(a) PROVE ListedInv'
  <2>1. /\ UNCHANGED <<remote, context, unlisted, overlaps, tabs>> /\ open' \subseteq open /\ alive' \subseteq alive
        /\ at[a].pc # "reclose" /\ at[a].pc \notin Closers /\ \A b \in Agents : b # a => at'[b] = at[b]
    BY <1>7, Went DEF Downed, session, Closers
  <2> QED
    BY <2>1, StillListed DEF Closes, Handed
<1>8. ASSUME NEW a \in Agents, Reclosed(a) \/ Closed(a) PROVE ListedInv'
  <2>1. context' = None /\ alive' \subseteq alive
    BY <1>8 DEF Reclosed, Closed, Stopped, StopsDriver
  <2> QED
    BY <2>1, NoDriver DEF ListedInv, Serving
<1>9. ASSUME NEW a \in Agents, Restopped(a) \/ Started(a) \/ ConnectFails(a) PROVE ListedInv'
  <2>1. /\ UNCHANGED <<context, overlaps>> /\ alive' \subseteq alive /\ at[a].pc \in {"restop", "start", "connect"}
    BY <1>9 DEF Restopped, Started, ConnectFails, Stopped, session
  <2>2. overlaps = 0 => context = None
    BY <2>1 DEF SessionInv, OneDriver, CallAgrees
  <2> QED
    BY <2>1, <2>2, NoDriver DEF ListedInv, Serving
<1>10. ASSUME NEW a \in Agents, Connected(a) PROVE ListedInv'
  <2> DEFINE d == at[a].via
  <2>1. /\ UNCHANGED <<remote, open, overlaps>> /\ context' = d /\ at[a].pc = "connect" /\ d \in 1 .. MaxDrivers
    BY <1>10, CallFields DEF Connected
  <2> SUFFICES ASSUME overlaps = 0, NEW p \in (ShownBy(context))' PROVE Accounted(p)'
    BY <2>1 DEF ListedInv, Serving
  <2>2. CASE ~ remote
    <3>1. p \in open /\ p[2] = d
      BY <2>1, <2>2 DEF ShownBy
    <3>2. CallAgrees(a)
      BY DEF SessionInv, OneDriver
    <3> QED
      BY <2>1, <2>2, <3>1, <3>2 DEF CallAgrees
  <2>3. CASE remote
    <3>1. p \in open
      BY <2>1, <2>3 DEF ShownBy
    <3>2. CASE at[a].then = "get"
      <4>1. unlisted' = unlisted \cup open
        BY <1>10, <2>3, <3>2 DEF Connected
      <4> QED
        BY <3>1, <4>1 DEF Accounted
    <3>3. CASE at[a].then \in {"reconnect", "get again"}
      <4>1. Adopts(d)
        BY <1>10, <3>3 DEF Connected
      <4>2. RecoveredTab(p, d) \in Range(tabs')
        BY <2>1, <2>3, <3>1, <4>1, AdoptsLists DEF Found
      <4>3. RecoveredTab(p, d).page = p /\ RecoveredTab(p, d).via = context'
        BY <2>1 DEF RecoveredTab
      <4> QED
        BY <4>2, <4>3 DEF Accounted
    <3> QED
      BY <2>1, <3>2, <3>3, CallFields
  <2> QED
    BY <2>2, <2>3 DEF TypeOK
<1>11. ASSUME NEW a \in Agents, Reconnect(a) PROVE ListedInv'
  BY <1>4, <1>11 DEF Reconnect, Request
<1>12. ASSUME NEW a \in Agents, OpenFails(a), at[a].retry PROVE ListedInv'
  BY <1>4, <1>12, CallFields DEF OpenFails, Request
<1> QED
  BY <1>1, <1>2, <1>3, <1>5, <1>6, <1>7, <1>8, <1>9, <1>10, <1>11, <1>12, Kinds DEF Major

(* What PagesListed says of it. *)
LEMMA ListedPages == ASSUME ListedInv PROVE PagesListed
<1> SUFFICES ASSUME context \in alive, overlaps = 0, Steady, NEW p \in ShownBy(context)
             PROVE  p \in {t.page : t \in Range(tabs)} \cup Closing \cup unlisted
  BY DEF PagesListed
<1>1. Accounted(p)
  BY DEF ListedInv, Serving, Steady, Lifecycle
<1> QED
  BY <1>1 DEF Accounted, Closing, Closes, Closers

-----------------------------------------------------------------------------
(* MAX_TABS is kept but for the tabs that are on their way: the call that    *)
(* filled the list has returned, so at most the other agents add one each.   *)

Adds(a) ==
  \/ at[a].pc \in {"evict", "open"}
  \/ at[a].pc \in {"start", "connect", "reclose", "restop"} /\ at[a].then = "get again"
Adding == {a \in Agents : Adds(a)}
RoomInv == ~ remote => Len(tabs) + Cardinality(Adding) <= MaxTabs + Cardinality(Agents) - 1

LEMMA NotAdding ==
  ASSUME NEW a \in Agents, at'[a].pc \notin {"evict", "open", "start", "connect", "reclose", "restop"}
  PROVE  ~ (Adds(a))'
BY DEF Adds

LEMMA AgentsCounted ==
  /\ IsFiniteSet(Agents) /\ Cardinality(Agents) \in Nat
  /\ IsFiniteSet(Adding) /\ Cardinality(Adding) \in 0 .. Cardinality(Agents)
<1>1. IsFiniteSet(Agents)
  BY BrowserAssumption
<1>2. Adding \subseteq Agents
  BY DEF Adding
<1> QED
  BY <1>1, <1>2, FS_Subset, FS_CardinalityType

LEMMA TabsCounted == ASSUME TypeOK PROVE Len(tabs) \in Nat
  BY DEF TypeOK

(* A call that does not come to add, on a list that does not grow. *)
LEMMA NoMoreTabs ==
  ASSUME TypeOK, TypeOK', RoomInv, UNCHANGED remote, NEW a \in Agents, Len(tabs') <= Len(tabs),
         \A b \in Agents : b # a => at'[b] = at[b], (Adds(a))' => Adds(a)
  PROVE  RoomInv'
<1>1. Adding' \subseteq Adding
  BY DEF Adding, Adds
<1>2. Cardinality(Adding') <= Cardinality(Adding) /\ Cardinality(Adding') \in Nat
  BY <1>1, AgentsCounted, FS_Subset, FS_CardinalityType
<1>3. Len(tabs) \in Nat /\ Len(tabs') \in Nat
  BY TabsCounted DEF TypeOK
<1> QED
  BY <1>2, <1>3, AgentsCounted, Numbers DEF RoomInv

(* A list that is not full leaves room for every agent. *)
LEMMA RoomForAll ==
  ASSUME TypeOK', Len(tabs') < MaxTabs
  PROVE  RoomInv'
<1>1. IsFiniteSet(Adding') /\ Cardinality(Adding') \in 0 .. Cardinality(Agents)
  <2>1. Adding' \subseteq Agents
    BY DEF Adding
  <2> QED
    BY <2>1, AgentsCounted, FS_Subset, FS_CardinalityType
<1>2. Len(tabs') \in Nat
  BY DEF TypeOK
<1> QED
  BY <1>1, <1>2, AgentsCounted, Numbers DEF RoomInv

(* A call that comes to add has closed a tab for it. *)
LEMMA TabForTab ==
  ASSUME TypeOK, TypeOK', RoomInv, UNCHANGED remote, NEW a \in Agents, Len(tabs') <= Len(tabs) - 1,
         \A b \in Agents : b # a => at'[b] = at[b]
  PROVE  RoomInv'
<1>1. Adding' \subseteq Adding \cup {a}
  BY DEF Adding, Adds
<1>2. Cardinality(Adding') <= Cardinality(Adding) + 1 /\ Cardinality(Adding') \in Nat
  <2>1. IsFiniteSet(Adding \cup {a}) /\ Cardinality(Adding \cup {a}) <= Cardinality(Adding) + 1
    <3>1. /\ IsFiniteSet(Adding \cup {a})
          /\ Cardinality(Adding \cup {a}) = IF a \in Adding THEN Cardinality(Adding) ELSE Cardinality(Adding) + 1
      BY AgentsCounted, FS_AddElement
    <3> QED
      BY <3>1, AgentsCounted
  <2>2. IsFiniteSet(Adding') /\ Cardinality(Adding') <= Cardinality(Adding \cup {a})
    BY <1>1, <2>1, FS_Subset
  <2>3. Cardinality(Adding') \in Nat /\ Cardinality(Adding \cup {a}) \in Nat /\ Cardinality(Adding) \in Nat
    BY <2>1, <2>2, AgentsCounted, FS_CardinalityType
  <2> QED
    BY <2>1, <2>2, <2>3
<1>3. Len(tabs) \in Nat /\ Len(tabs') \in Nat
  BY TabsCounted DEF TypeOK
<1> QED
  BY <1>2, <1>3, AgentsCounted, Numbers DEF RoomInv

LEMMA RoomKept ==
  ASSUME TypeOK, TypeOK', RoomInv, UNCHANGED remote, NEW a \in Agents, NEW n, NEW c, NEW ts, Listing(ts),
         Len(ts) <= Len(tabs), RoomMade(a, n, ts, c)
  PROVE  RoomInv'
<1>1. Len(ts) \in Nat /\ Len(tabs) \in Nat
  BY TabsCounted DEF Listing
<1>2. \A b \in Agents : b # a => at'[b] = at[b]
  BY DEF RoomMade
<1>3. CASE tabs' = ts /\ Len(ts) < MaxTabs
  BY <1>3, RoomForAll
<1>4. CASE Len(tabs') = Len(ts) - 1
  <2>1. Len(tabs') <= Len(tabs) - 1
    BY <1>1, <1>4
  <2> QED
    BY <1>2, <2>1, TabForTab
<1> QED
  BY <1>3, <1>4 DEF RoomMade

LEMMA LooksRoom ==
  ASSUME TypeOK, TypeOK', RoomInv, UNCHANGED remote, NEW a \in Agents, NEW n, NEW c, Looked(a, n, c)
  PROVE  RoomInv'
<1>1. CASE RoomMade(a, n, tabs, c)
  BY <1>1, TabsList, TabsCounted, RoomKept
<1>2. CASE /\ \A b \in Agents : b # a => at'[b] = at[b]
           /\ tabs' = tabs /\ \E t \in Range(tabs) : at'[a] = ProbeOf(n, t)
  <2>1. ~ (Adds(a))' /\ Len(tabs') <= Len(tabs)
    BY <1>2, TabsCounted DEF Adds, ProbeOf
  <2> QED
    BY <1>2, <2>1, NoMoreTabs
<1> QED
  BY <1>1, <1>2 DEF Looked

LEMMA EmptyRoom ==
  ASSUME TypeOK, TypeOK', RoomInv, UNCHANGED remote, NEW a \in Agents, Emptying(a)
  PROVE  RoomInv'
<1>1. Len(tabs') <= Len(tabs) /\ \A b \in Agents : b # a => at'[b] = at[b]
  BY TabsCounted DEF Emptying, LeavesTabs, TakesTab
<1>2. at'[a].pc \in {"emptying", "downing", "stopping"}
  BY DEF Emptying, LeavesTabs, TakesTab
<1> QED
  BY <1>1, <1>2, NotAdding, NoMoreTabs

LEMMA OpenedRoom ==
  ASSUME TypeOK, TypeOK', RoomInv, NEW a \in Agents, Opened(a)
  PROVE  RoomInv'
<1> DEFINE page == <<used.pages + 1, IF remote THEN None ELSE at[a].via>>
           tab == [name |-> at[a].name, page |-> page, via |-> at[a].via]
<1>1. tabs' = WithTab(tabs, tab) /\ Goes(a, Idle) /\ UNCHANGED remote /\ Adds(a)
  BY DEF Opened, Adds
<1>2. tab \in Tabs
  <2>1. at[a].name \in Names /\ at[a].via \in 1 .. MaxDrivers
    BY CallFields, FieldTypes DEF Opened
  <2>2. used.pages + 1 \in 1 .. MaxPages
    <3>1. used.pages < MaxPages
      BY DEF Opened
    <3> QED
      BY <3>1, FieldTypes, Numbers
  <2> QED
    BY <2>1, <2>2, Numbers DEF Tabs, Pages, None
<1>3. Len(tabs') <= Len(tabs) + 1
  <2>1. Len(WithTab(tabs, tab)) <= Len(tabs) + 1
    BY <1>2, TabsList, WithTabLists
  <2> QED
    BY <1>1, <2>1
<1>4. at'[a] = Idle /\ \A b \in Agents : b # a => at'[b] = at[b]
  BY <1>1, Went
<1>5. Adding' \subseteq Adding \ {a} /\ a \in Adding
  <2>1. at'[a].pc = "idle"
    BY <1>4 DEF Idle
  <2>2. ~ (Adds(a))'
    BY <2>1, NotAdding
  <2> QED
    BY <1>1, <1>4, <2>2 DEF Adding, Adds
<1>6. Cardinality(Adding') <= Cardinality(Adding) - 1 /\ Cardinality(Adding') \in Nat
  <2>1. IsFiniteSet(Adding \ {a}) /\ Cardinality(Adding \ {a}) = Cardinality(Adding) - 1
    BY <1>5, AgentsCounted, FS_RemoveElement
  <2>2. IsFiniteSet(Adding') /\ Cardinality(Adding') <= Cardinality(Adding \ {a})
    BY <1>5, <2>1, FS_Subset
  <2> QED
    BY <2>1, <2>2, FS_CardinalityType
<1>7. Len(tabs) \in Nat /\ Len(tabs') \in Nat
  BY TabsCounted DEF TypeOK
<1> QED
  BY <1>1, <1>3, <1>6, <1>7, AgentsCounted, Numbers DEF RoomInv

LEMMA RoomStart == ASSUME Init PROVE RoomInv
<1>1. Adding = {} /\ Len(tabs) = 0
  BY DEF Init, Adding, Adds, Idle
<1>2. TypeOK
  BY TypeStart
<1>3. Cardinality(Adding) = 0
  BY <1>1, FS_EmptySet
<1> QED
  BY <1>1, <1>3, AgentsCounted, Numbers DEF RoomInv

LEMMA RoomStep == ASSUME TypeOK, TypeOK', RoomInv, [Next]_vars PROVE RoomInv'
<1>0. Len(tabs) \in Nat /\ Len(tabs) <= Len(tabs)
  BY TabsCounted
<1>1. ASSUME NEW a \in Agents, Minor(a) PROVE RoomInv'
  <2>1. UNCHANGED remote /\ \A b \in Agents : b # a => at'[b] = at[b]
    BY <1>1, Minors
  <2>2. CASE (\E n \in Names : Get(a, n)) /\ IsOpen
    BY <2>1, <2>2, FieldTypes, HasLooked, LooksRoom DEF Get
  <2>3. CASE ProbeFails(a)
    <3>1. at[a].name \in Names /\ context \in 0 .. MaxDrivers
      BY <2>3, CallFields, FieldTypes DEF ProbeFails
    <3>2. Listing(Without(tabs, at[a].name)) /\ Len(Without(tabs, at[a].name)) <= Len(tabs)
      BY TabsList, WithoutLists
    <3>3. RoomMade(a, at[a].name, Without(tabs, at[a].name), context)
      BY <2>3, <3>1, <3>2, RoomIsMade DEF ProbeFails
    <3> QED
      BY <2>1, <3>2, <3>3, RoomKept
  <2>4. CASE Opened(a)
    BY <2>4, OpenedRoom
  <2>5. CASE Probed(a) \/ Evicted(a) \/ (OpenFails(a) /\ ~ at[a].retry) \/ TabClosed(a)
    <3>1. tabs' = tabs /\ ((Adds(a))' => Adds(a))
      <4>1. CASE Evicted(a)
        BY <4>1 DEF Evicted, Adds
      <4>2. CASE Probed(a) \/ (OpenFails(a) /\ ~ at[a].retry) \/ TabClosed(a)
        <5>1. tabs' = tabs /\ Goes(a, Idle)
          BY <4>2 DEF Probed, OpenFails, TabClosed
        <5>2. at'[a].pc = "idle"
          BY <5>1, Went DEF Idle
        <5> QED
          BY <5>1, <5>2, NotAdding
      <4> QED
        BY <2>5, <4>1, <4>2
    <3> QED
      BY <1>0, <2>1, <3>1, NoMoreTabs
  <2>6. CASE \E n \in Names : CloseTab(a, n)
    <3>1. PICK n \in Names : CloseTab(a, n)
      BY <2>6
    <3>2. Len(tabs') <= Len(tabs)
      BY <3>1, TabsList, WithoutLists DEF CloseTab
    <3>3. ~ (Adds(a))'
      <4>1. at'[a].pc = "closetab"
        BY <3>1, Went DEF CloseTab
      <4> QED
        BY <4>1, NotAdding
    <3> QED
      BY <2>1, <3>2, <3>3, NoMoreTabs
  <2> QED
    BY <1>1, <2>2, <2>3, <2>4, <2>5, <2>6 DEF Minor
<1>2. ASSUME Downloads \/ Outside \/ UNCHANGED vars PROVE RoomInv'
  <2>1. UNCHANGED <<remote, tabs, at>>
    BY <1>2, Others
  <2> QED
    BY <2>1 DEF RoomInv, Adding, Adds
<1>3. ASSUME NEW a \in Agents, NEW n \in Names, Get(a, n), ~ IsOpen PROVE RoomInv'
  <2>1. /\ tabs' = tabs /\ UNCHANGED remote /\ \A b \in Agents : b # a => at'[b] = at[b]
        /\ at'[a] = [pc |-> "start", name |-> n, then |-> "get"]
    BY <1>3, Went DEF Get, Launching
  <2>2. ~ (Adds(a))'
    BY <2>1 DEF Adds
  <2> QED
    BY <1>0, <2>1, <2>2, NoMoreTabs
<1>4. ASSUME NEW a \in Agents, Reconnect(a) \/ (OpenFails(a) /\ at[a].retry) PROVE RoomInv'
  <2>1. tabs' = <<>>
    BY <1>4 DEF Reconnect, OpenFails, Reconnects
  <2>2. Len(tabs') < MaxTabs
    BY <2>1, NoTabs, Numbers
  <2> QED
    BY <2>2, RoomForAll
<1>5. ASSUME NEW a \in Agents, Close(a) PROVE RoomInv'
  <2>1. CASE ~ remote /\ context # None
    <3>1. /\ tabs' = tabs /\ UNCHANGED remote /\ \A b \in Agents : b # a => at'[b] = at[b]
          /\ at'[a].pc = "saving"
      BY <1>5, <2>1, Went DEF Close
    <3>2. ~ (Adds(a))'
      BY <3>1 DEF Adds
    <3> QED
      BY <1>0, <3>1, <3>2, NoMoreTabs
  <2>2. CASE ~ (~ remote /\ context # None)
    BY <1>5, <2>2, NamesListed, NextEmpties, EmptyRoom DEF Close
  <2> QED
    BY <2>1, <2>2
<1>6. ASSUME NEW a \in Agents, Saved(a) \/ Emptied(a) PROVE RoomInv'
  BY <1>6, CallFields, NamesListed, NextEmpties, EmptyRoom DEF Saved, Emptied
<1>7. ASSUME NEW a \in Agents, Downed(a) \/ Closed(a) \/ ConnectFails(a) PROVE RoomInv'
  <2>1. tabs' = tabs /\ UNCHANGED remote
    BY <1>7 DEF Downed, Closed, ConnectFails
  <2>2. ((Adds(a))' => Adds(a)) /\ \A b \in Agents : b # a => at'[b] = at[b]
    <3>1. CASE Downed(a) \/ Closed(a)
      <4>1. at'[a].pc \in {"stopping", "idle"} /\ \A b \in Agents : b # a => at'[b] = at[b]
        BY <3>1, Went DEF Downed, Closed, Idle
      <4> QED
        BY <4>1, NotAdding
    <3>2. CASE ConnectFails(a)
      <4>1. at[a].pc = "connect"
        BY <3>2 DEF ConnectFails
      <4>2. CASE at[a].then = "get again"
        <5>1. Goes(a, Idle) \/ Goes(a, Opening(at[a].name, context, FALSE))
          BY <3>2 DEF ConnectFails
        <5> QED
          BY <4>1, <4>2, <5>1, Went DEF Adds
      <4>3. CASE at[a].then # "get again"
        <5>1. Goes(a, Idle)
          BY <3>2, <4>3 DEF ConnectFails
        <5>2. at'[a].pc = "idle" /\ \A b \in Agents : b # a => at'[b] = at[b]
          BY <5>1, Went DEF Idle
        <5> QED
          BY <5>2, NotAdding
      <4> QED
        BY <4>2, <4>3
    <3> QED
      BY <1>7, <3>1, <3>2
  <2> QED
    BY <1>0, <2>1, <2>2, NoMoreTabs
<1>8. ASSUME NEW a \in Agents, Reclosed(a) PROVE RoomInv'
  <2>1. Request(at[a].name, at[a].then) /\ UNCHANGED <<remote, tabs>> /\ at[a].pc = "reclose"
    BY <1>8, CallFields DEF Reclosed, Request
  <2>2. DriverStops(a, at[a].name, at[a].then) /\ \A b \in Agents : b # a => at'[b] = at[b]
    BY <1>8, <2>1, StopsStep DEF Reclosed
  <2>3. at'[a].then = at[a].then /\ at'[a].pc \in {"restop", "start"}
    BY <2>2 DEF DriverStops
  <2>4. (Adds(a))' => Adds(a)
    BY <2>1, <2>3 DEF Adds
  <2> QED
    BY <1>0, <2>1, <2>2, <2>4, NoMoreTabs
<1>9. ASSUME NEW a \in Agents, Restopped(a) \/ Started(a) PROVE RoomInv'
  <2>1. UNCHANGED <<remote, tabs>> /\ at[a].pc \in {"restop", "start"}
    BY <1>9 DEF Restopped, Started
  <2>2. /\ at'[a].then = at[a].then /\ at'[a].pc \in {"start", "connect"}
        /\ \A b \in Agents : b # a => at'[b] = at[b]
    BY <1>9, Went DEF Restopped, Started, Launching
  <2>3. (Adds(a))' => Adds(a)
    BY <2>1, <2>2 DEF Adds
  <2> QED
    BY <1>0, <2>1, <2>2, <2>3, NoMoreTabs
<1>10. ASSUME NEW a \in Agents, Connected(a) PROVE RoomInv'
  <2> DEFINE d == at[a].via
  <2>1. UNCHANGED remote /\ at[a].pc = "connect" /\ d \in 1 .. MaxDrivers
    BY <1>10, CallFields DEF Connected
  <2>2. CASE at[a].then = "get"
    <3>1. at[a].name \in Names /\ d \in 0 .. MaxDrivers
      BY <2>1, <2>2, CallFields, Numbers, Wider
    <3>2. Looked(a, at[a].name, d)
      BY <1>10, <2>2, <3>1, HasLooked DEF Connected
    <3> QED
      BY <2>1, <3>2, LooksRoom
  <2>3. CASE at[a].then \in {"reconnect", "get again"}
    <3>1. Adopts(d) /\ \A b \in Agents : b # a => at'[b] = at[b]
      <4>1. CASE at[a].then = "reconnect"
        BY <1>10, <4>1, Went DEF Connected
      <4>2. CASE at[a].then = "get again"
        <5>1. Adopts(d) /\ Goes(a, Opening(at[a].name, d, FALSE))
          BY <1>10, <4>2 DEF Connected
        <5> QED
          BY <5>1, Went
      <4> QED
        BY <2>3, <4>1, <4>2
    <3>2. CASE remote
      BY <2>1, <3>2 DEF RoomInv
    <3>3. CASE ~ remote
      <4>1. tabs' = tabs
        BY <2>1, <3>1, <3>3, AdoptsLists
      <4>2. (Adds(a))' => Adds(a)
        <5>1. CASE at[a].then = "reconnect"
          <6>1. at'[a].pc = "idle"
            BY <1>10, <5>1, Went DEF Connected, Idle
          <6> QED
            BY <6>1, NotAdding
        <5>2. CASE at[a].then = "get again"
          BY <2>1, <5>2 DEF Adds
        <5> QED
          BY <2>3, <5>1, <5>2
      <4> QED
        BY <1>0, <2>1, <3>1, <4>1, <4>2, NoMoreTabs
    <3> QED
      BY <3>2, <3>3
  <2> QED
    BY <2>1, <2>2, <2>3, CallFields
<1> QED
  BY <1>1, <1>2, <1>3, <1>4, <1>5, <1>6, <1>7, <1>8, <1>9, <1>10, Kinds DEF Major

LEMMA RoomForTabs == ASSUME TypeOK, RoomInv PROVE TabsBounded
  BY TabsCounted, AgentsCounted, Numbers DEF RoomInv, TabsBounded

-----------------------------------------------------------------------------
(* Drivers that run, and the calls at work that have yet to start one or end *)
(* without one: each beyond the first is paid for by a connection that       *)
(* failed or by a call begun amid another, and the driver a call holds to    *)
(* stop it is one that goes.                                                 *)

Before == {"reclose", "saving", "emptying", "downing"}
Works(a) == at[a].pc \in Lifecycle \ {"connect"}
AtWork == {a \in Agents : Works(a)}
One(t) == IF t THEN 1 ELSE 0
Connecting == \E a \in Agents : at[a].pc = "connect" /\ at[a].via = playwright
Useful == playwright # None /\ (IsOpen \/ Connecting)
OneHeld == \E a \in Agents : at[a].pc \in {"restop", "stopping"} /\ at[a].via \in running
AllBefore == playwright # None /\ IsOpen /\ AtWork # {} /\ \A a \in AtWork : at[a].pc \in Before
Held == OneHeld \/ AllBefore
LeakInv ==
  Cardinality(running) + Cardinality(AtWork) <= failures + overlaps + One(Held) + One(AtWork # {} \/ Useful)

LEMMA Ones ==
  ASSUME NEW s, NEW t
  PROVE  One(s) \in 0 .. 1 /\ ((s => t) => One(s) <= One(t)) /\ (s => One(s) = 1) /\ (~ s => One(s) = 0)
BY DEF One

LEMMA Counted ==
  ASSUME TypeOK
  PROVE  /\ IsFiniteSet(running) /\ Cardinality(running) \in Nat
         /\ IsFiniteSet(AtWork) /\ Cardinality(AtWork) \in Nat
         /\ failures \in Nat /\ overlaps \in Nat
<1>1. IsFiniteSet(1 .. MaxDrivers)
  BY FS_Interval, Numbers
<1>2. AtWork \subseteq Agents
  BY DEF AtWork
<1> QED
  BY <1>1, <1>2, AgentsCounted, FieldTypes, FS_Subset, FS_CardinalityType DEF TypeOK

(* A step that leaves the driver and the launches alone. *)
LEMMA LeakAside ==
  ASSUME LeakInv, UNCHANGED <<session, running, failures, overlaps>>,
         \A b \in Agents : at'[b] = at[b] \/ (at[b].pc \notin Lifecycle /\ at'[b].pc \notin Lifecycle)
  PROVE  LeakInv'
<1>1. AtWork' = AtWork
  BY DEF AtWork, Works
<1>2. IsOpen' <=> IsOpen
  BY DEF IsOpen, session
<1>3. Connecting' <=> Connecting
  BY DEF Connecting, Lifecycle, session
<1>4. OneHeld' <=> OneHeld
  BY DEF OneHeld, Lifecycle
<1>5. AllBefore' <=> AllBefore
  BY <1>1, <1>2 DEF AllBefore, AtWork, Works, session
<1>6. One(Held') = One(Held) /\ One(AtWork' # {} \/ Useful') = One(AtWork # {} \/ Useful)
  BY <1>1, <1>2, <1>3, <1>4, <1>5 DEF Held, Useful, session, One
<1>7. (One(Held))' = One(Held') /\ (One(AtWork # {} \/ Useful))' = One(AtWork' # {} \/ Useful')
  BY DEF One
<1> QED
  BY <1>1, <1>6, <1>7 DEF LeakInv

(* A call has hold of the session's driver, if there is one: it is yet to    *)
(* come to it, or about to stop it.                                          *)
Grips(a) ==
  \/ at'[a].pc \in Before /\ UNCHANGED session
  \/ playwright # None /\ at'[a].pc \in {"restop", "stopping"} /\ at'[a].via = playwright
  \/ at'[a].pc \in {"start", "stopping"} /\ (playwright = None \/ ~ IsOpen)

LEMMA GripHolds ==
  ASSUME TypeOK, NEW a \in Agents, \A b \in Agents : b # a => at'[b] = at[b], UNCHANGED running,
         at[a].pc \notin {"restop", "stopping"}, Grips(a)
  PROVE  /\ Held => Held'
         /\ IsOpen /\ playwright # None /\ AtWork \subseteq {a} => Held'
<1>1. playwright # None => playwright \in running
  BY FieldTypes
<1>2. OneHeld => OneHeld'
  BY DEF OneHeld
<1>3. CASE at'[a].pc \in Before /\ UNCHANGED session
  <2>1. IsOpen' <=> IsOpen
    BY <1>3 DEF IsOpen, session
  <2>2. AtWork' = AtWork \cup {a}
    BY <1>3 DEF AtWork, Works, Before, Lifecycle
  <2>3. AllBefore => AllBefore'
    <3>1. \A b \in AtWork \ {a} : at'[b] = at[b]
      BY DEF AtWork
    <3>2. AllBefore => \A b \in AtWork' : at'[b].pc \in Before
      BY <1>3, <2>2, <3>1 DEF AllBefore
    <3> QED
      BY <1>3, <2>1, <2>2, <3>2 DEF AllBefore, session
  <2>4. IsOpen /\ playwright # None /\ AtWork \subseteq {a} => AllBefore'
    BY <1>3, <2>1, <2>2 DEF AllBefore, session
  <2> QED
    BY <1>2, <2>3, <2>4 DEF Held
<1>4. CASE playwright # None /\ at'[a].pc \in {"restop", "stopping"} /\ at'[a].via = playwright
  BY <1>1, <1>4 DEF Held, OneHeld
<1>5. CASE at'[a].pc \in {"start", "stopping"} /\ (playwright = None \/ ~ IsOpen)
  BY <1>2, <1>5 DEF Held, AllBefore
<1> QED
  BY <1>3, <1>4, <1>5 DEF Grips

(* A launch, a reconnect or a close begins. *)
LEMMA BeginsLeak ==
  ASSUME TypeOK, TypeOK', LeakInv, NEW a \in Agents, at[a].pc \notin Lifecycle, Began(a),
         \A b \in Agents : b # a => at'[b] = at[b], (Works(a))', Grips(a), UNCHANGED <<running, failures>>
  PROVE  LeakInv'
<1>1. AtWork' = AtWork \cup {a} /\ a \notin AtWork
  BY DEF AtWork, Works
<1>2. Cardinality(AtWork') = Cardinality(AtWork) + 1
  BY <1>1, Counted, FS_AddElement
<1>3. (AtWork # {} \/ Useful)'
  BY <1>1
<1>4. (Held => Held') /\ (IsOpen /\ playwright # None /\ AtWork \subseteq {a} => Held')
  BY GripHolds DEF Lifecycle
<1>5. (One(AtWork # {} \/ Useful))' = 1
  BY <1>3 DEF One
<1>6. CASE Busy(a)
  <2>1. overlaps' = overlaps + 1
    BY <1>6 DEF Began
  <2>2. One(Held) <= (One(Held))' /\ One(Held) \in 0 .. 1 /\ (One(Held))' \in 0 .. 1
        /\ One(AtWork # {} \/ Useful) \in 0 .. 1
    BY <1>4 DEF One
  <2> QED
    BY <1>2, <1>5, <2>1, <2>2, Counted DEF LeakInv
<1>7. CASE ~ Busy(a)
  <2>1. AtWork = {} /\ ~ Connecting
    BY <1>7 DEF Busy, AtWork, Works, Connecting, Lifecycle
  <2>2. ~ OneHeld /\ ~ AllBefore
    BY <2>1 DEF OneHeld, AllBefore, AtWork, Works, Lifecycle
  <2>3. Useful => Held'
    BY <1>4, <2>1 DEF Useful
  <2>4. Cardinality(AtWork) = 0
    BY <2>1, FS_EmptySet
  <2>5. /\ One(Held) = 0 /\ One(AtWork # {} \/ Useful) <= (One(Held))'
        /\ (One(Held))' \in 0 .. 1 /\ One(AtWork # {} \/ Useful) \in 0 .. 1
    BY <2>1, <2>2, <2>3 DEF One, Held
  <2>6. overlaps' = overlaps
    BY <1>7 DEF Began
  <2> QED
    BY <1>2, <1>5, <2>4, <2>5, <2>6, Counted DEF LeakInv
<1> QED
  BY <1>6, <1>7

(* One goes on towards its driver. *)
LEMMA MovesLeak ==
  ASSUME TypeOK, TypeOK', LeakInv, NEW a \in Agents, at[a].pc \in Before,
         \A b \in Agents : b # a => at'[b] = at[b], (Works(a))', Grips(a),
         UNCHANGED <<running, failures, overlaps>>
  PROVE  LeakInv'
<1>1. AtWork' = AtWork /\ a \in AtWork
  BY DEF AtWork, Works, Before, Lifecycle
<1>2. Held => Held'
  BY GripHolds DEF Before
<1>3. One(Held) <= (One(Held))' /\ One(Held) \in 0 .. 1 /\ (One(Held))' \in 0 .. 1
      /\ One(AtWork # {} \/ Useful) = 1 /\ (One(AtWork # {} \/ Useful))' = 1
  BY <1>1, <1>2 DEF One
<1> QED
  BY <1>1, <1>3, Counted DEF LeakInv

(* One stops the driver it holds. *)
LEMMA StopLeak ==
  ASSUME TypeOK, TypeOK', LeakInv, NEW a \in Agents, at[a].pc \in {"restop", "stopping"},
         \A b \in Agents : b # a => at'[b] = at[b], running' = running \ {at[a].via},
         at'[a].pc = "start" \/ at'[a].pc = "idle", UNCHANGED <<failures, overlaps>>
  PROVE  LeakInv'
<1>1. a \in AtWork /\ ~ AllBefore
  BY DEF AtWork, Works, AllBefore, Before, Lifecycle
<1>2. CASE at[a].via \in running
  <2>1. Cardinality(running') = Cardinality(running) - 1
    BY <1>2, Counted, FS_RemoveElement
  <2>2. One(Held) = 1
    BY <1>2 DEF One, Held, OneHeld
  <2>3. One(AtWork # {} \/ Useful) = 1
    BY <1>1 DEF One
  <2>4. CASE at'[a].pc = "start"
    <3>1. AtWork' = AtWork
      BY <1>1, <2>4 DEF AtWork, Works, Lifecycle
    <3>2. (One(Held))' \in 0 .. 1 /\ (One(AtWork # {} \/ Useful))' = 1
      BY <1>1, <3>1 DEF One
    <3> QED
      BY <2>1, <2>2, <2>3, <3>1, <3>2, Counted DEF LeakInv
  <2>5. CASE at'[a].pc = "idle"
    <3>1. AtWork' = AtWork \ {a}
      BY <2>5 DEF AtWork, Works, Lifecycle
    <3>2. Cardinality(AtWork') = Cardinality(AtWork) - 1
      BY <1>1, <3>1, Counted, FS_RemoveElement
    <3>3. (One(Held))' \in 0 .. 1 /\ (One(AtWork # {} \/ Useful))' \in 0 .. 1
      BY DEF One
    <3> QED
      BY <2>1, <2>2, <2>3, <3>2, <3>3, Counted DEF LeakInv
  <2> QED
    BY <2>4, <2>5
<1>3. CASE at[a].via \notin running
  <2>1. running' = running /\ Cardinality(running') = Cardinality(running)
    BY <1>3
  <2>2. Held => Held'
    BY <1>1, <1>3, <2>1 DEF Held, OneHeld
  <2>3. One(Held) <= (One(Held))' /\ One(Held) \in 0 .. 1 /\ (One(Held))' \in 0 .. 1
        /\ One(AtWork # {} \/ Useful) = 1
    BY <1>1, <2>2 DEF One
  <2>4. CASE at'[a].pc = "start"
    <3>1. AtWork' = AtWork /\ Cardinality(AtWork') = Cardinality(AtWork)
      BY <1>1, <2>4 DEF AtWork, Works, Lifecycle
    <3>2. (One(AtWork # {} \/ Useful))' = 1
      BY <1>1, <3>1 DEF One
    <3>3. Cardinality(running) + Cardinality(AtWork) <= failures + overlaps + (One(Held))' + 1
      BY <2>3, Counted DEF LeakInv
    <3> QED
      BY <2>1, <3>1, <3>2, <3>3 DEF LeakInv
  <2>5. CASE at'[a].pc = "idle"
    <3>1. AtWork' = AtWork \ {a}
      BY <2>5 DEF AtWork, Works, Lifecycle
    <3>2. Cardinality(AtWork') = Cardinality(AtWork) - 1
      BY <1>1, <3>1, Counted, FS_RemoveElement
    <3>3. (One(AtWork # {} \/ Useful))' \in 0 .. 1
      BY DEF One
    <3>4. Cardinality(running) + Cardinality(AtWork) - 1 <= failures + overlaps + (One(Held))'
      BY <2>3, Counted DEF LeakInv
    <3>5. Cardinality(running) + (Cardinality(AtWork) - 1)
            <= failures + overlaps + (One(Held))' + (One(AtWork # {} \/ Useful))'
      BY <2>3, <3>3, <3>4, Counted
    <3> QED
      BY <2>1, <3>2, <3>5 DEF LeakInv
  <2> QED
    BY <2>4, <2>5
<1> QED
  BY <1>2, <1>3

LEMMA StartedLeak ==
  ASSUME TypeOK, TypeOK', LeakInv, NEW a \in Agents, Started(a)
  PROVE  LeakInv'
<1> DEFINE d == used.drivers + 1
<1>1. /\ running' = running \cup {d} /\ playwright' = d /\ UNCHANGED <<failures, overlaps>>
      /\ at[a].pc = "start" /\ Goes(a, [pc |-> "connect", name |-> at[a].name, then |-> at[a].then, via |-> d])
  BY DEF Started
<1>2. /\ at'[a].pc = "connect" /\ at'[a].via = d /\ \A b \in Agents : b # a => at'[b] = at[b]
  BY <1>1, Went
<1>3. AtWork' = AtWork \ {a} /\ a \in AtWork
  BY <1>1, <1>2 DEF AtWork, Works, Lifecycle
<1>4. Cardinality(AtWork') = Cardinality(AtWork) - 1
  BY <1>3, Counted, FS_RemoveElement
<1>5. d \notin running
  <2>1. running \subseteq 1 .. used.drivers /\ used.drivers \in Nat
    BY FieldTypes DEF TypeOK
  <2> QED
    BY <2>1
<1>6. Cardinality(running') = Cardinality(running) + 1
  BY <1>1, <1>5, Counted, FS_AddElement
<1>7. Useful'
  <2>1. d # 0
    BY FieldTypes
  <2> QED
    BY <1>1, <1>2, <2>1 DEF Useful, Connecting, None
<1>8. Held => Held'
  <2>1. ~ AllBefore
    BY <1>1, <1>3 DEF AllBefore, Before
  <2>2. OneHeld => OneHeld'
    BY <1>1, <1>2 DEF OneHeld
  <2> QED
    BY <2>1, <2>2 DEF Held
<1>9. One(Held) <= (One(Held))' /\ One(Held) \in 0 .. 1 /\ (One(Held))' \in 0 .. 1
      /\ One(AtWork # {} \/ Useful) \in 0 .. 1 /\ (One(AtWork # {} \/ Useful))' = 1
  BY <1>7, <1>8 DEF One
<1> QED
  BY <1>1, <1>4, <1>6, <1>9, Counted DEF LeakInv

LEMMA ConnectedLeak ==
  ASSUME TypeOK, TypeOK', LeakInv, NEW a \in Agents, Connected(a), at'[a].pc \notin Lifecycle,
         \A b \in Agents : b # a => at'[b] = at[b]
  PROVE  LeakInv'
<1>1. /\ UNCHANGED <<running, playwright, failures, overlaps>> /\ context' = at[a].via /\ launched' = TRUE
      /\ at[a].pc = "connect" /\ at[a].via \in 1 .. MaxDrivers
  BY CallFields DEF Connected
<1>2. IsOpen'
  BY <1>1, Numbers DEF IsOpen, None
<1>3. AtWork' = AtWork
  BY <1>1 DEF AtWork, Works, Lifecycle
<1>4. Held => Held'
  <2>1. OneHeld => OneHeld'
    BY <1>1 DEF OneHeld
  <2>2. a \notin AtWork
    BY <1>1 DEF AtWork, Works
  <2>3. \A b \in AtWork : at'[b] = at[b]
    BY <2>2 DEF AtWork
  <2>4. AllBefore => AllBefore'
    BY <1>1, <1>2, <1>3, <2>3 DEF AllBefore
  <2> QED
    BY <2>1, <2>4 DEF Held
<1>5. Useful => Useful'
  BY <1>1, <1>2 DEF Useful
<1>6. One(Held) <= (One(Held))' /\ One(AtWork # {} \/ Useful) <= (One(AtWork # {} \/ Useful))'
      /\ One(Held) \in 0 .. 1 /\ (One(Held))' \in 0 .. 1
      /\ One(AtWork # {} \/ Useful) \in 0 .. 1 /\ (One(AtWork # {} \/ Useful))' \in 0 .. 1
  BY <1>3, <1>4, <1>5 DEF One
<1> QED
  BY <1>1, <1>3, <1>6, Counted DEF LeakInv

LEMMA FailsLeak ==
  ASSUME TypeOK, TypeOK', LeakInv, NEW a \in Agents, ConnectFails(a), at'[a].pc \notin Lifecycle,
         \A b \in Agents : b # a => at'[b] = at[b]
  PROVE  LeakInv'
<1>1. /\ UNCHANGED <<running, session, overlaps>> /\ at[a].pc = "connect"
      /\ failures' = IF at[a].via \in running THEN failures + 1 ELSE failures
  BY DEF ConnectFails
<1>2. AtWork' = AtWork /\ (IsOpen' <=> IsOpen)
  BY <1>1 DEF AtWork, Works, Lifecycle, IsOpen, session
<1>3. Held => Held'
  <2>1. OneHeld => OneHeld'
    BY <1>1 DEF OneHeld
  <2>2. a \notin AtWork
    BY <1>1 DEF AtWork, Works
  <2>3. \A b \in AtWork : at'[b] = at[b]
    BY <2>2 DEF AtWork
  <2>4. AllBefore => AllBefore'
    BY <1>1, <1>2, <2>3 DEF AllBefore, session
  <2> QED
    BY <2>1, <2>4 DEF Held
<1>4. One(Held) <= (One(Held))' /\ One(Held) \in 0 .. 1 /\ (One(Held))' \in 0 .. 1
      /\ One(AtWork # {} \/ Useful) \in 0 .. 1 /\ (One(AtWork # {} \/ Useful))' \in 0 .. 1
  BY <1>3 DEF One
<1>5. CASE at[a].via \in running
  BY <1>1, <1>2, <1>4, <1>5, Counted DEF LeakInv
<1>6. CASE at[a].via \notin running
  <2>1. Useful => Useful'
    <3>1. playwright # None => playwright \in running
      BY FieldTypes
    <3>2. playwright # None /\ Connecting => Connecting'
      BY <1>1, <1>6, <3>1 DEF Connecting, session
    <3> QED
      BY <1>1, <1>2, <3>2 DEF Useful, session
  <2>2. One(AtWork # {} \/ Useful) <= (One(AtWork # {} \/ Useful))'
    BY <1>2, <2>1 DEF One
  <2> QED
    BY <1>1, <1>2, <1>4, <1>6, <2>2, Counted DEF LeakInv
<1> QED
  BY <1>5, <1>6

LEMMA LeakStart == ASSUME Init PROVE LeakInv
<1>1. AtWork = {} /\ running = {} /\ failures = 0 /\ overlaps = 0
  BY DEF Init, AtWork, Works, Idle, Lifecycle
<1>2. Cardinality(running) = 0 /\ Cardinality(AtWork) = 0
  BY <1>1, FS_EmptySet
<1>3. One(Held) \in 0 .. 1 /\ One(AtWork # {} \/ Useful) \in 0 .. 1
  BY DEF One
<1> QED
  BY <1>1, <1>2, <1>3 DEF LeakInv

LEMMA ReconnectGrips ==
  ASSUME TypeOK, NEW a \in Agents, NEW n, NEW then, Recloses(a, n, then) \/ DriverStops(a, n, then)
  PROVE  Grips(a) /\ (Works(a))'
<1>1. CASE Recloses(a, n, then)
  BY <1>1 DEF Recloses, Grips, Works, Before, Lifecycle
<1>2. CASE DriverStops(a, n, then)
  BY <1>2 DEF DriverStops, Grips, Works, Lifecycle
<1> QED
  BY <1>1, <1>2

LEMMA EmptyGrips ==
  ASSUME NEW a \in Agents, Emptying(a), UNCHANGED session
  PROVE  Grips(a) /\ (Works(a))' /\ \A b \in Agents : b # a => at'[b] = at[b]
<1>1. CASE LeavesTabs(a)
  BY <1>1 DEF LeavesTabs, Emptying, Grips, Works, Before, Lifecycle
<1>2. CASE TakesTab(a)
  BY <1>2 DEF TakesTab, Emptying, Grips, Works, Before, Lifecycle
<1> QED
  BY <1>1, <1>2 DEF Emptying

LEMMA LeakStep == ASSUME TypeOK, TypeOK', LeakInv, [Next]_vars PROVE LeakInv'
<1>1. ASSUME NEW a \in Agents, Minor(a) PROVE LeakInv'
  BY <1>1, Minors, LeakAside
<1>2. ASSUME Downloads \/ Outside \/ UNCHANGED vars PROVE LeakInv'
  BY <1>2, Others, LeakAside
<1>3. ASSUME NEW a \in Agents, NEW n \in Names, Get(a, n), ~ IsOpen PROVE LeakInv'
  <2>1. /\ UNCHANGED <<running, failures>> /\ Began(a) /\ at[a].pc \notin Lifecycle /\ at'[a].pc = "start"
        /\ \A b \in Agents : b # a => at'[b] = at[b]
    BY <1>3, Went DEF Get, Launching, Idle, Lifecycle
  <2>2. Grips(a) /\ (Works(a))'
    BY <1>3, <2>1 DEF Grips, Works, Lifecycle
  <2> QED
    BY <2>1, <2>2, BeginsLeak
<1>4. ASSUME NEW a \in Agents, NEW n, NEW then, Request(n, then), Reconnects(a, n, then),
             at[a].pc \notin Lifecycle, UNCHANGED <<running, failures>>
      PROVE  LeakInv'
  <2>1. /\ Began(a) /\ \A b \in Agents : b # a => at'[b] = at[b]
        /\ Recloses(a, n, then) \/ DriverStops(a, n, then)
    BY <1>4, ReconnectsStep
  <2> QED
    BY <1>4, <2>1, ReconnectGrips, BeginsLeak
<1>5. ASSUME NEW a \in Agents, Close(a) PROVE LeakInv'
  <2>1. /\ UNCHANGED <<running, failures, session>> /\ Began(a) /\ at[a].pc \notin Lifecycle
    BY <1>5 DEF Close, Idle, Lifecycle
  <2>2. Grips(a) /\ (Works(a))' /\ \A b \in Agents : b # a => at'[b] = at[b]
    <3>1. CASE ~ remote /\ context # None
      <4>1. at'[a].pc = "saving" /\ \A b \in Agents : b # a => at'[b] = at[b]
        BY <1>5, <3>1, Went DEF Close
      <4> QED
        BY <2>1, <4>1 DEF Grips, Works, Before, Lifecycle
    <3>2. CASE ~ (~ remote /\ context # None)
      BY <1>5, <2>1, <3>2, NamesListed, NextEmpties, EmptyGrips DEF Close
    <3> QED
      BY <3>1, <3>2
  <2> QED
    BY <2>1, <2>2, BeginsLeak
<1>6. ASSUME NEW a \in Agents, Saved(a) \/ Emptied(a) PROVE LeakInv'
  <2>1. UNCHANGED <<running, failures, overlaps, session>> /\ at[a].pc \in Before
    BY <1>6 DEF Saved, Emptied, Before
  <2>2. Emptying(a)
    BY <1>6, CallFields, NamesListed, NextEmpties DEF Saved, Emptied
  <2> QED
    BY <2>1, <2>2, EmptyGrips, MovesLeak
<1>7. ASSUME NEW a \in Agents, Downed(a) PROVE LeakInv'
  <2>1. /\ UNCHANGED <<running, failures, overlaps, session>> /\ at[a].pc \in Before
        /\ at'[a].pc = "stopping" /\ at'[a].via = playwright /\ \A b \in Agents : b # a => at'[b] = at[b]
    BY <1>7, Went DEF Downed, Before
  <2>2. Grips(a) /\ (Works(a))'
    BY <2>1 DEF Grips, Works, Lifecycle
  <2> QED
    BY <2>1, <2>2, MovesLeak
<1>8. ASSUME NEW a \in Agents, Reclosed(a) PROVE LeakInv'
  <2>1. Request(at[a].name, at[a].then) /\ UNCHANGED <<running, failures, overlaps>> /\ at[a].pc \in Before
    BY <1>8, CallFields DEF Reclosed, Request, Before
  <2>2. DriverStops(a, at[a].name, at[a].then) /\ \A b \in Agents : b # a => at'[b] = at[b]
    BY <1>8, <2>1, StopsStep DEF Reclosed
  <2> QED
    BY <2>1, <2>2, ReconnectGrips, MovesLeak
<1>9. ASSUME NEW a \in Agents, Restopped(a) \/ Closed(a) PROVE LeakInv'
  <2>1. /\ at[a].pc \in {"restop", "stopping"} /\ running' = running \ {at[a].via}
        /\ UNCHANGED <<failures, overlaps>>
    BY <1>9 DEF Restopped, Closed, Stopped
  <2>2. (at'[a].pc = "start" \/ at'[a].pc = "idle") /\ \A b \in Agents : b # a => at'[b] = at[b]
    BY <1>9, Went DEF Restopped, Closed, Launching, Idle
  <2> QED
    BY <2>1, <2>2, StopLeak
<1>10. ASSUME NEW a \in Agents, Connected(a) \/ ConnectFails(a) PROVE LeakInv'
  <2>1. (at'[a].pc \notin Lifecycle /\ \A b \in Agents : b # a => at'[b] = at[b])
    BY <1>10, LeavesConnect
  <2> QED
    BY <1>10, <2>1, ConnectedLeak, FailsLeak
<1>11. ASSUME NEW a \in Agents, Started(a) PROVE LeakInv'
  BY <1>11, StartedLeak
<1>12. ASSUME NEW a \in Agents, Reconnect(a) PROVE LeakInv'
  <2>1. /\ Request(NoName, "reconnect") /\ Reconnects(a, NoName, "reconnect")
        /\ at[a].pc \notin Lifecycle /\ UNCHANGED <<running, failures>>
    BY <1>12 DEF Reconnect, Request, Idle, Lifecycle
  <2> QED
    BY <1>4, <2>1
<1>13. ASSUME NEW a \in Agents, OpenFails(a), at[a].retry PROVE LeakInv'
  BY <1>4, <1>13, CallFields DEF OpenFails, Request, Lifecycle
<1> QED
  BY <1>1, <1>2, <1>3, <1>5, <1>6, <1>7, <1>8, <1>9, <1>10, <1>11, <1>12, <1>13, Kinds DEF Major

LEMMA DriversAccounted == ASSUME TypeOK, LeakInv PROVE Cardinality(running \ InHand) <= failures + overlaps
<1>1. /\ IsFiniteSet(running \ InHand) /\ Cardinality(running \ InHand) \in Nat
      /\ Cardinality(running \ InHand) <= Cardinality(running)
  <2>1. IsFiniteSet(running \ InHand) /\ Cardinality(running \ InHand) <= Cardinality(running)
    BY Counted, FS_Subset
  <2> QED
    BY <2>1, FS_CardinalityType
<1>2. ASSUME NEW d \in running, d \in InHand PROVE Cardinality(running \ InHand) <= Cardinality(running) - 1
  <2>1. running \ InHand \subseteq running \ {d}
    BY <1>2
  <2>2. IsFiniteSet(running \ {d}) /\ Cardinality(running \ {d}) = Cardinality(running) - 1
    BY <1>2, Counted, FS_RemoveElement
  <2> QED
    BY <2>1, <2>2, FS_Subset
<1>3. playwright # None => playwright \in running /\ playwright \in InHand
  BY FieldTypes DEF InHand
<1>4. CASE AtWork = {}
  <2>1. ~ OneHeld /\ ~ AllBefore
    BY <1>4 DEF OneHeld, AllBefore, AtWork, Works, Lifecycle
  <2>2. One(Held) = 0 /\ Cardinality(AtWork) = 0
    BY <1>4, <2>1, FS_EmptySet DEF One, Held
  <2>3. CASE Useful
    <3>1. Cardinality(running \ InHand) <= Cardinality(running) - 1
      BY <1>2, <1>3, <2>3 DEF Useful
    <3>2. One(AtWork # {} \/ Useful) = 1
      BY <2>3 DEF One
    <3> QED
      BY <1>1, <2>2, <3>1, <3>2, Counted DEF LeakInv
  <2>4. CASE ~ Useful
    <3>1. One(AtWork # {} \/ Useful) = 0
      BY <1>4, <2>4 DEF One
    <3> QED
      BY <1>1, <2>2, <3>1, Counted DEF LeakInv
  <2> QED
    BY <2>3, <2>4
<1>5. CASE AtWork # {}
  <2>1. Cardinality(AtWork) >= 1
    BY <1>5, Counted, FS_EmptySet
  <2>2. One(AtWork # {} \/ Useful) = 1
    BY <1>5 DEF One
  <2>3. CASE Held
    <3>1. \E d \in running : d \in InHand
      <4>1. CASE OneHeld
        BY <4>1 DEF OneHeld, InHand
      <4>2. CASE AllBefore
        BY <1>3, <4>2 DEF AllBefore
      <4> QED
        BY <2>3, <4>1, <4>2 DEF Held
    <3>2. Cardinality(running \ InHand) <= Cardinality(running) - 1
      BY <1>2, <3>1
    <3>3. One(Held) = 1
      BY <2>3 DEF One
    <3> QED
      BY <1>1, <2>1, <2>2, <3>2, <3>3, Counted DEF LeakInv
  <2>4. CASE ~ Held
    <3>1. One(Held) = 0
      BY <2>4 DEF One
    <3> QED
      BY <1>1, <2>1, <2>2, <3>1, Counted DEF LeakInv
  <2> QED
    BY <2>3, <2>4
<1> QED
  BY <1>4, <1>5

LEMMA BrowserSole == ASSUME TypeOK, SessionInv, LeakInv PROVE SoleBrowser
<1> SUFFICES ASSUME overlaps = 0, Steady, NEW t \in Range(tabs), Usable(t.page, t.via) PROVE t.via = context
  BY DriversAccounted DEF SoleBrowser
<1>1. OneDriver /\ t.via \in alive
  BY DEF SessionInv, Usable
<1> QED
  BY <1>1 DEF OneDriver

-----------------------------------------------------------------------------
(* Of two downloads that wait on one page neither is alone; who is alone     *)
(* hears of its own.                                                         *)

Loads == [page : Pages, via : 1 .. MaxDrivers, status : {"starting", "downloading", "complete", "failed"},
          got : Nat, alone : BOOLEAN]
Together(i, j) == i # j /\ downloads[j].status = "starting" /\ Waiting(i, downloads[j].page)
DownloadInv ==
  /\ downloads \in Seq(Loads)
  /\ \A i, j \in DOMAIN downloads : Together(i, j) => ~ downloads[i].alone
  /\ \A i \in DOMAIN downloads :
       downloads[i].status \in {"downloading", "complete"} /\ downloads[i].alone => downloads[i].got = i

LEMMA DownloadStart == ASSUME Init PROVE DownloadInv
  BY DEF Init, DownloadInv

LEMMA Asked ==
  ASSUME TypeOK, DownloadInv, NEW n, Download(n)
  PROVE  DownloadInv'
<1> DEFINE t == TabOf(tabs, n)
           company == \E i \in DOMAIN downloads : Waiting(i, t.page)
           mine == [page |-> t.page, via |-> t.via, status |-> "starting", got |-> 0, alone |-> ~ company]
           f == [i \in DOMAIN downloads |->
                   IF Waiting(i, t.page) THEN [downloads[i] EXCEPT !.alone = FALSE] ELSE downloads[i]]
           k == Len(downloads)
<1>1. Has(tabs, n) /\ downloads' = Append(f, mine)
  BY DEF Download
<1>2. downloads \in Seq(Loads) /\ k \in Nat /\ DOMAIN downloads = 1 .. k /\ \A i \in 1 .. k : downloads[i] \in Loads
  BY DEF DownloadInv
<1>3. mine \in Loads
  <2>1. t \in Tabs
    BY <1>1, TabsList, TheTab
  <2> QED
    BY <2>1 DEF Tabs, Loads
<1>4. f \in Seq(Loads) /\ Len(f) = k
  <2>1. \A i \in 1 .. k : f[i] \in Loads
    <3>1. ASSUME NEW i \in 1 .. k PROVE [downloads[i] EXCEPT !.alone = FALSE] \in Loads
      BY <1>2 DEF Loads
    <3> QED
      BY <1>2, <3>1
  <2> QED
    BY <1>2, <2>1
<1>5. /\ downloads' \in Seq(Loads) /\ DOMAIN downloads' = 1 .. k + 1
      /\ downloads'[k + 1] = mine /\ \A i \in 1 .. k : downloads'[i] = f[i]
  BY <1>1, <1>2, <1>3, <1>4
<1>6. ASSUME NEW i \in 1 .. k
      PROVE  /\ UNCHANGED <<downloads[i].page, downloads[i].status, downloads[i].got>>
             /\ downloads'[i].alone => downloads[i].alone
             /\ Waiting(i, t.page) => ~ downloads'[i].alone
  <2>1. CASE Waiting(i, t.page)
    <3>1. downloads'[i] = [downloads[i] EXCEPT !.alone = FALSE] /\ downloads[i] \in Loads
      BY <1>2, <1>5, <2>1
    <3> QED
      BY <3>1 DEF Loads
  <2>2. CASE ~ Waiting(i, t.page)
    <3>1. downloads'[i] = downloads[i]
      BY <1>2, <1>5, <2>2
    <3> QED
      BY <2>2, <3>1
  <2> QED
    BY <2>1, <2>2
<1>7. mine.page = t.page /\ mine.status = "starting" /\ mine.alone = ~ company
  OBVIOUS
<1>8. ASSUME NEW i \in 1 .. k + 1, NEW j \in 1 .. k + 1, (Together(i, j))' PROVE ~ downloads'[i].alone
  <2>1. i # j /\ downloads'[i].status = "starting" /\ downloads'[j].status = "starting"
        /\ downloads'[i].page = downloads'[j].page
    BY <1>8 DEF Together, Waiting
  <2>2. CASE i \in 1 .. k /\ j \in 1 .. k
    BY <1>2, <1>6, <2>1, <2>2 DEF DownloadInv, Together, Waiting
  <2>3. CASE i \in 1 .. k /\ j = k + 1
    <3>1. Waiting(i, t.page)
      BY <1>5, <1>6, <1>7, <2>1, <2>3 DEF Waiting
    <3> QED
      BY <1>6, <2>3, <3>1
  <2>4. CASE i = k + 1 /\ j \in 1 .. k
    <3>1. Waiting(j, t.page)
      BY <1>5, <1>6, <1>7, <2>1, <2>4 DEF Waiting
    <3>2. company
      BY <1>2, <2>4, <3>1
    <3> QED
      BY <1>5, <1>7, <2>4, <3>2
  <2> QED
    BY <1>2, <2>1, <2>2, <2>3, <2>4
<1>9. ASSUME NEW i \in 1 .. k + 1, downloads'[i].status \in {"downloading", "complete"}, downloads'[i].alone
      PROVE  downloads'[i].got = i
  <2>1. i \in 1 .. k
    BY <1>2, <1>5, <1>7, <1>9
  <2> QED
    BY <1>2, <1>6, <1>9, <2>1 DEF DownloadInv
<1> QED
  BY <1>5, <1>8, <1>9 DEF DownloadInv

LEMMA Begun ==
  ASSUME TypeOK, DownloadInv, NEW i \in DOMAIN downloads, DownloadBegins(i)
  PROVE  DownloadInv'
<1> DEFINE k == Len(downloads)
<1>1. downloads \in Seq(Loads) /\ k \in Nat /\ DOMAIN downloads = 1 .. k /\ \A j \in 1 .. k : downloads[j] \in Loads
  BY DEF DownloadInv
<1>2. /\ downloads[i].status = "starting"
      /\ downloads' = [j \in DOMAIN downloads |->
           IF Hears(j, i) THEN [downloads[j] EXCEPT !.status = "downloading", !.got = i] ELSE downloads[j]]
  BY DEF DownloadBegins
<1>3. ASSUME NEW j \in 1 .. k
      PROVE  /\ downloads'[j] \in Loads
             /\ downloads'[j].page = downloads[j].page /\ downloads'[j].alone = downloads[j].alone
             /\ Hears(j, i) => downloads'[j].status = "downloading" /\ downloads'[j].got = i
             /\ ~ Hears(j, i) => downloads'[j] = downloads[j]
  <2>1. CASE Hears(j, i)
    <3>1. downloads'[j] = [downloads[j] EXCEPT !.status = "downloading", !.got = i] /\ downloads[j] \in Loads
      BY <1>1, <1>2, <2>1
    <3>2. i \in Nat
      BY <1>1
    <3> QED
      BY <2>1, <3>1, <3>2 DEF Loads
  <2>2. CASE ~ Hears(j, i)
    BY <1>1, <1>2, <2>2
  <2> QED
    BY <2>1, <2>2
<1>4. downloads' \in Seq(Loads) /\ DOMAIN downloads' = 1 .. k
  <2> DEFINE g == [j \in 1 .. k |->
                     IF Hears(j, i) THEN [downloads[j] EXCEPT !.status = "downloading", !.got = i] ELSE downloads[j]]
  <2>1. downloads' = g
    BY <1>1, <1>2
  <2>2. \A j \in 1 .. k : g[j] \in Loads
    BY <1>3, <2>1
  <2>3. g \in Seq(Loads)
    <3> DEFINE h(j) == IF Hears(j, i) THEN [downloads[j] EXCEPT !.status = "downloading", !.got = i] ELSE downloads[j]
    <3>1. \A j \in 1 .. k : h(j) \in Loads
      BY <2>2
    <3> HIDE DEF h
    <3>2. [j \in 1 .. k |-> h(j)] \in Seq(Loads)
      BY <1>1, <3>1
    <3> QED
      BY <3>2 DEF h
  <2> QED
    BY <2>1, <2>3
<1>5. ASSUME NEW x \in 1 .. k, NEW y \in 1 .. k, (Together(x, y))' PROVE ~ downloads'[x].alone
  <2>1. x # y /\ downloads'[x].status = "starting" /\ downloads'[y].status = "starting"
        /\ downloads'[x].page = downloads'[y].page
    BY <1>5 DEF Together, Waiting
  <2>2. ~ Hears(x, i) /\ ~ Hears(y, i)
    BY <1>3, <2>1
  <2>3. downloads'[x] = downloads[x] /\ downloads'[y] = downloads[y]
    BY <1>3, <2>2
  <2>4. Together(x, y)
    BY <2>1, <2>3 DEF Together, Waiting
  <2> QED
    BY <1>1, <2>3, <2>4 DEF DownloadInv
<1>6. ASSUME NEW x \in 1 .. k, downloads'[x].status \in {"downloading", "complete"}, downloads'[x].alone
      PROVE  downloads'[x].got = x
  <2>1. CASE Hears(x, i)
    <3>1. x = i \/ Together(x, i)
      BY <1>2, <2>1 DEF Hears, Together
    <3>2. downloads[x].alone
      BY <1>3, <1>6
    <3>3. x = i
      BY <1>1, <3>1, <3>2 DEF DownloadInv
    <3> QED
      BY <1>3, <2>1, <3>3
  <2>2. CASE ~ Hears(x, i)
    <3>1. downloads'[x] = downloads[x]
      BY <1>3, <2>2
    <3> QED
      BY <1>1, <1>6, <3>1 DEF DownloadInv
  <2> QED
    BY <2>1, <2>2
<1> QED
  BY <1>4, <1>5, <1>6 DEF DownloadInv

LEMMA Ended ==
  ASSUME TypeOK, DownloadInv, NEW i \in DOMAIN downloads, DownloadEnds(i)
  PROVE  DownloadInv'
<1> DEFINE k == Len(downloads)
<1>1. downloads \in Seq(Loads) /\ k \in Nat /\ DOMAIN downloads = 1 .. k /\ \A j \in 1 .. k : downloads[j] \in Loads
  BY DEF DownloadInv
<1>2. PICK s \in {"complete", "failed"} :
        /\ downloads' = [downloads EXCEPT ![i].status = s]
        /\ s = "complete" => downloads[i].status = "downloading"
  BY DEF DownloadEnds
<1>3. ASSUME NEW j \in 1 .. k
      PROVE  /\ downloads'[j] \in Loads /\ downloads'[j].page = downloads[j].page
             /\ downloads'[j].alone = downloads[j].alone /\ downloads'[j].got = downloads[j].got
             /\ (j = i /\ downloads'[j].status = s) \/ (j # i /\ downloads'[j].status = downloads[j].status)
  <2>1. CASE j = i
    <3>1. downloads'[j] = [downloads[j] EXCEPT !.status = s] /\ downloads[j] \in Loads
      BY <1>1, <1>2, <2>1
    <3> QED
      BY <2>1, <3>1 DEF Loads
  <2>2. CASE j # i
    BY <1>1, <1>2, <2>2
  <2> QED
    BY <2>1, <2>2
<1>4. downloads' \in Seq(Loads) /\ DOMAIN downloads' = 1 .. k
  BY <1>1, <1>2, <1>3
<1>5. ASSUME NEW x \in 1 .. k, NEW y \in 1 .. k, (Together(x, y))' PROVE ~ downloads'[x].alone
  <2>1. x # y /\ downloads'[x].status = "starting" /\ downloads'[y].status = "starting"
        /\ downloads'[x].page = downloads'[y].page
    BY <1>5 DEF Together, Waiting
  <2>2. Together(x, y)
    BY <1>3, <2>1 DEF Together, Waiting
  <2> QED
    BY <1>1, <1>3, <2>2 DEF DownloadInv
<1>6. ASSUME NEW x \in 1 .. k, downloads'[x].status \in {"downloading", "complete"}, downloads'[x].alone
      PROVE  downloads'[x].got = x
  <2>1. downloads[x].alone /\ downloads[x].status \in {"downloading", "complete"}
    BY <1>2, <1>3, <1>6
  <2> QED
    BY <1>1, <1>3, <2>1 DEF DownloadInv
<1> QED
  BY <1>4, <1>5, <1>6 DEF DownloadInv

LEMMA DownloadStep == ASSUME TypeOK, DownloadInv, [Next]_vars PROVE DownloadInv'
<1>1. CASE Downloads
  BY <1>1, Asked, Begun, Ended DEF Downloads
<1>2. CASE UNCHANGED downloads
  BY <1>2 DEF DownloadInv, Together, Waiting
<1>3. ASSUME NEW a \in Agents, Minor(a) PROVE UNCHANGED downloads
  BY <1>3, Minors
<1>4. ASSUME NEW a \in Agents, Major(a) PROVE UNCHANGED downloads
  BY <1>4 DEF Major, Get, Reconnect, OpenFails, Close, Reclosed, Restopped, Started, Connected, ConnectFails,
              Saved, Emptied, Downed, Closed
<1>5. ASSUME Outside PROVE UNCHANGED downloads
  BY <1>5 DEF Outside, BrowserDies, PageCloses
<1>6. ASSUME UNCHANGED vars PROVE UNCHANGED downloads
  BY <1>6 DEF vars
<1> QED
  BY <1>1, <1>2, <1>3, <1>4, <1>5, <1>6, Kinds

LEMMA DownloadsSound == ASSUME DownloadInv PROVE DownloadsOwn
  BY DEF DownloadInv, DownloadsOwn

-----------------------------------------------------------------------------
BrowserInv == TypeOK /\ SessionInv /\ ListedInv /\ RoomInv /\ LeakInv /\ DownloadInv

(* What a workspace's browser keeps through every order of launches,         *)
(* reconnects, closes, failures and tab operations of its agents.            *)
LEMMA BrowserAlways == Spec => []BrowserInv
<1>1. Init => BrowserInv
  BY TypeStart, SessionStart, ListedStart, RoomStart, LeakStart, DownloadStart DEF BrowserInv
<1>2. BrowserInv /\ [Next]_vars => BrowserInv'
  <2> SUFFICES ASSUME BrowserInv, [Next]_vars PROVE BrowserInv'
    OBVIOUS
  <2>1. TypeOK'
    BY TypeStep DEF BrowserInv
  <2> QED
    BY <2>1, SessionStep, ListedStep, RoomStep, LeakStep, DownloadStep DEF BrowserInv
<1> QED
  BY <1>1, <1>2, PTL DEF Spec

(* TabsKept, for _get_page, _adopt_existing_pages, close_tab and reconnect:  *)
(* names are unique, MAX_TABS is passed by less than the number of agents,   *)
(* and every page of the session's browser has a tab, is being closed, or    *)
(* lost its tab in one of the three ways known.                              *)
THEOREM TabsAlwaysKept == Spec => []TabsKept
<1>1. BrowserInv => TabsKept
  <2> SUFFICES ASSUME BrowserInv PROVE TabsKept
    OBVIOUS
  <2>1. FieldsAgree
    BY DEF BrowserInv, SessionInv, OneDriver, FieldsAgree
  <2> QED
    BY <2>1, RoomForTabs, ListedPages DEF BrowserInv, TabsKept
<1> QED
  BY <1>1, BrowserAlways, PTL

(* SoleBrowser, for _ensure_launched, reconnect and close: no driver runs    *)
(* unknown to the session but for a failed connection or a call begun amid   *)
(* another, and without such a call every tab that works is of the session's *)
(* own browser.                                                              *)
THEOREM BrowserAlwaysSole == Spec => []SoleBrowser
<1>1. BrowserInv => SoleBrowser
  BY BrowserSole DEF BrowserInv
<1> QED
  BY <1>1, BrowserAlways, PTL

(* DownloadsOwn, for _download_task: a file reported complete is the one its *)
(* own download asked for, unless two waited on one page at a time.          *)
THEOREM DownloadsAlwaysOwn == Spec => []DownloadsOwn
<1>1. BrowserInv => DownloadsOwn
  BY DownloadsSound DEF BrowserInv
<1> QED
  BY <1>1, BrowserAlways, PTL
=============================================================================
