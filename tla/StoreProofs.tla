----------------------------- MODULE StoreProofs -----------------------------
(***************************************************************************)
(* Proofs about the two stores of the interface, each for every value of   *)
(* its constants: Workbench, the open tabs and what they show of the       *)
(* workspace, and WebStore, the document a browser keeps.                  *)
(*                                                                         *)
(* Workbench.  The strips on screen, kept and written for a restart are    *)
(* sound (DesksInv); a tab nobody changed shows what was last saved        *)
(* (CleanInv); a tab that waits does so for a send it made itself          *)
(* (PendingInv); the switch under way says which workspace the backend has *)
(* open (SwitchInv), so that folders are those of their workspace          *)
(* (FoldersInv); and what the store and the backend differ in is being     *)
(* saved, deleted or read (StoreInv).                                      *)
(*                                                                         *)
(* WebStore.  Outside the excused cases at most one window is busy, so     *)
(* what it has read stays true until it is done.  The invariant says where *)
(* the document is (PlaceInv), that a window that may save has found it    *)
(* (LoadedInv), what the busy window is about to write (WritesInv), and    *)
(* that a cached document is current unless news of a change are under way *)
(* (CachedInv).                                                            *)
(***************************************************************************)
EXTENDS Workbench, WebStore, SequenceTheorems, WellFoundedInduction, TLAPS

-----------------------------------------------------------------------------
(* Sequences *)

\* every non-empty set of natural numbers has a least element
LEMMA LeastNumber ==
  ASSUME NEW T \in SUBSET Nat, T # {}
  PROVE  \E n \in T : \A m \in T : n <= m
<1> DEFINE R == {ss \in Nat \X Nat : ss[1] < ss[2]}
<1>1. IsWellFoundedOn(R, Nat)
  BY NatLessThanWellFounded DEF OpToRel
<1> HIDE DEF R
<1>2. PICK n \in T : \A m \in T : ~(<<m, n>> \in R)
  BY <1>1, WFMin
<1>3. ASSUME NEW m \in T PROVE n <= m
  <2>1. m \in Nat /\ n \in Nat OBVIOUS
  <2>2. ~(m < n) BY <1>2, <2>1 DEF R
  <2> QED BY <2>1, <2>2
<1> QED BY <1>3

OnlyUpTo(g, s, S, n) ==
  g = [i \in 0..n |-> IF i = 0 THEN <<>> ELSE IF s[i] \in S THEN Append(g[i - 1], s[i]) ELSE g[i - 1]]

LEMMA OnlyExists ==
  ASSUME NEW s, NEW S, NEW n \in Nat
  PROVE  \E g : OnlyUpTo(g, s, S, n)
<1> DEFINE T == {k \in Nat : ~\E g : OnlyUpTo(g, s, S, k)}
<1> SUFFICES ASSUME T # {} PROVE FALSE
  OBVIOUS
<1>1. PICK k \in T : \A m \in T : k <= m
  BY LeastNumber
<1>2. k # 0
  <2> DEFINE g == [i \in 0..0 |-> <<>>]
  <2>1. OnlyUpTo(g, s, S, 0) BY DEF OnlyUpTo
  <2> QED BY <2>1
<1>3. k - 1 \in Nat /\ k - 1 \notin T
  BY <1>1, <1>2
<1>4. PICK g : OnlyUpTo(g, s, S, k - 1)
  BY <1>3
<1> DEFINE h == [i \in 0..k |-> IF i < k THEN g[i] ELSE IF s[k] \in S THEN Append(g[k - 1], s[k]) ELSE g[k - 1]]
<1>5. OnlyUpTo(h, s, S, k)
  <2>1. \A i \in 0..(k-1) : h[i] = g[i]
    BY <1>3
  <2>2. ASSUME NEW i \in 0..k
        PROVE  h[i] = IF i = 0 THEN <<>> ELSE IF s[i] \in S THEN Append(h[i - 1], s[i]) ELSE h[i - 1]
    <3>1. CASE i = 0
      BY <3>1, <1>2, <1>4, <1>3, <2>1 DEF OnlyUpTo
    <3>2. CASE i # 0 /\ i < k
      <4>1. i \in 0..(k-1) /\ i - 1 \in 0..(k-1) BY <3>2, <1>3
      <4>2. g[i] = IF i = 0 THEN <<>> ELSE IF s[i] \in S THEN Append(g[i - 1], s[i]) ELSE g[i - 1]
        BY <4>1, <1>4 DEF OnlyUpTo
      <4> HIDE DEF h
      <4> QED BY <4>1, <4>2, <2>1, <3>2
    <3>3. CASE i = k
      <4>1. k - 1 \in 0..(k-1) /\ ~(k < k) /\ k \in 0..k BY <1>3
      <4>2. h[k] = IF s[k] \in S THEN Append(g[k - 1], s[k]) ELSE g[k - 1] BY <4>1
      <4> HIDE DEF h
      <4> QED BY <4>1, <4>2, <2>1, <3>3, <1>2
    <3> QED BY <3>1, <3>2, <3>3, <1>1
  <2> DEFINE r == [i \in 0..k |-> IF i = 0 THEN <<>> ELSE IF s[i] \in S THEN Append(h[i - 1], s[i]) ELSE h[i - 1]]
  <2>3. h = [i \in 0..k |-> h[i]] OBVIOUS
  <2> HIDE DEF h
  <2>4. r = [i \in 0..k |-> h[i]] BY <2>2
  <2>5. h = r BY <2>3, <2>4
  <2> QED BY <2>5 DEF OnlyUpTo
<1> QED BY <1>1, <1>5

LEMMA OnlyIs ==
  ASSUME NEW s, NEW S, Len(s) \in Nat
  PROVE  \E g : OnlyUpTo(g, s, S, Len(s)) /\ Only(s, S) = g[Len(s)]
<1> DEFINE F == CHOOSE g : OnlyUpTo(g, s, S, Len(s))
<1>1. OnlyUpTo(F, s, S, Len(s))
  BY OnlyExists
<1>2. Only(s, S) = F[Len(s)]
  BY DEF Only, OnlyUpTo
<1> QED BY <1>1, <1>2

\* r is the subsequence of what is in S of s: e says where its elements are in s
Embeds(e, r, s, S) ==
  /\ e \in [1..Len(r) -> 1..Len(s)]
  /\ \A k \in 1..Len(r) : r[k] = s[e[k]] /\ s[e[k]] \in S
  /\ \A k, l \in 1..Len(r) : k < l => e[k] < e[l]
  /\ \A i \in 1..Len(s) : s[i] \in S => \E k \in 1..Len(r) : e[k] = i

IsOnly(r, s, S, X) ==
  /\ r \in Seq(X) /\ Len(r) <= Len(s)
  /\ \E e : Embeds(e, r, s, S)

LEMMA OnlyFacts ==
  ASSUME NEW X, NEW s \in Seq(X), NEW S
  PROVE  IsOnly(Only(s, S), s, S, X)
<1>1. Len(s) \in Nat
  OBVIOUS
<1>2. PICK g : OnlyUpTo(g, s, S, Len(s)) /\ Only(s, S) = g[Len(s)]
  BY <1>1, OnlyIs
<1> DEFINE Fits(r, n, e) ==
             /\ r \in Seq(X) /\ Len(r) <= n
             /\ e \in [1..Len(r) -> 1..n]
             /\ \A k \in 1..Len(r) : r[k] = s[e[k]] /\ s[e[k]] \in S
             /\ \A k, l \in 1..Len(r) : k < l => e[k] < e[l]
             /\ \A i \in 1..n : s[i] \in S => \E k \in 1..Len(r) : e[k] = i
<1> DEFINE T == {n \in 0..Len(s) : ~\E e : Fits(g[n], n, e)}
<1> SUFFICES T = {}
  <2>1. Len(s) \notin T
    OBVIOUS
  <2> HIDE DEF Fits
  <2>2. PICK e : Fits(g[Len(s)], Len(s), e)
    BY <1>1, <2>1
  <2>3. Embeds(e, Only(s, S), s, S)
    BY <1>2, <2>2 DEF Fits, Embeds
  <2> QED BY <1>2, <2>2, <2>3 DEF Fits, IsOnly
<1> SUFFICES ASSUME T # {} PROVE FALSE
  OBVIOUS
<1> HIDE DEF Fits
<1>3. PICK n \in T : \A m \in T : n <= m
  <2>1. T \in SUBSET Nat
    BY <1>1
  <2> QED BY <2>1, LeastNumber
<1>4. n # 0
  <2>1. g[0] = <<>>
    BY <1>1, <1>2 DEF OnlyUpTo
  <2>2. <<>> \in [1..0 -> 1..0]
    OBVIOUS
  <2>3. Fits(<<>>, 0, <<>>)
    BY <2>2 DEF Fits
  <2> QED BY <2>1, <2>3
<1>5. n \in 1..Len(s) /\ n - 1 \in 0..Len(s) /\ n - 1 \notin T
  BY <1>1, <1>3, <1>4
<1>6. PICK e : Fits(g[n - 1], n - 1, e)
  BY <1>5
<1>7. g[n] = IF s[n] \in S THEN Append(g[n - 1], s[n]) ELSE g[n - 1]
  BY <1>1, <1>2, <1>4, <1>5 DEF OnlyUpTo
<1>8. CASE s[n] \notin S
  <2>1. Fits(g[n - 1], n, e)
    <3>1. 1..(n - 1) \subseteq 1..n
      BY <1>5
    <3>2. e \in [1..Len(g[n - 1]) -> 1..n]
      BY <1>6, <3>1 DEF Fits
    <3>3. ASSUME NEW i \in 1..n, s[i] \in S PROVE i \in 1..(n - 1)
      BY <1>5, <1>8, <3>3
    <3> QED BY <1>5, <1>6, <3>2, <3>3 DEF Fits
  <2> QED BY <1>7, <1>8, <2>1
<1>9. CASE s[n] \in S
  <2> DEFINE r == g[n - 1]
             L == Len(r)
             q == Append(r, s[n])
             f == [k \in 1..(L + 1) |-> IF k = L + 1 THEN n ELSE e[k]]
  <2>1. r \in Seq(X) /\ L \in Nat /\ L <= n - 1 /\ s[n] \in X
    BY <1>5, <1>6, ElementOfSeq DEF Fits
  <2>2. q \in Seq(X) /\ Len(q) = L + 1 /\ q[L + 1] = s[n] /\ \A k \in 1..L : q[k] = r[k]
    BY <2>1, AppendProperties
  <2>3. \A k \in 1..L : e[k] \in 1..(n - 1) /\ r[k] = s[e[k]] /\ s[e[k]] \in S
    BY <1>6 DEF Fits
  <2>4. \A k \in 1..L : f[k] = e[k]
    BY <2>1
  <2>5. f[L + 1] = n
    BY <2>1
  <2>6. f \in [1..(L + 1) -> 1..n]
    BY <1>5, <2>1, <2>3
  <2>11. \A k, l \in 1..L : k < l => e[k] < e[l]
    BY <1>6 DEF Fits
  <2>12. \A i \in 1..(n - 1) : s[i] \in S => \E k \in 1..L : e[k] = i
    BY <1>6 DEF Fits
  <2> HIDE DEF f, q, r, L
  <2>7. \A k \in 1..(L + 1) : q[k] = s[f[k]] /\ s[f[k]] \in S
    <3> SUFFICES ASSUME NEW k \in 1..(L + 1) PROVE q[k] = s[f[k]] /\ s[f[k]] \in S
      OBVIOUS
    <3>1. CASE k = L + 1
      BY <1>9, <2>2, <2>5, <3>1
    <3>2. CASE k \in 1..L
      BY <2>2, <2>3, <2>4, <3>2
    <3> QED BY <2>1, <3>1, <3>2
  <2>8. \A k, l \in 1..(L + 1) : k < l => f[k] < f[l]
    <3> SUFFICES ASSUME NEW k \in 1..(L + 1), NEW l \in 1..(L + 1), k < l PROVE f[k] < f[l]
      OBVIOUS
    <3>1. k \in 1..L
      BY <2>1
    <3>2. CASE l = L + 1
      BY <1>5, <2>3, <2>4, <2>5, <3>1, <3>2
    <3>3. CASE l \in 1..L
      BY <2>11, <2>4, <3>1, <3>3
    <3> QED BY <2>1, <3>2, <3>3
  <2>9. \A i \in 1..n : s[i] \in S => \E k \in 1..(L + 1) : f[k] = i
    <3> SUFFICES ASSUME NEW i \in 1..n, s[i] \in S PROVE \E k \in 1..(L + 1) : f[k] = i
      OBVIOUS
    <3>1. CASE i = n
      BY <2>1, <2>5, <3>1
    <3>2. CASE i \in 1..(n - 1)
      <4>1. PICK k \in 1..L : e[k] = i
        BY <2>12, <3>2
      <4> QED BY <2>1, <2>4, <4>1
    <3> QED BY <1>5, <3>1, <3>2
  <2>10. Fits(q, n, f)
    BY <1>5, <2>1, <2>2, <2>6, <2>7, <2>8, <2>9 DEF Fits
  <2> QED BY <1>7, <1>9, <2>10 DEF q, r
<1> QED BY <1>3, <1>8, <1>9

\* the greatest of some numbers below a bound
LEMMA GreatestNumber ==
  ASSUME NEW S \in SUBSET Nat, S # {}, NEW n \in Nat, \A x \in S : x < n
  PROVE  Max(S) \in S /\ \A x \in S : x <= Max(S)
<1> DEFINE T == {m \in Nat : \A x \in S : x <= m}
<1>1. T \in SUBSET Nat /\ n \in T
  OBVIOUS
<1>2. PICK m \in T : \A k \in T : m <= k
  BY <1>1, LeastNumber
<1>3. m \in S
  <2> SUFFICES ASSUME m \notin S PROVE FALSE
    OBVIOUS
  <2>1. PICK y \in S : TRUE
    OBVIOUS
  <2>2. \A x \in S : x <= m /\ x # m
    BY <1>2
  <2>3. m - 1 \in Nat
    BY <1>2, <2>1, <2>2
  <2>4. \A x \in S : x <= m - 1
    BY <1>2, <2>2, <2>3
  <2> QED BY <1>2, <2>3, <2>4
<1>4. \A x \in S : m >= x
  BY <1>2
<1> DEFINE P(z) == \A x \in S : z >= x
<1>5. \E z \in S : P(z)
  BY <1>3, <1>4
<1>6. Max(S) \in S /\ P(Max(S))
  BY <1>5 DEF Max
<1> QED BY <1>6

\* the least of some numbers
LEMMA LeastIndex ==
  ASSUME NEW S \in SUBSET Nat, S # {}
  PROVE  Min(S) \in S
<1>1. PICK m \in S : \A k \in S : m <= k
  BY LeastNumber
<1>2. \E z \in S : \A x \in S : z =< x
  BY <1>1
<1> QED BY <1>2 DEF Min

-----------------------------------------------------------------------------
(* The types of the tabs *)

Ids == Rids \cup {None}
Contents == Texts \cup {None}
Requests == [Rids -> Contents]
Tab == [id : Nat, rid : Ids, text : Texts, preview : BOOLEAN, pending : Nat, resp : Nat,
        disk : Contents, vanished : Contents, touched : BOOLEAN, apart : BOOLEAN]
Desk == [tabs : Seq(Tab), active : Nat, next : Nat, requests : Requests]
KeptTab == [id : Nat, rid : Ids, text : Texts, preview : BOOLEAN, isSaved : BOOLEAN,
            touched : BOOLEAN, apart : BOOLEAN]
KeptDesk == [tabs : Seq(KeptTab), active : Nat, next : Nat]

\* ids are distinct and below the next one
IsNumbered(strip, next) ==
  /\ \A i, j \in 1..Len(strip) : strip[i].id = strip[j].id => i = j
  /\ \A i \in 1..Len(strip) : strip[i].id < next

HasActive(strip, active) == \E i \in 1..Len(strip) : strip[i].id = active

\* nothing was typed into a preview
PreviewsAreClean(strip) == \A i \in 1..Len(strip) : strip[i].preview => ~strip[i].touched

IsStrip(d) ==
  /\ Len(d.tabs) > 0 /\ IsNumbered(d.tabs, d.next) /\ HasActive(d.tabs, d.active)
  /\ PreviewsAreClean(d.tabs)

DeskIsSound(d) == d \in Desk /\ IsStrip(d)
KeptIsSound(k) == k \in KeptDesk /\ IsStrip(k)

\* a tab nobody has changed shows what was last saved of its request
IsClean(t, requests) == t.rid # None /\ ~t.touched /\ ~t.apart => LastSaved(t, requests) = t.text
DeskIsClean(d) == \A i \in 1..Len(d.tabs) : IsClean(d.tabs[i], d.requests)
KeptIsClean(k) == \A i \in 1..Len(k.tabs) :
                    k.tabs[i].rid # None /\ ~k.tabs[i].touched /\ ~k.tabs[i].apart => k.tabs[i].isSaved

\* a tab that waits for a send is the one that made it, in the workspace it made it in
Awaits(d, p) ==
  \A i \in 1..Len(d.tabs) : d.tabs[i].pending # 0 =>
    /\ d.tabs[i].pending \in 1..Len(sends)
    /\ sends[d.tabs[i].pending].tab = d.tabs[i].id /\ sends[d.tabs[i].pending].path = p

\* where the tabs of a new strip e come from, and where the drafts of d stay
Follows(d, e) ==
  \A i \in 1..Len(e.tabs) :
    \/ \E j \in 1..Len(d.tabs) : /\ d.tabs[j].id = e.tabs[i].id
                                 /\ d.tabs[j].pending = e.tabs[i].pending
                                 /\ d.tabs[j].resp = e.tabs[i].resp
    \/ /\ e.tabs[i].pending = 0
       /\ e.tabs[i].resp = 0 \/ (e.tabs[i].rid # None /\ last[e.tabs[i].rid] = e.tabs[i].resp)

KeepsDrafts(d, e) ==
  \A i \in 1..Len(d.tabs) : IsDraft(d.tabs[i], d) =>
    \E j \in 1..Len(e.tabs) : e.tabs[j].id = d.tabs[i].id /\ e.tabs[j].text = d.tabs[i].text

LEMMA DeskFields ==
  ASSUME NEW d, DeskIsSound(d)
  PROVE  /\ d.tabs \in Seq(Tab) /\ Len(d.tabs) \in Nat /\ d.active \in Nat /\ d.next \in Nat
         /\ d.requests \in Requests /\ \A i \in 1..Len(d.tabs) : d.tabs[i] \in Tab
BY ElementOfSeq DEF DeskIsSound, Desk

LEMMA WellFormedIs ==
  ASSUME NEW d, NEW T, d.tabs \in Seq(T)
  PROVE  IsStrip(d) => WellFormed(d)
<1> DEFINE f == [i \in 1..Len(d.tabs) |-> d.tabs[i].id]
<1>1. DOMAIN d.tabs = 1..Len(d.tabs) /\ DOMAIN f = 1..Len(d.tabs)
  OBVIOUS
<1>2. IsStrip(d) => IsInjective(f)
  BY DEF IsStrip, IsNumbered, IsInjective
<1>3. IsStrip(d) => d.active \in TabIds(d.tabs) /\ \A t \in Range(d.tabs) : t.id < d.next
  BY <1>1 DEF IsStrip, IsNumbered, HasActive, TabIds, Range
<1> QED BY <1>2, <1>3 DEF WellFormed, IsStrip

LEMMA TabAt ==
  ASSUME NEW d, DeskIsSound(d), NEW id \in TabIds(d.tabs)
  PROVE  /\ IndexOf(d.tabs, id) \in 1..Len(d.tabs) /\ d.tabs[IndexOf(d.tabs, id)].id = id
         /\ \A i \in 1..Len(d.tabs) : d.tabs[i].id = id => i = IndexOf(d.tabs, id)
<1>1. \E i \in 1..Len(d.tabs) : d.tabs[i].id = id
  BY DEF TabIds
<1>2. IndexOf(d.tabs, id) \in 1..Len(d.tabs) /\ d.tabs[IndexOf(d.tabs, id)].id = id
  BY <1>1 DEF IndexOf
<1> QED BY <1>2 DEF DeskIsSound, IsStrip, IsNumbered

\* a strip whose tabs are updated one by one
LEMMA MapSound ==
  ASSUME NEW d, DeskIsSound(d), NEW e \in Desk, Len(e.tabs) = Len(d.tabs), e.next = d.next,
         \A i \in 1..Len(d.tabs) : e.tabs[i].id = d.tabs[i].id,
         HasActive(d.tabs, e.active), PreviewsAreClean(e.tabs)
  PROVE  DeskIsSound(e)
BY DEF DeskIsSound, IsStrip, IsNumbered, HasActive

LEMMA FreshIsSound ==
  /\ DeskIsSound(FreshDesk) /\ DeskIsClean(FreshDesk)
  /\ \A p : Awaits(FreshDesk, p)
<1> DEFINE t == [id |-> 1, rid |-> None, text |-> Blank, preview |-> FALSE, pending |-> 0,
                 resp |-> 0, disk |-> None, vanished |-> None, touched |-> FALSE, apart |-> FALSE]
<1>1. t \in Tab
  BY WorkbenchAssumption DEF Tab, Ids, Contents
<1>2. <<t>> \in Seq(Tab) /\ Len(<<t>>) = 1 /\ <<t>>[1] = t
  BY <1>1
<1>3. t.id = 1 /\ ~t.preview /\ t.pending = 0 /\ t.rid = None
  OBVIOUS
<1> HIDE DEF t
<1>4. FreshDesk = [tabs |-> <<t>>, active |-> 1, next |-> 2, requests |-> [r \in Rids |-> None]]
  BY DEF FreshDesk, t
<1>5. FreshDesk \in Desk
  BY <1>2, <1>4 DEF Desk, Requests, Contents
<1>6. FreshDesk.tabs = <<t>> /\ FreshDesk.active = 1 /\ FreshDesk.next = 2
  BY <1>4
<1> QED BY <1>2, <1>3, <1>5, <1>6
        DEF DeskIsSound, IsStrip, IsNumbered, HasActive, PreviewsAreClean, DeskIsClean, IsClean, Awaits

-----------------------------------------------------------------------------
(* What the operations do to a strip *)

LEMMA Created ==
  ASSUME last \in [Rids -> Nat], NEW id \in Nat, NEW rid \in Ids, NEW text \in Texts,
         NEW preview \in BOOLEAN
  PROVE  LET t == CreateTab(id, rid, text, preview)
         IN  /\ t \in Tab
             /\ t.id = id /\ t.rid = rid /\ t.text = text /\ t.preview = preview /\ t.pending = 0
             /\ ~t.touched /\ ~t.apart /\ t.vanished = None /\ t.disk = None
             /\ t.resp = 0 \/ (t.rid # None /\ last[t.rid] = t.resp)
<1>1. (IF rid \in Rids THEN last[rid] ELSE 0) \in Nat
  OBVIOUS
<1>2. rid \in Rids => rid # None
  BY WorkbenchAssumption
<1> QED BY <1>1, <1>2 DEF CreateTab, Tab, Ids, Contents

LEMMA Appended ==
  ASSUME last \in [Rids -> Nat], NEW d \in Desk, NEW rid \in Ids, NEW text \in Texts,
         NEW preview \in BOOLEAN
  PROVE  LET e == AppendTab(d, rid, text, preview)
         IN  /\ e \in Desk /\ e.requests = d.requests /\ e.active = d.next /\ e.next = d.next + 1
             /\ Len(e.tabs) = Len(d.tabs) + 1
             /\ \A i \in 1..Len(d.tabs) : e.tabs[i] = d.tabs[i]
             /\ e.tabs[Len(d.tabs) + 1] = CreateTab(d.next, rid, text, preview)
<1>1. d.tabs \in Seq(Tab) /\ d.next \in Nat
  BY DEF Desk
<1> DEFINE t == CreateTab(d.next, rid, text, preview)
<1>2. t \in Tab
  BY <1>1, Created
<1> HIDE DEF t
<1>3. /\ Append(d.tabs, t) \in Seq(Tab) /\ Len(Append(d.tabs, t)) = Len(d.tabs) + 1
      /\ \A i \in 1..Len(d.tabs) : Append(d.tabs, t)[i] = d.tabs[i]
      /\ Append(d.tabs, t)[Len(d.tabs) + 1] = t
  BY <1>1, <1>2, AppendProperties
<1>4. AppendTab(d, rid, text, preview)
        = [d EXCEPT !.tabs = Append(d.tabs, t), !.active = d.next, !.next = d.next + 1]
  BY DEF AppendTab, t
<1> DEFINE strip == Append(d.tabs, t)
           e == [d EXCEPT !.tabs = strip, !.active = d.next, !.next = d.next + 1]
<1>5. strip \in Seq(Tab)
  BY <1>3
<1> HIDE DEF strip
<1>6. e \in Desk /\ e.tabs = strip /\ e.active = d.next /\ e.next = d.next + 1 /\ e.requests = d.requests
  <2>1. d.next + 1 \in Nat
    BY <1>1
  <2>2. \A k \in Nat : LET f == [d EXCEPT !.tabs = strip, !.active = d.next, !.next = k]
                       IN  f \in Desk /\ f.tabs = strip /\ f.active = d.next /\ f.next = k /\ f.requests = d.requests
    BY <1>1, <1>5 DEF Desk
  <2> QED BY <2>1, <2>2
<1> QED BY <1>3, <1>4, <1>6 DEF strip, t

LEMMA AppendIsSound ==
  ASSUME last \in [Rids -> Nat], NEW d \in Desk, NEW rid \in Ids, NEW text \in Texts,
         NEW preview \in BOOLEAN, IsNumbered(d.tabs, d.next), PreviewsAreClean(d.tabs)
  PROVE  LET e == AppendTab(d, rid, text, preview)
         IN  /\ DeskIsSound(e) /\ Follows(d, e) /\ KeepsDrafts(d, e)
             /\ DeskIsClean(d) /\ (rid # None => d.requests[rid] = text) => DeskIsClean(e)
<1> DEFINE e == AppendTab(d, rid, text, preview)
           n == Len(d.tabs) + 1
<1>1. /\ e \in Desk /\ e.requests = d.requests /\ e.active = d.next /\ e.next = d.next + 1
      /\ Len(e.tabs) = n /\ \A i \in 1..Len(d.tabs) : e.tabs[i] = d.tabs[i]
      /\ e.tabs[n] = CreateTab(d.next, rid, text, preview)
  BY Appended
<1>2. d.tabs \in Seq(Tab) /\ d.next \in Nat /\ Len(d.tabs) \in Nat
  BY DEF Desk
<1>3. /\ e.tabs[n].id = d.next /\ e.tabs[n].pending = 0 /\ ~e.tabs[n].touched
      /\ e.tabs[n].rid = rid /\ e.tabs[n].text = text
      /\ e.tabs[n].resp = 0 \/ (e.tabs[n].rid # None /\ last[e.tabs[n].rid] = e.tabs[n].resp)
  BY <1>1, <1>2, Created
<1>4. \A i \in 1..n : i = n \/ i \in 1..Len(d.tabs)
  BY <1>2
<1>5. \A i \in 1..Len(d.tabs) : d.tabs[i].id \in Nat
  <2>1. \A i \in 1..Len(d.tabs) : d.tabs[i] \in Tab
    BY <1>2, ElementOfSeq
  <2> QED BY <2>1 DEF Tab
<1> HIDE DEF e
<1>6. IsNumbered(e.tabs, e.next)
  <2>1. \A i \in 1..Len(d.tabs) : d.tabs[i].id < d.next
    BY DEF IsNumbered
  <2>2. ASSUME NEW i \in 1..n, NEW j \in 1..n, e.tabs[i].id = e.tabs[j].id PROVE i = j
    <3>1. CASE i \in 1..Len(d.tabs) /\ j \in 1..Len(d.tabs)
      BY <1>1, <2>2, <3>1 DEF IsNumbered
    <3>2. CASE i = n /\ j \in 1..Len(d.tabs)
      <4>1. d.tabs[j].id = d.next
        BY <1>1, <1>3, <2>2, <3>2
      <4> QED BY <1>2, <2>1, <3>2, <4>1
    <3>3. CASE j = n /\ i \in 1..Len(d.tabs)
      <4>1. d.tabs[i].id = d.next
        BY <1>1, <1>3, <2>2, <3>3
      <4> QED BY <1>2, <2>1, <3>3, <4>1
    <3> QED BY <1>4, <3>1, <3>2, <3>3
  <2>3. ASSUME NEW i \in 1..n PROVE e.tabs[i].id < e.next
    <3>1. CASE i \in 1..Len(d.tabs)
      <4>1. e.tabs[i].id = d.tabs[i].id
        BY <1>1, <3>1
      <4> QED BY <1>1, <1>2, <1>5, <2>1, <3>1, <4>1
    <3>2. CASE i = n
      BY <1>1, <1>2, <1>3, <3>2
    <3> QED BY <1>4, <3>1, <3>2
  <2> QED BY <1>1, <2>2, <2>3 DEF IsNumbered
<1>7. HasActive(e.tabs, e.active)
  BY <1>1, <1>2, <1>3 DEF HasActive
<1>8. PreviewsAreClean(e.tabs)
  BY <1>1, <1>3, <1>4 DEF PreviewsAreClean
<1>9. DeskIsSound(e)
  BY <1>1, <1>2, <1>6, <1>7, <1>8 DEF DeskIsSound, IsStrip
<1>10. Follows(d, e)
  BY <1>1, <1>3, <1>4 DEF Follows
<1>11. KeepsDrafts(d, e)
  <2>1. 1..Len(d.tabs) \subseteq 1..Len(e.tabs)
    BY <1>1, <1>2
  <2> QED BY <1>1, <2>1 DEF KeepsDrafts
<1>12. ASSUME DeskIsClean(d), rid # None => d.requests[rid] = text PROVE DeskIsClean(e)
  <2>1. IsClean(e.tabs[n], e.requests)
    BY <1>1, <1>3, <1>12, WorkbenchAssumption DEF IsClean, LastSaved, SavedOf
  <2> QED BY <1>1, <1>4, <1>12, <2>1 DEF DeskIsClean
<1> QED BY <1>9, <1>10, <1>11, <1>12 DEF e

\* a strip in which some tabs are updated, each by itself
IsUpdate(d, e) ==
  /\ e \in Desk /\ Len(e.tabs) = Len(d.tabs) /\ e.next = d.next /\ HasActive(d.tabs, e.active)
  /\ \A i \in 1..Len(d.tabs) : e.tabs[i].id = d.tabs[i].id

\* the tab is as it was but for its preview
IsSame(t, u) == /\ u.id = t.id /\ u.rid = t.rid /\ u.text = t.text /\ u.pending = t.pending /\ u.resp = t.resp
                /\ u.touched = t.touched /\ u.apart = t.apart /\ u.vanished = t.vanished
                /\ u.preview => t.preview

\* the tab was opened anew with a request, and was no draft before
IsOpened(t, u, requests) ==
  /\ u.id = t.id /\ u.pending = 0 /\ ~u.touched /\ ~u.apart
  /\ u.resp = 0 \/ (u.rid # None /\ last[u.rid] = u.resp)
  /\ u.rid # None => requests[u.rid] = u.text
  /\ IsBlank(t) \/ ~t.touched

LEMMA OpenedStrip ==
  ASSUME NEW d, DeskIsSound(d), NEW e, IsUpdate(d, e), e.requests = d.requests,
         \A i \in 1..Len(d.tabs) :
           IsSame(d.tabs[i], e.tabs[i]) \/ IsOpened(d.tabs[i], e.tabs[i], d.requests)
  PROVE  /\ DeskIsSound(e) /\ Follows(d, e) /\ KeepsDrafts(d, e)
         /\ DeskIsClean(d) => DeskIsClean(e)
<1>1. PreviewsAreClean(e.tabs)
  BY DEF DeskIsSound, IsStrip, PreviewsAreClean, IsUpdate, IsSame, IsOpened
<1>2. DeskIsSound(e)
  BY <1>1, MapSound DEF IsUpdate
<1>3. Follows(d, e)
  BY DEF Follows, IsUpdate, IsSame, IsOpened
<1>4. KeepsDrafts(d, e)
  BY DEF KeepsDrafts, IsUpdate, IsSame, IsOpened, IsDraft
<1>5. ASSUME DeskIsClean(d) PROVE DeskIsClean(e)
  <2>1. ASSUME NEW i \in 1..Len(d.tabs), IsClean(d.tabs[i], d.requests)
        PROVE  IsClean(e.tabs[i], d.requests)
    <3>1. CASE IsSame(d.tabs[i], e.tabs[i])
      BY <2>1, <3>1 DEF IsSame, IsClean, LastSaved, SavedOf
    <3>2. CASE IsOpened(d.tabs[i], e.tabs[i], d.requests)
      <4>1. e.tabs[i].rid # None => e.tabs[i].text # None
        <5>1. e.tabs[i] \in Tab
          BY <1>2, DeskFields DEF IsUpdate
        <5> QED BY <5>1, WorkbenchAssumption DEF Tab
      <4> QED BY <3>2, <4>1 DEF IsOpened, IsClean, LastSaved, SavedOf
    <3> QED BY <3>1, <3>2
  <2> QED BY <1>5, <2>1 DEF DeskIsClean, IsUpdate
<1> QED BY <1>2, <1>3, <1>4, <1>5

LEMMA MappedStrip ==
  ASSUME NEW d \in Desk, NEW strip, DOMAIN strip = 1..Len(d.tabs), strip = [i \in 1..Len(d.tabs) |-> strip[i]],
         \A i \in 1..Len(d.tabs) : strip[i] \in Tab
  PROVE  strip \in Seq(Tab) /\ Len(strip) = Len(d.tabs)
<1>1. d.tabs \in Seq(Tab) /\ Len(d.tabs) \in Nat
  BY DEF Desk
<1>2. strip \in [1..Len(d.tabs) -> Tab]
  OBVIOUS
<1> QED BY <1>1, <1>2, SeqDef

\* a saved request is opened
LEMMA OpenIsSound ==
  ASSUME last \in [Rids -> Nat], NEW d, DeskIsSound(d), NEW rid \in Rids, NEW preview \in BOOLEAN,
         d.requests[rid] # None
  PROVE  LET e == TabsWithOpened(d, rid, preview)
         IN  /\ DeskIsSound(e) /\ Follows(d, e) /\ KeepsDrafts(d, e) /\ e.requests = d.requests
             /\ DeskIsClean(d) => DeskIsClean(e)
<1> DEFINE e == TabsWithOpened(d, rid, preview)
           n == Len(d.tabs)
           Holding == {i \in 1..n : d.tabs[i].rid = rid}
           Replaceable == {i \in 1..n : d.tabs[i].pending = 0 /\ d.tabs[i].preview}
           Opened(t) == CreateTab(t.id, rid, d.requests[rid], preview)
           front == IndexOf(d.tabs, d.active)
           Shown(i) == [d EXCEPT !.active = d.tabs[i].id,
                                 !.tabs = [k \in 1..n |-> IF d.tabs[k].id = d.tabs[i].id
                                                          THEN [d.tabs[k] EXCEPT !.preview = @ /\ preview]
                                                          ELSE d.tabs[k]]]
           OpenedIn(i, active) == [d EXCEPT !.tabs = [k \in 1..n |-> IF d.tabs[k].id = d.tabs[i].id
                                                                     THEN Opened(d.tabs[k]) ELSE d.tabs[k]],
                                            !.active = active]
<1>1. /\ d \in Desk /\ d.tabs \in Seq(Tab) /\ n \in Nat /\ d.active \in Nat /\ d.next \in Nat
      /\ d.requests \in Requests /\ \A i \in 1..n : d.tabs[i] \in Tab
  BY DeskFields DEF DeskIsSound
<1>2. \A i \in 1..n : d.tabs[i].id \in Nat
  BY <1>1 DEF Tab
<1>3. rid \in Ids /\ rid # None /\ d.requests[rid] \in Texts
  BY <1>1, WorkbenchAssumption DEF Ids, Requests, Contents
<1>4. front \in 1..n /\ d.tabs[front].id = d.active
  <2>1. d.active \in TabIds(d.tabs)
    BY DEF DeskIsSound, IsStrip, HasActive, TabIds
  <2> QED BY <2>1, TabAt
<1>5. \/ \E i \in Holding : e = Shown(i)
      \/ IsReusable(d.tabs[front]) /\ e = OpenedIn(front, d.active)
      \/ \E i \in Replaceable : e = OpenedIn(i, d.tabs[i].id)
      \/ e = AppendTab(d, rid, d.requests[rid], preview)
  <2>1. Holding # {} => Min(Holding) \in Holding /\ Min(Holding) # 0
    <3>1. Holding \in SUBSET Nat /\ \A i \in Holding : i # 0
      BY <1>1
    <3> HIDE DEF Holding
    <3> QED BY <3>1, LeastIndex
  <2>2. Replaceable # {} => Min(Replaceable) \in Replaceable /\ Min(Replaceable) # 0
    <3>1. Replaceable \in SUBSET Nat /\ \A i \in Replaceable : i # 0
      BY <1>1
    <3> HIDE DEF Replaceable
    <3> QED BY <3>1, LeastIndex
  <2>3. CASE Holding # {}
    <3>1. e = Shown(Min(Holding))
      BY <2>1, <2>3 DEF TabsWithOpened, SelectInSeq, MapTab, MapTabs
    <3> QED BY <2>1, <2>3, <3>1
  <2>4. CASE Holding = {} /\ IsReusable(d.tabs[front])
    <3>1. e = [d EXCEPT !.tabs = [k \in 1..n |-> IF d.tabs[k].id = d.tabs[front].id
                                                 THEN Opened(d.tabs[k]) ELSE d.tabs[k]]]
      BY <2>4 DEF TabsWithOpened, SelectInSeq, MapTab, MapTabs
    <3>2. e = OpenedIn(front, d.active)
      BY <1>1, <3>1 DEF Desk
    <3> QED BY <2>4, <3>2
  <2>5. CASE Holding = {} /\ ~IsReusable(d.tabs[front]) /\ preview /\ Replaceable # {}
    <3>1. e = OpenedIn(Min(Replaceable), d.tabs[Min(Replaceable)].id)
      BY <2>2, <2>5 DEF TabsWithOpened, SelectInSeq, MapTab, MapTabs
    <3> QED BY <2>2, <2>5, <3>1
  <2>6. CASE Holding = {} /\ ~IsReusable(d.tabs[front]) /\ ~(preview /\ Replaceable # {})
    BY <2>6 DEF TabsWithOpened, SelectInSeq
  <2> QED BY <2>3, <2>4, <2>5, <2>6
<1>6. ASSUME NEW i \in 1..n, e = Shown(i) PROVE /\ IsUpdate(d, e) /\ e.requests = d.requests
                                                /\ \A k \in 1..n : IsSame(d.tabs[k], e.tabs[k])
  <2> DEFINE strip == [k \in 1..n |-> IF d.tabs[k].id = d.tabs[i].id
                                      THEN [d.tabs[k] EXCEPT !.preview = @ /\ preview]
                                      ELSE d.tabs[k]]
  <2>1. \A k \in 1..n : strip[k] \in Tab /\ IsSame(d.tabs[k], strip[k])
    BY <1>1 DEF Tab, IsSame
  <2>2. strip \in Seq(Tab) /\ Len(strip) = n
    BY <1>1, <2>1, MappedStrip
  <2>3. e = [d EXCEPT !.active = d.tabs[i].id, !.tabs = strip]
    BY <1>6
  <2> HIDE DEF strip, e
  <2>4. e \in Desk /\ e.tabs = strip /\ e.active = d.tabs[i].id /\ e.next = d.next /\ e.requests = d.requests
    BY <1>1, <1>2, <2>2, <2>3 DEF Desk
  <2> QED BY <2>1, <2>2, <2>4 DEF IsUpdate, IsSame, HasActive
<1>7. ASSUME NEW i \in 1..n, NEW active \in Nat, HasActive(d.tabs, active), e = OpenedIn(i, active),
             IsBlank(d.tabs[i]) \/ ~d.tabs[i].touched
      PROVE /\ IsUpdate(d, e) /\ e.requests = d.requests
            /\ \A k \in 1..n : IsSame(d.tabs[k], e.tabs[k]) \/ IsOpened(d.tabs[k], e.tabs[k], d.requests)
  <2> DEFINE strip == [k \in 1..n |-> IF d.tabs[k].id = d.tabs[i].id THEN Opened(d.tabs[k]) ELSE d.tabs[k]]
  <2>1. \A k \in 1..n : d.tabs[k].id = d.tabs[i].id => k = i
    BY DEF DeskIsSound, IsStrip, IsNumbered
  <2>2. Opened(d.tabs[i]) \in Tab /\ IsOpened(d.tabs[i], Opened(d.tabs[i]), d.requests)
    BY <1>2, <1>3, <1>7, Created DEF IsOpened
  <2>3. \A k \in 1..n : strip[k] \in Tab /\ strip[k].id = d.tabs[k].id
                        /\ (IsSame(d.tabs[k], strip[k]) \/ IsOpened(d.tabs[k], strip[k], d.requests))
    <3> HIDE DEF Opened
    <3> SUFFICES ASSUME NEW k \in 1..n
                 PROVE  strip[k] \in Tab /\ strip[k].id = d.tabs[k].id
                        /\ (IsSame(d.tabs[k], strip[k]) \/ IsOpened(d.tabs[k], strip[k], d.requests))
      OBVIOUS
    <3>1. CASE k = i
      BY <2>2, <3>1 DEF IsOpened
    <3>2. CASE k # i
      BY <1>1, <2>1, <3>2 DEF IsSame
    <3> QED BY <3>1, <3>2
  <2>4. strip \in Seq(Tab) /\ Len(strip) = n
    BY <1>1, <2>3, MappedStrip
  <2>5. e = [d EXCEPT !.tabs = strip, !.active = active]
    BY <1>7
  <2> HIDE DEF strip, e
  <2>6. e \in Desk /\ e.tabs = strip /\ e.active = active /\ e.next = d.next /\ e.requests = d.requests
    BY <1>1, <2>4, <2>5 DEF Desk
  <2> QED BY <1>7, <2>3, <2>4, <2>6 DEF IsUpdate
<1>8. HasActive(d.tabs, d.active) /\ \A i \in 1..n : HasActive(d.tabs, d.tabs[i].id)
  BY DEF DeskIsSound, IsStrip, HasActive
<1>9. \A i \in Replaceable : ~d.tabs[i].touched
  BY DEF DeskIsSound, IsStrip, PreviewsAreClean
<1> DEFINE Good(x) == /\ DeskIsSound(x) /\ Follows(d, x) /\ KeepsDrafts(d, x) /\ x.requests = d.requests
                      /\ DeskIsClean(d) => DeskIsClean(x)
<1>10. ASSUME NEW i \in Holding, e = Shown(i) PROVE Good(e)
  <2> HIDE DEF e, Shown
  <2> QED BY <1>6, <1>10, OpenedStrip
<1>11. ASSUME IsReusable(d.tabs[front]), e = OpenedIn(front, d.active) PROVE Good(e)
  <2>1. IsBlank(d.tabs[front])
    BY <1>11 DEF IsReusable
  <2> HIDE DEF e, OpenedIn, front
  <2>2. /\ IsUpdate(d, e) /\ e.requests = d.requests
        /\ \A k \in 1..n : IsSame(d.tabs[k], e.tabs[k]) \/ IsOpened(d.tabs[k], e.tabs[k], d.requests)
    BY <1>1, <1>4, <1>7, <1>8, <1>11, <2>1
  <2> QED BY <2>2, OpenedStrip
<1>12. ASSUME NEW i \in Replaceable, e = OpenedIn(i, d.tabs[i].id) PROVE Good(e)
  <2>1. i \in 1..n
    OBVIOUS
  <2> HIDE DEF e, OpenedIn, Replaceable
  <2>2. /\ IsUpdate(d, e) /\ e.requests = d.requests
        /\ \A k \in 1..n : IsSame(d.tabs[k], e.tabs[k]) \/ IsOpened(d.tabs[k], e.tabs[k], d.requests)
    BY <1>2, <1>7, <1>8, <1>9, <1>12, <2>1
  <2> QED BY <2>2, OpenedStrip
<1>13. ASSUME e = AppendTab(d, rid, d.requests[rid], preview) PROVE Good(e)
  <2> HIDE DEF e
  <2>1. e.requests = d.requests
    BY <1>1, <1>3, <1>13, Appended
  <2>2. IsNumbered(d.tabs, d.next) /\ PreviewsAreClean(d.tabs)
    BY DEF DeskIsSound, IsStrip
  <2> QED BY <1>1, <1>3, <1>13, <2>1, <2>2, AppendIsSound
<1> HIDE DEF Shown, OpenedIn, Holding, Replaceable, front
<1> QED BY <1>5, <1>10, <1>11, <1>12, <1>13

-----------------------------------------------------------------------------
(* Closing, moving and reopening tabs *)

\* what is left of a strip
IsPart(part, strip, closing) ==
  /\ part \in Seq(Tab) /\ Len(part) <= Len(strip)
  /\ \A k \in 1..Len(part) : \E i \in 1..Len(strip) : part[k] = strip[i] /\ strip[i].id \notin closing
  /\ \A i \in 1..Len(strip) : strip[i].id \notin closing => \E k \in 1..Len(part) : part[k] = strip[i]

LEMMA PartOfStrip ==
  ASSUME NEW strip \in Seq(Tab), NEW closing, NEW next \in Nat
  PROVE  /\ IsPart(Without(strip, closing), strip, closing)
         /\ IsNumbered(strip, next) => IsNumbered(Without(strip, closing), next)
         /\ PreviewsAreClean(strip) => PreviewsAreClean(Without(strip, closing))
<1> DEFINE S == {t \in Range(strip) : t.id \notin closing}
           part == Only(strip, S)
<1>1. part = Without(strip, closing)
  BY DEF Without
<1>2. \A i \in 1..Len(strip) : strip[i] \in S <=> strip[i].id \notin closing
  BY DEF Range
<1>3. IsOnly(part, strip, S, Tab)
  BY OnlyFacts
<1> HIDE DEF part, S
<1>13. PICK e : Embeds(e, part, strip, S)
  BY <1>3 DEF IsOnly
<1>4. /\ e \in [1..Len(part) -> 1..Len(strip)]
      /\ \A k \in 1..Len(part) : part[k] = strip[e[k]] /\ strip[e[k]] \in S
      /\ \A k, l \in 1..Len(part) : k < l => e[k] < e[l]
      /\ \A i \in 1..Len(strip) : strip[i] \in S => \E k \in 1..Len(part) : e[k] = i
  BY <1>13 DEF Embeds
<1>5. \A k \in 1..Len(part) : e[k] \in 1..Len(strip)
  BY <1>4
<1>6. IsPart(part, strip, closing)
  <2>1. \A k \in 1..Len(part) : \E i \in 1..Len(strip) : part[k] = strip[i] /\ strip[i].id \notin closing
    BY <1>2, <1>4, <1>5
  <2>2. ASSUME NEW i \in 1..Len(strip), strip[i].id \notin closing
        PROVE  \E k \in 1..Len(part) : part[k] = strip[i]
    <3>1. PICK k \in 1..Len(part) : e[k] = i
      BY <1>2, <1>4, <2>2
    <3> QED BY <1>4, <3>1
  <2> QED BY <1>3, <2>1, <2>2 DEF IsPart, IsOnly
<1>7. ASSUME IsNumbered(strip, next) PROVE IsNumbered(part, next)
  <2>1. ASSUME NEW k \in 1..Len(part), NEW l \in 1..Len(part), part[k].id = part[l].id PROVE k = l
    <3>1. e[k] = e[l]
      BY <1>4, <1>5, <1>7, <2>1 DEF IsNumbered
    <3>2. Len(part) \in Nat /\ Len(strip) \in Nat
      BY <1>3 DEF IsOnly
    <3>3. ~(k < l) /\ ~(l < k)
      BY <1>4, <1>5, <3>1, <3>2
    <3> QED BY <3>2, <3>3
  <2>2. \A k \in 1..Len(part) : part[k].id < next
    BY <1>4, <1>5, <1>7 DEF IsNumbered
  <2> QED BY <2>1, <2>2 DEF IsNumbered
<1>8. PreviewsAreClean(strip) => PreviewsAreClean(part)
  BY <1>4, <1>5 DEF PreviewsAreClean
<1> QED BY <1>1, <1>6, <1>7, <1>8

\* every tab of e is one of d or a fresh one
IsCut(d, e) ==
  \A i \in 1..Len(e.tabs) : \/ \E j \in 1..Len(d.tabs) : e.tabs[i] = d.tabs[j]
                            \/ e.tabs[i].pending = 0 /\ e.tabs[i].resp = 0

LEMMA FollowsOn ==
  ASSUME NEW b, NEW d, NEW e, Follows(b, d), IsCut(d, e)
  PROVE  Follows(b, e)
<1> SUFFICES ASSUME NEW i \in 1..Len(e.tabs), NEW t, t = e.tabs[i],
                    ~(t.pending = 0 /\ (t.resp = 0 \/ (t.rid # None /\ last[t.rid] = t.resp)))
             PROVE  \E j \in 1..Len(b.tabs) : b.tabs[j].id = t.id /\ b.tabs[j].pending = t.pending /\ b.tabs[j].resp = t.resp
  BY DEF Follows
<1>1. PICK j \in 1..Len(d.tabs) : t = d.tabs[j]
  BY DEF IsCut
<1> QED BY <1>1 DEF Follows

LEMMA CloseIsSound ==
  ASSUME last \in [Rids -> Nat], NEW d, DeskIsSound(d), NEW closing
  PROVE  LET e == WithoutTabs(d, closing)
         IN  /\ DeskIsSound(e) /\ Follows(d, e) /\ IsCut(d, e) /\ e.requests = d.requests
             /\ DeskIsClean(d) => DeskIsClean(e)
             /\ \A i \in 1..Len(d.tabs) : d.tabs[i].id \notin closing =>
                  \E k \in 1..Len(e.tabs) : e.tabs[k] = d.tabs[i]
<1> DEFINE Good(e) == /\ DeskIsSound(e) /\ Follows(d, e) /\ IsCut(d, e) /\ e.requests = d.requests
                      /\ DeskIsClean(d) => DeskIsClean(e)
                      /\ \A i \in 1..Len(d.tabs) : d.tabs[i].id \notin closing =>
                           \E k \in 1..Len(e.tabs) : e.tabs[k] = d.tabs[i]
           rest == Without(d.tabs, closing)
           upTo == SubSeq(d.tabs, 1, IndexOf(d.tabs, d.active))
           left == Without(upTo, closing)
<1>1. /\ d \in Desk /\ d.tabs \in Seq(Tab) /\ Len(d.tabs) \in Nat /\ d.active \in Nat /\ d.next \in Nat
      /\ \A i \in 1..Len(d.tabs) : d.tabs[i] \in Tab
  BY DeskFields DEF DeskIsSound
<1>2. IsPart(rest, d.tabs, closing) /\ IsNumbered(rest, d.next) /\ PreviewsAreClean(rest)
  BY <1>1, PartOfStrip DEF DeskIsSound, IsStrip
<1> HIDE DEF rest
<1>3. CASE rest = <<>>
  <2> DEFINE c == [d EXCEPT !.tabs = <<>>]
  <2>1. c \in Desk /\ c.tabs = <<>> /\ c.next = d.next /\ c.requests = d.requests
    <3> <<>> \in Seq(Tab)
      OBVIOUS
    <3> QED BY <1>1 DEF Desk
  <2>2. IsNumbered(c.tabs, c.next) /\ PreviewsAreClean(c.tabs) /\ DeskIsClean(c)
    BY <2>1 DEF IsNumbered, PreviewsAreClean, DeskIsClean
  <2>3. None \in Ids /\ Blank \in Texts
    BY WorkbenchAssumption DEF Ids
  <2> HIDE DEF c
  <2>4. /\ DeskIsSound(AppendTab(c, None, Blank, FALSE)) /\ Follows(c, AppendTab(c, None, Blank, FALSE))
        /\ DeskIsClean(AppendTab(c, None, Blank, FALSE))
    BY <2>1, <2>2, <2>3, AppendIsSound
  <2>5. AppendTab(c, None, Blank, FALSE).requests = d.requests
    BY <2>1, <2>3, Appended
  <2>6. Follows(d, AppendTab(c, None, Blank, FALSE))
    <3>1. 1..Len(c.tabs) = {}
      BY <2>1
    <3> QED BY <2>4, <3>1 DEF Follows
  <2>10. IsCut(d, AppendTab(c, None, Blank, FALSE))
    <3>1. /\ Len(AppendTab(c, None, Blank, FALSE).tabs) = 1
          /\ AppendTab(c, None, Blank, FALSE).tabs[1] = CreateTab(c.next, None, Blank, FALSE)
      <4>1. /\ Len(AppendTab(c, None, Blank, FALSE).tabs) = Len(c.tabs) + 1
            /\ AppendTab(c, None, Blank, FALSE).tabs[Len(c.tabs) + 1] = CreateTab(c.next, None, Blank, FALSE)
        BY <2>1, <2>3, Appended
      <4>2. Len(c.tabs) + 1 = 1
        BY <2>1
      <4> QED BY <4>1, <4>2
    <3>2. CreateTab(c.next, None, Blank, FALSE).pending = 0 /\ CreateTab(c.next, None, Blank, FALSE).resp = 0
      BY WorkbenchAssumption DEF CreateTab
    <3> DEFINE x == AppendTab(c, None, Blank, FALSE)
    <3>3. \A i \in 1..Len(x.tabs) : x.tabs[i].pending = 0 /\ x.tabs[i].resp = 0
      <4>2. Len(x.tabs) = 1
        BY <3>1
      <4> HIDE DEF x
      <4>3. \A i \in 1..1 : i = 1
        OBVIOUS
      <4>1. \A i \in 1..Len(x.tabs) : i = 1
        BY <4>2, <4>3
      <4> QED BY <3>1, <3>2, <4>1 DEF x
    <3> HIDE DEF x
    <3>4. IsCut(d, x)
      BY <3>3 DEF IsCut
    <3> QED BY <3>4 DEF x
  <2>7. \A i \in 1..Len(d.tabs) : d.tabs[i].id \in closing
    BY <1>2, <1>3 DEF IsPart
  <2>8. Good(AppendTab(c, None, Blank, FALSE))
    BY <2>4, <2>5, <2>6, <2>7, <2>10
  <2>9. WithoutTabs(d, closing) = AppendTab(c, None, Blank, FALSE)
    BY <1>3 DEF WithoutTabs, rest, c
  <2> QED BY <2>8, <2>9
<1>4. ASSUME rest # <<>>, NEW active \in Nat, HasActive(rest, active)
      PROVE  Good([d EXCEPT !.tabs = rest, !.active = active])
  <2> DEFINE e == [d EXCEPT !.tabs = rest, !.active = active]
  <2>1. rest \in Seq(Tab)
    BY <1>2 DEF IsPart
  <2>2. e \in Desk /\ e.tabs = rest /\ e.active = active /\ e.next = d.next /\ e.requests = d.requests
    BY <1>1, <1>4, <2>1 DEF Desk
  <2>3. Len(rest) > 0
    BY <1>4, <2>1, EmptySeq
  <2> HIDE DEF e
  <2>4. DeskIsSound(e)
    BY <1>2, <1>4, <2>2, <2>3 DEF DeskIsSound, IsStrip
  <2>5. Follows(d, e) /\ IsCut(d, e)
    BY <1>2, <2>2 DEF Follows, IsCut, IsPart
  <2>6. DeskIsClean(d) => DeskIsClean(e)
    BY <1>2, <2>2 DEF DeskIsClean, IsPart
  <2>7. \A i \in 1..Len(d.tabs) : d.tabs[i].id \notin closing => \E k \in 1..Len(e.tabs) : e.tabs[k] = d.tabs[i]
    BY <1>2, <2>2 DEF IsPart
  <2> QED BY <2>2, <2>4, <2>5, <2>6, <2>7 DEF e
<1> HIDE DEF Good
<1>5. CASE rest # <<>> /\ d.active \notin closing
  <2>1. HasActive(rest, d.active)
    BY <1>2, <1>5 DEF DeskIsSound, IsStrip, HasActive, IsPart
  <2>2. WithoutTabs(d, closing) = [d EXCEPT !.tabs = rest]
    BY <1>5 DEF WithoutTabs, rest
  <2>3. [d EXCEPT !.tabs = rest] = [d EXCEPT !.tabs = rest, !.active = d.active]
    BY <1>1 DEF Desk
  <2>4. Good([d EXCEPT !.tabs = rest, !.active = d.active])
    BY <1>1, <1>4, <1>5, <2>1
  <2> QED BY <2>2, <2>3, <2>4 DEF Good
<1>6. CASE rest # <<>> /\ d.active \in closing
  <2> DEFINE active == IF left = <<>> THEN rest[1].id ELSE left[Len(left)].id
  <2>1. HasActive(rest, active) /\ active \in Nat
    <3>1. rest \in Seq(Tab)
      BY <1>2 DEF IsPart
    <3>2. Len(rest) \in Nat /\ 1 \in 1..Len(rest)
      BY <1>6, <3>1, EmptySeq
    <3>3. CASE left = <<>>
      <4>1. HasActive(rest, active)
        BY <3>2, <3>3 DEF HasActive
      <4>2. rest[1] \in Tab
        BY <3>1, <3>2, ElementOfSeq
      <4> QED BY <3>3, <4>1, <4>2 DEF Tab
    <3>4. CASE left # <<>>
      <4>1. IndexOf(d.tabs, d.active) \in 1..Len(d.tabs)
        <5>1. d.active \in TabIds(d.tabs)
          BY DEF DeskIsSound, IsStrip, HasActive, TabIds
        <5> QED BY <5>1, TabAt
      <4>2. /\ upTo \in Seq(Tab) /\ Len(upTo) \in Nat /\ Len(upTo) <= Len(d.tabs)
            /\ \A i \in 1..Len(upTo) : upTo[i] = d.tabs[i]
        <5> HIDE DEF upTo
        <5>1. \A m \in 1..Len(d.tabs) : /\ SubSeq(d.tabs, 1, m) \in Seq(Tab) /\ Len(SubSeq(d.tabs, 1, m)) = m
                                        /\ \A i \in 1..m : SubSeq(d.tabs, 1, m)[i] = d.tabs[i]
          BY <1>1, SubSeqProperties
        <5> QED BY <1>1, <4>1, <5>1 DEF upTo
      <4> HIDE DEF upTo
      <4>3. IsPart(left, upTo, closing)
        BY <4>2, <1>1, PartOfStrip
      <4> HIDE DEF left
      <4>4. left \in Seq(Tab) /\ Len(left) \in 1..Len(left)
        <5>1. left \in Seq(Tab)
          BY <4>3 DEF IsPart
        <5> QED BY <3>4, <5>1, EmptySeq
      <4>5. PICK i \in 1..Len(upTo) : left[Len(left)] = upTo[i] /\ upTo[i].id \notin closing
        BY <4>3, <4>4 DEF IsPart
      <4>6. i \in 1..Len(d.tabs) /\ left[Len(left)] = d.tabs[i] /\ d.tabs[i].id \notin closing
        BY <1>1, <4>2, <4>5
      <4>7. PICK k \in 1..Len(rest) : rest[k] = d.tabs[i]
        BY <1>2, <4>6 DEF IsPart
      <4>8. active = rest[k].id
        BY <3>4, <4>6, <4>7
      <4>9. d.tabs[i].id \in Nat
        BY <1>1, <4>6 DEF Tab
      <4> QED BY <4>7, <4>8, <4>9 DEF HasActive
    <3> QED BY <3>3, <3>4
  <2>2. WithoutTabs(d, closing) = [d EXCEPT !.tabs = rest, !.active = active]
    BY <1>6 DEF WithoutTabs, rest, left, upTo
  <2> HIDE DEF active
  <2>3. Good([d EXCEPT !.tabs = rest, !.active = active])
    BY <1>4, <1>6, <2>1
  <2> QED BY <2>2, <2>3 DEF Good
<1> QED BY <1>3, <1>5, <1>6 DEF Good

\* x put after the first a elements of s
Insert(s, x, a) == SubSeq(s, 1, a) \o <<x>> \o SubSeq(s, a + 1, Len(s))

IsInserted(r, s, x, a, X) ==
  /\ r \in Seq(X) /\ Len(r) = Len(s) + 1 /\ r[a + 1] = x
  /\ \A k \in 1..a : r[k] = s[k]
  /\ \A k \in (a + 1)..Len(s) : r[k + 1] = s[k]

LEMMA Inserted ==
  ASSUME NEW X, NEW s \in Seq(X), NEW x \in X, NEW a \in 0..Len(s)
  PROVE  IsInserted(Insert(s, x, a), s, x, a, X)
<1> DEFINE r == Insert(s, x, a)
           p == SubSeq(s, 1, a)
           q == SubSeq(s, a + 1, Len(s))
           m == p \o <<x>>
           n == Len(s)
<1>1. n \in Nat /\ a \in Nat /\ a <= n /\ \A i \in 1..n : s[i] \in X
  BY ElementOfSeq
<1>2. p \in Seq(X) /\ Len(p) = a /\ \A k \in 1..a : p[k] = s[k]
  <2>1. \A i \in 1..a : s[i] \in X
    BY <1>1
  <2>2. p \in Seq(X) /\ (Len(p) = IF 1 <= a THEN a - 1 + 1 ELSE 0)
        /\ \A k \in 1..(a - 1 + 1) : p[k] = s[1 + k - 1]
    BY <1>1, <2>1, SubSeqProperties
  <2> HIDE DEF p
  <2> QED BY <1>1, <2>2
<1>3. q \in Seq(X) /\ Len(q) = n - a /\ \A k \in 1..(n - a) : q[k] = s[a + k]
  <2>1. \A i \in (a + 1)..n : s[i] \in X
    BY <1>1
  <2>2. a + 1 \in Int /\ n \in Int
    BY <1>1
  <2>3. q \in Seq(X) /\ (Len(q) = IF a + 1 <= n THEN n - (a + 1) + 1 ELSE 0)
        /\ \A k \in 1..(n - (a + 1) + 1) : q[k] = s[(a + 1) + k - 1]
    BY <2>1, <2>2, SubSeqProperties
  <2> HIDE DEF q, n
  <2>4. Len(q) = n - a
    BY <1>1, <2>3
  <2>5. ASSUME NEW k \in 1..(n - a) PROVE q[k] = s[a + k]
    <3>1. k \in 1..(n - (a + 1) + 1) /\ (a + 1) + k - 1 = a + k
      BY <1>1
    <3> QED BY <2>3, <3>1
  <2> QED BY <2>3, <2>4, <2>5
<1>4. <<x>> \in Seq(X) /\ Len(<<x>>) = 1 /\ <<x>>[1] = x
  OBVIOUS
<1> HIDE DEF p, q, n
<1>5. m \in Seq(X) /\ Len(m) = a + 1 /\ m[a + 1] = x /\ \A k \in 1..a : m[k] = s[k]
  BY <1>1, <1>2, <1>4, ConcatProperties
<1> HIDE DEF m
<1>6. r = m \o q
  BY DEF Insert, m, p, q, n
<1> HIDE DEF r
<1>7. /\ m \o q \in Seq(X) /\ Len(m \o q) = (a + 1) + (n - a)
      /\ \A k \in 1..((a + 1) + (n - a)) : (m \o q)[k] = IF k <= a + 1 THEN m[k] ELSE q[k - (a + 1)]
  <2>1. /\ m \o q \in Seq(X) /\ Len(m \o q) = Len(m) + Len(q)
        /\ \A k \in 1..(Len(m) + Len(q)) : (m \o q)[k] = IF k <= Len(m) THEN m[k] ELSE q[k - Len(m)]
    BY <1>3, <1>5, ConcatProperties
  <2> QED BY <1>3, <1>5, <2>1
<1>8. r \in Seq(X) /\ Len(r) = n + 1 /\ r[a + 1] = x /\ \A k \in 1..a : r[k] = s[k]
  <2>1. r \in Seq(X) /\ Len(r) = n + 1
    <3>1. (a + 1) + (n - a) = n + 1
      BY <1>1
    <3> QED BY <1>6, <1>7, <3>1
  <2>2. \A k \in 1..(a + 1) : k \in 1..((a + 1) + (n - a)) /\ k <= a + 1
    BY <1>1
  <2>3. \A k \in 1..(a + 1) : r[k] = m[k]
    BY <1>6, <1>7, <2>2
  <2>4. a + 1 \in 1..(a + 1) /\ \A k \in 1..a : k \in 1..(a + 1)
    BY <1>1
  <2> QED BY <1>5, <2>1, <2>3, <2>4
<1>9. ASSUME NEW k \in (a + 1)..n PROVE r[k + 1] = s[k]
  <2>1. k \in Int
    BY <1>1
  <2>2. k + 1 \in 1..((a + 1) + (n - a)) /\ ~(k + 1 <= a + 1) /\ k - a \in 1..(n - a)
    BY <1>1, <2>1
  <2>3. (k + 1) - (a + 1) = k - a /\ a + (k - a) = k
    BY <1>1, <2>1
  <2>4. r[k + 1] = q[k - a]
    BY <1>6, <1>7, <2>2, <2>3
  <2> QED BY <1>3, <2>2, <2>3, <2>4
<1> QED BY <1>8, <1>9 DEF n, r, IsInserted

\* the same tabs in another order
Moved(d, id, target, after) == [d EXCEPT !.tabs = ReorderTabs(@, id, target, after)]

LEMMA MoveIsSound ==
  ASSUME NEW d, DeskIsSound(d), NEW id \in TabIds(d.tabs), NEW target \in TabIds(d.tabs), id # target,
         NEW after \in BOOLEAN
  PROVE  LET e == Moved(d, id, target, after)
         IN  /\ DeskIsSound(e) /\ Follows(d, e) /\ KeepsDrafts(d, e) /\ e.requests = d.requests
             /\ DeskIsClean(d) => DeskIsClean(e)
<1> DEFINE e == Moved(d, id, target, after)
           rest == Without(d.tabs, {id})
           n == Len(rest)
           moved == d.tabs[IndexOf(d.tabs, id)]
           at == IndexOf(rest, target) - (IF after THEN 0 ELSE 1)
           strip == Insert(rest, moved, at)
<1> HIDE DEF e
<1>1. /\ d \in Desk /\ d.tabs \in Seq(Tab) /\ Len(d.tabs) \in Nat /\ d.active \in Nat /\ d.next \in Nat
      /\ \A i \in 1..Len(d.tabs) : d.tabs[i] \in Tab
  BY DeskFields DEF DeskIsSound
<1>2. IsPart(rest, d.tabs, {id}) /\ IsNumbered(rest, d.next) /\ PreviewsAreClean(rest)
  BY <1>1, PartOfStrip DEF DeskIsSound, IsStrip
<1>3. PICK j \in 1..Len(d.tabs) : moved = d.tabs[j] /\ d.tabs[j].id = id
  BY TabAt
<1>4. moved \in Tab /\ moved.id = id
  BY <1>1, <1>3
<1> HIDE DEF rest, moved
<1>5. rest \in Seq(Tab) /\ n \in Nat
  BY <1>2 DEF IsPart
<1>6. IndexOf(rest, target) \in 1..n
  <2>1. PICK i \in 1..Len(d.tabs) : d.tabs[i].id = target
    BY DEF TabIds
  <2>2. d.tabs[i].id \notin {id}
    BY <2>1
  <2>3. \E k \in 1..n : rest[k].id = target
    BY <1>2, <2>1, <2>2 DEF IsPart
  <2> QED BY <2>3 DEF IndexOf
<1>7. at \in 0..n
  BY <1>5, <1>6
<1> HIDE DEF at, n
<1>8. /\ strip \in Seq(Tab) /\ Len(strip) = n + 1 /\ strip[at + 1] = moved
      /\ \A k \in 1..at : strip[k] = rest[k]
      /\ \A k \in (at + 1)..n : strip[k + 1] = rest[k]
  <2>1. at \in 0..Len(rest) /\ rest \in Seq(Tab) /\ moved \in Tab
    BY <1>4, <1>5, <1>7 DEF n
  <2>2. IsInserted(strip, rest, moved, at, Tab)
    BY <2>1, Inserted
  <2> HIDE DEF strip
  <2> QED BY <2>2 DEF n, IsInserted
<1>9. e = [d EXCEPT !.tabs = strip]
  BY DEF e, Moved, ReorderTabs, Insert, rest, n, moved, at
<1> HIDE DEF strip
<1>10. e \in Desk /\ e.tabs = strip /\ e.active = d.active /\ e.next = d.next /\ e.requests = d.requests
  BY <1>1, <1>8, <1>9 DEF Desk
\* every place of the new strip holds the moved tab or one of the rest
<1>11. ASSUME NEW k \in 1..(n + 1)
       PROVE  \/ k = at + 1 /\ strip[k] = moved
              \/ k <= at /\ k \in 1..n /\ strip[k] = rest[k]
              \/ k > at + 1 /\ k - 1 \in 1..n /\ strip[k] = rest[k - 1]
  <2>1. CASE k = at + 1 BY <1>8, <2>1
  <2>2. CASE k <= at
    BY <1>5, <1>7, <1>8, <2>2
  <2>3. CASE k > at + 1
    <3>1. k - 1 \in (at + 1)..n /\ (k - 1) + 1 = k /\ k - 1 \in 1..n
      BY <1>5, <1>7, <2>3
    <3>2. strip[(k - 1) + 1] = rest[k - 1]
      BY <1>8, <3>1
    <3> QED BY <2>3, <3>1, <3>2
  <2> QED BY <1>7, <2>1, <2>2, <2>3
<1>12. \A k \in 1..n : rest[k].id # id
  BY <1>2 DEF IsPart, n
<1>13. ASSUME NEW k \in 1..(n + 1), NEW l \in 1..(n + 1), strip[k].id = strip[l].id PROVE k = l
  <2>1. \A x, y \in 1..n : rest[x].id = rest[y].id => x = y
    BY <1>2 DEF IsNumbered, n
  <2>2. at \in Nat /\ n \in Nat
    BY <1>5, <1>7
  <2> DEFINE Old(x) == IF x <= at THEN x ELSE x - 1
  <2>3. ASSUME NEW x \in 1..(n + 1), x # at + 1 PROVE Old(x) \in 1..n /\ strip[x] = rest[Old(x)]
    BY <1>11, <2>2, <2>3
  <2>4. k # at + 1 => strip[k].id # id
    <3> HIDE DEF Old
    <3> QED BY <1>12, <2>3
  <2>5. l # at + 1 => strip[l].id # id
    <3> HIDE DEF Old
    <3> QED BY <1>12, <2>3
  <2>6. strip[at + 1].id = id
    BY <1>4, <1>8
  <2>7. CASE k = at + 1
    BY <1>13, <2>5, <2>6, <2>7
  <2>8. CASE l = at + 1
    BY <1>13, <2>4, <2>6, <2>8
  <2>9. CASE k # at + 1 /\ l # at + 1
    <3>1. Old(k) = Old(l)
      <4> HIDE DEF Old
      <4> QED BY <1>13, <2>1, <2>3, <2>9
    <3> QED BY <2>2, <2>9, <3>1
  <2> QED BY <2>7, <2>8, <2>9
<1>14. \A k \in 1..(n + 1) : \E i \in 1..Len(d.tabs) : strip[k] = d.tabs[i]
  <2>1. \A k \in 1..n : \E i \in 1..Len(d.tabs) : rest[k] = d.tabs[i]
    BY <1>2 DEF IsPart, n
  <2> QED BY <1>3, <1>11, <2>1
<1>15. ASSUME NEW i \in 1..Len(d.tabs) PROVE \E k \in 1..(n + 1) : strip[k] = d.tabs[i]
  <2>1. CASE d.tabs[i].id = id
    <3>1. i = j
      BY <1>3, <2>1 DEF DeskIsSound, IsStrip, IsNumbered
    <3>2. at + 1 \in 1..(n + 1)
      BY <1>5, <1>7
    <3> QED BY <1>3, <1>8, <3>1, <3>2
  <2>2. CASE d.tabs[i].id # id
    <3>1. PICK k \in 1..n : rest[k] = d.tabs[i]
      BY <1>2, <2>2 DEF IsPart, n
    <3>2. CASE k <= at
      <4>1. k \in 1..at /\ k \in 1..(n + 1)
        BY <1>5, <1>7, <3>2
      <4> QED BY <1>8, <3>1, <4>1
    <3>3. CASE k > at
      <4>1. k \in (at + 1)..n /\ k + 1 \in 1..(n + 1)
        BY <1>5, <1>7, <3>3
      <4> QED BY <1>8, <3>1, <4>1
    <3> QED BY <1>7, <3>2, <3>3
  <2> QED BY <2>1, <2>2
<1>16. IsNumbered(strip, d.next)
  BY <1>8, <1>13, <1>14 DEF IsNumbered, DeskIsSound, IsStrip
<1>17. HasActive(strip, d.active) /\ PreviewsAreClean(strip) /\ Len(strip) > 0
  <2>1. HasActive(strip, d.active)
    BY <1>8, <1>15 DEF HasActive, DeskIsSound, IsStrip
  <2>2. PreviewsAreClean(strip)
    BY <1>8, <1>14 DEF PreviewsAreClean, DeskIsSound, IsStrip
  <2>3. Len(strip) > 0
    BY <1>5, <1>8
  <2> QED BY <2>1, <2>2, <2>3
<1>18. DeskIsSound(e)
  BY <1>10, <1>16, <1>17 DEF DeskIsSound, IsStrip
<1>19. Follows(d, e)
  BY <1>8, <1>10, <1>14 DEF Follows
<1>20. KeepsDrafts(d, e)
  BY <1>8, <1>10, <1>15 DEF KeepsDrafts
<1>21. DeskIsClean(d) => DeskIsClean(e)
  BY <1>8, <1>10, <1>14 DEF DeskIsClean
<1> QED BY <1>10, <1>18, <1>19, <1>20, <1>21 DEF e

\* the requests of closed tabs
Shut == [rid : Ids, text : Texts, touched : BOOLEAN]

LEMMA RememberedIs ==
  ASSUME NEW d \in Desk, NEW closing, closed \in Seq(Shut)
  PROVE  Remembered(d, closing) \in Seq(Shut)
<1> DEFINE S == {t \in Range(d.tabs) : t.id \in closing /\ ~IsBlank(t)}
           shut == Only(d.tabs, S)
           n == Len(shut)
           one == [i \in 1..n |-> [rid |-> shut[i].rid, text |-> shut[i].text, touched |-> shut[i].touched]]
           two == Reverse(one)
           all == two \o closed
           m == IF Len(all) < MaxClosed THEN Len(all) ELSE MaxClosed
<1>1. d.tabs \in Seq(Tab)
  BY DEF Desk
<1>2. shut \in Seq(Tab)
  <2> HIDE DEF S
  <2>1. IsOnly(shut, d.tabs, S, Tab)
    BY <1>1, OnlyFacts
  <2> QED BY <2>1 DEF IsOnly
<1> HIDE DEF shut
<1>3. n \in Nat /\ \A i \in 1..n : shut[i] \in Tab
  BY <1>2, ElementOfSeq
<1>4. \A i \in 1..n : one[i] \in Shut
  BY <1>3 DEF Tab, Shut
<1>5. one \in [1..n -> Shut]
  <2>1. DOMAIN one = 1..n /\ one = [i \in 1..n |-> one[i]]
    OBVIOUS
  <2> HIDE DEF one
  <2> QED BY <1>4, <2>1
<1> HIDE DEF one, n
<1>6. one \in Seq(Shut) /\ Len(one) = n
  BY <1>3, <1>5, SeqDef
<1>7. two \in Seq(Shut)
  <2>1. \A i \in 1..n : (n - i) + 1 \in 1..n
    BY <1>3
  <2>2. two = [i \in 1..n |-> one[(n - i) + 1]]
    BY <1>6 DEF Reverse
  <2>3. two \in [1..n -> Shut]
    BY <1>5, <2>1, <2>2
  <2> QED BY <1>3, <2>3, SeqDef
<1> HIDE DEF two
<1>8. all \in Seq(Shut) /\ Len(all) \in Nat
  BY <1>7, ConcatProperties
<1> HIDE DEF all
<1>9. m \in 0..Len(all)
  BY <1>8, WorkbenchAssumption
<1> HIDE DEF m
<1>10. SubSeq(all, 1, m) \in Seq(Shut)
  BY <1>8, <1>9, SubSeqProperties
<1>11. Remembered(d, closing) = SubSeq(all, 1, m)
  BY DEF Remembered, m, all, two, one, n, shut
<1> QED BY <1>10, <1>11

-----------------------------------------------------------------------------
(* Strips whose tabs change in place *)

WithStrip(d, strip, requests) == [d EXCEPT !.tabs = strip, !.requests = requests]

LEMMA Redrawn ==
  ASSUME NEW d, DeskIsSound(d), NEW strip \in Seq(Tab), Len(strip) = Len(d.tabs),
         \A i \in 1..Len(d.tabs) : strip[i].id = d.tabs[i].id,
         \A i \in 1..Len(d.tabs) : strip[i].preview => ~strip[i].touched,
         NEW requests \in Requests
  PROVE  LET e == WithStrip(d, strip, requests)
         IN  /\ DeskIsSound(e) /\ e.tabs = strip /\ Len(e.tabs) = Len(d.tabs)
             /\ e.requests = requests /\ e.active = d.active
<1> DEFINE e == WithStrip(d, strip, requests)
<1>1. d \in Desk
  BY DEF DeskIsSound
<1>3. e \in Desk /\ e.tabs = strip /\ e.requests = requests /\ e.active = d.active /\ e.next = d.next
  BY <1>1 DEF Desk, WithStrip
<1> HIDE DEF e
<1>4. PreviewsAreClean(e.tabs) /\ HasActive(d.tabs, e.active)
  BY <1>3 DEF PreviewsAreClean, DeskIsSound, IsStrip
<1>5. DeskIsSound(e)
  BY <1>3, <1>4, MapSound
<1> QED BY <1>3, <1>5 DEF e

LEMMA Repainted ==
  ASSUME NEW d, DeskIsSound(d), NEW strip
  PROVE  [d EXCEPT !.tabs = strip] = WithStrip(d, strip, d.requests)
BY DEF WithStrip, DeskIsSound, Desk

\* every tab but the active one is as it was
KeepsOthers(d, e) ==
  /\ Len(e.tabs) = Len(d.tabs)
  /\ \A i \in 1..Len(d.tabs) : d.tabs[i].id # d.active => e.tabs[i] = d.tabs[i]

\* the user types
Edited(d, text) ==
  [d EXCEPT !.tabs = MapTab(@, d.active,
     LAMBDA t : [t EXCEPT !.text = text, !.preview = FALSE, !.touched = TRUE])]

LEMMA EditIsSound ==
  ASSUME NEW d, DeskIsSound(d), NEW text \in Texts
  PROVE  LET e == Edited(d, text)
         IN  /\ DeskIsSound(e) /\ Follows(d, e) /\ e.requests = d.requests
             /\ DeskIsClean(d) => DeskIsClean(e)
             /\ KeepsOthers(d, e)
<1> DEFINE n == Len(d.tabs)
           e == Edited(d, text)
           strip == [i \in 1..n |-> IF d.tabs[i].id = d.active
                                    THEN [d.tabs[i] EXCEPT !.text = text, !.preview = FALSE, !.touched = TRUE]
                                    ELSE d.tabs[i]]
<1>1. \A i \in 1..n : d.tabs[i] \in Tab
  BY DeskFields
<1>2. \A i \in 1..n : d.tabs[i].preview => ~d.tabs[i].touched
  BY DEF DeskIsSound, IsStrip, PreviewsAreClean
<1>3. \A i \in 1..n : /\ strip[i] \in Tab /\ strip[i].id = d.tabs[i].id
                      /\ strip[i].preview => ~strip[i].touched
                      /\ strip[i].pending = d.tabs[i].pending /\ strip[i].resp = d.tabs[i].resp
                      /\ strip[i].touched \/ strip[i] = d.tabs[i]
  BY <1>1, <1>2 DEF Tab
<1>4. e = [d EXCEPT !.tabs = strip] /\ strip = [i \in 1..n |-> strip[i]] /\ DOMAIN strip = 1..n
  BY DEF MapTab, MapTabs, Edited
<1>8. \A i \in 1..n : d.tabs[i].id # d.active => strip[i] = d.tabs[i]
  OBVIOUS
<1> HIDE DEF strip, e
<1>5. DeskIsSound(e) /\ e.tabs = strip /\ Len(e.tabs) = n /\ e.requests = d.requests
  <2>1. e = WithStrip(d, strip, d.requests)
    BY <1>4, Repainted
  <2>2. d.requests \in Requests
    BY DeskFields
  <2>3. strip \in Seq(Tab) /\ Len(strip) = n
    BY <1>3, <1>4, MappedStrip DEF DeskIsSound
  <2>4. /\ \A i \in 1..n : strip[i].id = d.tabs[i].id
        /\ \A i \in 1..n : strip[i].preview => ~strip[i].touched
    BY <1>3
  <2> QED BY <2>1, <2>2, <2>3, <2>4, Redrawn
<1>6. Follows(d, e)
  BY <1>3, <1>5 DEF Follows
<1>7. DeskIsClean(d) => DeskIsClean(e)
  BY <1>3, <1>5 DEF DeskIsClean, IsClean
<1> QED BY <1>5, <1>6, <1>7, <1>8 DEF e, KeepsOthers

\* the user answers a notice
Resolved(d, loadsDisk) ==
  [d EXCEPT !.tabs = MapTab(@, d.active,
     LAMBDA t : [t EXCEPT !.text = IF loadsDisk THEN t.disk ELSE @,
                          !.touched = @ /\ ~loadsDisk, !.apart = @ /\ ~loadsDisk,
                          !.disk = None])]

LEMMA ResolveIsSound ==
  ASSUME NEW d, DeskIsSound(d), NEW loadsDisk \in BOOLEAN,
         NEW front, front = d.tabs[IndexOf(d.tabs, d.active)],
         front.disk # None, front.disk = SavedOf(front, d.requests)
  PROVE  LET e == Resolved(d, loadsDisk)
         IN  /\ DeskIsSound(e) /\ Follows(d, e) /\ e.requests = d.requests
             /\ DeskIsClean(d) => DeskIsClean(e)
             /\ KeepsOthers(d, e) /\ (~loadsDisk => KeepsDrafts(d, e))
<1> DEFINE n == Len(d.tabs)
           e == Resolved(d, loadsDisk)
           Answered(t) == [t EXCEPT !.text = IF loadsDisk THEN t.disk ELSE @,
                                    !.touched = @ /\ ~loadsDisk, !.apart = @ /\ ~loadsDisk,
                                    !.disk = None]
           strip == [i \in 1..n |-> IF d.tabs[i].id = d.active THEN Answered(d.tabs[i]) ELSE d.tabs[i]]
<1>1. \A i \in 1..n : d.tabs[i] \in Tab
  BY DeskFields
<1>2. \A i \in 1..n : d.tabs[i].preview => ~d.tabs[i].touched
  BY DEF DeskIsSound, IsStrip, PreviewsAreClean
<1>3. \A i \in 1..n : d.tabs[i].id = d.active => d.tabs[i] = front
  <2>1. d.active \in TabIds(d.tabs)
    BY DEF DeskIsSound, IsStrip, HasActive, TabIds
  <2> QED BY <2>1, TabAt
<1>4. \A t \in Tab : t.disk # None =>
        /\ Answered(t) \in Tab /\ Answered(t).id = t.id /\ Answered(t).rid = t.rid
        /\ Answered(t).preview = t.preview /\ Answered(t).vanished = t.vanished
        /\ Answered(t).pending = t.pending /\ Answered(t).resp = t.resp
        /\ loadsDisk => Answered(t).text = t.disk
        /\ ~loadsDisk => Answered(t).text = t.text /\ Answered(t).touched = t.touched /\ Answered(t).apart = t.apart
        /\ Answered(t).touched => t.touched
  <2> SUFFICES ASSUME NEW t \in Tab, t.disk # None
               PROVE  /\ Answered(t) \in Tab /\ Answered(t).id = t.id /\ Answered(t).rid = t.rid
                      /\ Answered(t).preview = t.preview /\ Answered(t).vanished = t.vanished
                      /\ Answered(t).pending = t.pending /\ Answered(t).resp = t.resp
                      /\ loadsDisk => Answered(t).text = t.disk
                      /\ ~loadsDisk => Answered(t).text = t.text /\ Answered(t).touched = t.touched /\ Answered(t).apart = t.apart
                      /\ Answered(t).touched => t.touched
    OBVIOUS
  <2>1. t.disk \in Texts /\ None \in Contents
    BY DEF Tab, Contents
  <2>2. CASE loadsDisk
    BY <2>1, <2>2 DEF Tab
  <2>3. CASE ~loadsDisk
    BY <2>1, <2>3 DEF Tab
  <2> QED BY <2>2, <2>3
<1>5. \A i \in 1..n : d.tabs[i].id = d.active => d.tabs[i].disk # None
  BY <1>3
<1> HIDE DEF Answered
<1>6. \A i \in 1..n : /\ strip[i] \in Tab /\ strip[i].id = d.tabs[i].id
                      /\ strip[i].preview => ~strip[i].touched
                      /\ strip[i].pending = d.tabs[i].pending /\ strip[i].resp = d.tabs[i].resp
  BY <1>1, <1>2, <1>4, <1>5
<1>7. e = [d EXCEPT !.tabs = strip] /\ strip = [i \in 1..n |-> strip[i]] /\ DOMAIN strip = 1..n
  BY DEF MapTab, MapTabs, Answered, Resolved
<1>8. \A i \in 1..n : strip[i] = IF d.tabs[i].id = d.active THEN Answered(d.tabs[i]) ELSE d.tabs[i]
  OBVIOUS
<1> HIDE DEF strip, e
<1>9. DeskIsSound(e) /\ e.tabs = strip /\ Len(e.tabs) = n /\ e.requests = d.requests
  <2>1. e = WithStrip(d, strip, d.requests)
    BY <1>7, Repainted
  <2>2. d.requests \in Requests
    BY DeskFields
  <2>3. strip \in Seq(Tab) /\ Len(strip) = n
    BY <1>6, <1>7, MappedStrip DEF DeskIsSound
  <2>4. /\ \A i \in 1..n : strip[i].id = d.tabs[i].id
        /\ \A i \in 1..n : strip[i].preview => ~strip[i].touched
    BY <1>6
  <2> QED BY <2>1, <2>2, <2>3, <2>4, Redrawn
<1>10. Follows(d, e)
  BY <1>6, <1>9 DEF Follows
<1>11. ASSUME DeskIsClean(d), NEW i \in 1..n PROVE IsClean(strip[i], d.requests)
  <2>1. IsClean(d.tabs[i], d.requests) /\ d.tabs[i] \in Tab
    BY <1>1, <1>11 DEF DeskIsClean
  <2>2. CASE d.tabs[i].id # d.active
    BY <1>8, <2>1, <2>2
  <2>3. CASE d.tabs[i].id = d.active /\ ~loadsDisk
    BY <1>4, <1>5, <1>8, <2>1, <2>3 DEF IsClean, LastSaved, SavedOf
  <2>4. CASE d.tabs[i].id = d.active /\ loadsDisk
    <3>1. d.tabs[i] = front /\ strip[i] = Answered(front)
      BY <1>3, <1>8, <2>4
    <3>2. strip[i].text = front.disk /\ strip[i].rid = front.rid
      BY <1>4, <2>1, <2>4, <3>1
    <3>3. SavedOf(strip[i], d.requests) = front.disk
      BY <3>2 DEF SavedOf
    <3> QED BY <3>2, <3>3 DEF IsClean, LastSaved
  <2> QED BY <2>2, <2>3, <2>4
<1>12. DeskIsClean(d) => DeskIsClean(e)
  BY <1>9, <1>11 DEF DeskIsClean
<1>13. KeepsOthers(d, e)
  BY <1>8, <1>9 DEF KeepsOthers
<1>14. ~loadsDisk => KeepsDrafts(d, e)
  <2>1. ~loadsDisk => \A i \in 1..n : strip[i].text = d.tabs[i].text
    BY <1>1, <1>4, <1>5, <1>8
  <2> QED BY <1>6, <1>9, <2>1 DEF KeepsDrafts
<1> QED BY <1>9, <1>10, <1>12, <1>13, <1>14 DEF e

\* a closed tab comes back in place of a blank one
ReopenedIn(d, request) ==
  [d EXCEPT !.tabs = MapTab(@, d.active,
     LAMBDA t : [CreateTab(t.id, request.rid, request.text, FALSE)
                   EXCEPT !.touched = request.touched,
                          !.apart = request.rid # None /\ request.text # d.requests[request.rid]])]

LEMMA ReopenIsSound ==
  ASSUME last \in [Rids -> Nat], NEW d, DeskIsSound(d), NEW request \in Shut,
         \A i \in 1..Len(d.tabs) : d.tabs[i].id = d.active => IsBlank(d.tabs[i])
  PROVE  LET e == ReopenedIn(d, request)
         IN  /\ DeskIsSound(e) /\ Follows(d, e) /\ KeepsDrafts(d, e) /\ e.requests = d.requests
             /\ DeskIsClean(d) => DeskIsClean(e)
<1> DEFINE n == Len(d.tabs)
           e == ReopenedIn(d, request)
           apart == request.rid # None /\ request.text # d.requests[request.rid]
           Opened(t) == [CreateTab(t.id, request.rid, request.text, FALSE)
                           EXCEPT !.touched = request.touched, !.apart = apart]
           strip == [i \in 1..n |-> IF d.tabs[i].id = d.active THEN Opened(d.tabs[i]) ELSE d.tabs[i]]
<1>1. \A i \in 1..n : d.tabs[i] \in Tab
  BY DeskFields
<1>2. \A i \in 1..n : d.tabs[i].preview => ~d.tabs[i].touched
  BY DEF DeskIsSound, IsStrip, PreviewsAreClean
<1>3. ASSUME NEW t \in Tab
      PROVE  /\ Opened(t) \in Tab /\ Opened(t).id = t.id /\ Opened(t).rid = request.rid
             /\ Opened(t).text = request.text /\ Opened(t).preview = FALSE /\ Opened(t).pending = 0
             /\ Opened(t).apart = apart
             /\ Opened(t).resp = 0 \/ (Opened(t).rid # None /\ last[Opened(t).rid] = Opened(t).resp)
  <2> DEFINE c == CreateTab(t.id, request.rid, request.text, FALSE)
  <2>1. /\ c \in Tab /\ c.id = t.id /\ c.rid = request.rid /\ c.text = request.text /\ c.preview = FALSE
        /\ c.pending = 0
        /\ c.resp = 0 \/ (c.rid # None /\ last[c.rid] = c.resp)
    <3>1. t.id \in Nat /\ request.rid \in Ids /\ request.text \in Texts /\ FALSE \in BOOLEAN
      BY DEF Tab, Shut
    <3>2. (IF request.rid \in Rids THEN last[request.rid] ELSE 0) \in Nat
      OBVIOUS
    <3>3. request.rid \in Rids => request.rid # None
      BY WorkbenchAssumption
    <3> QED BY <3>1, <3>2, <3>3 DEF CreateTab, Tab, Ids, Contents
  <2>2. request.touched \in BOOLEAN /\ apart \in BOOLEAN
    BY DEF Shut
  <2> HIDE DEF c, apart
  <2>3. Opened(t) = [c EXCEPT !.touched = request.touched, !.apart = apart]
    BY DEF c
  <2> HIDE DEF Opened
  <2> QED BY <2>1, <2>2, <2>3 DEF Tab
<1>4. e = [d EXCEPT !.tabs = strip] /\ strip = [i \in 1..n |-> strip[i]] /\ DOMAIN strip = 1..n
  BY DEF MapTab, MapTabs, ReopenedIn
<1> HIDE DEF Opened, apart
<1>5. \A i \in 1..n : strip[i] = IF d.tabs[i].id = d.active THEN Opened(d.tabs[i]) ELSE d.tabs[i]
  OBVIOUS
<1> HIDE DEF strip, e
<1>14. ASSUME NEW i \in 1..n, d.tabs[i].id = d.active
       PROVE  /\ strip[i].rid = request.rid /\ strip[i].text = request.text /\ strip[i].pending = 0
              /\ strip[i].apart = apart
              /\ strip[i].resp = 0 \/ (strip[i].rid # None /\ last[strip[i].rid] = strip[i].resp)
  <2>1. strip[i] = Opened(d.tabs[i]) /\ d.tabs[i] \in Tab
    BY <1>1, <1>5, <1>14
  <2>2. /\ Opened(d.tabs[i]).rid = request.rid /\ Opened(d.tabs[i]).text = request.text
        /\ Opened(d.tabs[i]).pending = 0 /\ Opened(d.tabs[i]).apart = apart
    BY <1>3, <2>1
  <2>3. \/ Opened(d.tabs[i]).resp = 0
        \/ Opened(d.tabs[i]).rid # None /\ last[Opened(d.tabs[i]).rid] = Opened(d.tabs[i]).resp
    BY <1>3, <2>1
  <2> QED BY <2>1, <2>2, <2>3
<1>6. \A i \in 1..n : strip[i] \in Tab
  BY <1>1, <1>3, <1>5
<1>7. \A i \in 1..n : strip[i].id = d.tabs[i].id
  BY <1>1, <1>3, <1>5
<1>8. \A i \in 1..n : strip[i].preview => ~strip[i].touched
  BY <1>1, <1>2, <1>3, <1>5
<1>9. DeskIsSound(e) /\ e.tabs = strip /\ Len(e.tabs) = n /\ e.requests = d.requests
  <2>1. e = WithStrip(d, strip, d.requests)
    BY <1>4, Repainted
  <2>2. d.requests \in Requests
    BY DeskFields
  <2>3. strip \in Seq(Tab) /\ Len(strip) = n
    BY <1>4, <1>6, MappedStrip DEF DeskIsSound
  <2> QED BY <1>7, <1>8, <2>1, <2>2, <2>3, Redrawn
<1>10. Follows(d, e)
  <2>1. ASSUME NEW i \in 1..n
        PROVE  \/ strip[i] = d.tabs[i]
               \/ /\ strip[i].pending = 0
                  /\ strip[i].resp = 0 \/ (strip[i].rid # None /\ last[strip[i].rid] = strip[i].resp)
    BY <1>5, <1>14
  <2> QED BY <1>9, <2>1 DEF Follows
<1>11. KeepsDrafts(d, e)
  BY <1>5, <1>9 DEF KeepsDrafts, IsDraft
<1>12. ASSUME DeskIsClean(d), NEW i \in 1..n PROVE IsClean(strip[i], d.requests)
  <2>1. CASE d.tabs[i].id # d.active
    BY <1>5, <1>12, <2>1 DEF DeskIsClean
  <2>2. CASE d.tabs[i].id = d.active
    <3>1. strip[i].rid = request.rid /\ strip[i].text = request.text /\ strip[i].apart = apart
      BY <1>14, <2>2
    <3>2. request.text # None
      BY WorkbenchAssumption DEF Shut
    <3> QED BY <3>1, <3>2 DEF IsClean, LastSaved, SavedOf, apart
  <2> QED BY <2>1, <2>2
<1>13. DeskIsClean(d) => DeskIsClean(e)
  BY <1>9, <1>12 DEF DeskIsClean
<1> QED BY <1>9, <1>10, <1>11, <1>13 DEF e

\* the tab is as it was but for its send
IsLike(t, u) == /\ u.id = t.id /\ u.rid = t.rid /\ u.text = t.text /\ u.preview = t.preview
                /\ u.touched = t.touched /\ u.apart = t.apart /\ u.vanished = t.vanished

LEMMA LikeStrip ==
  ASSUME NEW d, NEW e, Len(e.tabs) = Len(d.tabs), e.requests = d.requests,
         \A i \in 1..Len(d.tabs) : IsLike(d.tabs[i], e.tabs[i])
  PROVE  KeepsDrafts(d, e) /\ (DeskIsClean(d) => DeskIsClean(e))
<1>1. KeepsDrafts(d, e)
  BY DEF KeepsDrafts, IsLike
<1>2. DeskIsClean(d) => DeskIsClean(e)
  BY DEF DeskIsClean, IsClean, IsLike, LastSaved, SavedOf
<1> QED BY <1>1, <1>2

\* a send of a tab starts
Started(d, id, number) ==
  [d EXCEPT !.tabs = MapTab(@, id, LAMBDA t : [t EXCEPT !.pending = number])]

LEMMA StartIsSound ==
  ASSUME NEW d, DeskIsSound(d), NEW id, NEW number \in Nat
  PROVE  LET e == Started(d, id, number)
         IN  /\ DeskIsSound(e) /\ KeepsDrafts(d, e) /\ e.requests = d.requests
             /\ DeskIsClean(d) => DeskIsClean(e)
             /\ Len(e.tabs) = Len(d.tabs)
             /\ \A i \in 1..Len(d.tabs) :
                  /\ e.tabs[i].id = d.tabs[i].id /\ e.tabs[i].resp = d.tabs[i].resp
                  /\ e.tabs[i].pending = IF d.tabs[i].id = id THEN number ELSE d.tabs[i].pending
<1> DEFINE n == Len(d.tabs)
           e == Started(d, id, number)
           strip == [i \in 1..n |-> IF d.tabs[i].id = id THEN [d.tabs[i] EXCEPT !.pending = number] ELSE d.tabs[i]]
<1>1. \A i \in 1..n : d.tabs[i] \in Tab
  BY DeskFields
<1>2. \A i \in 1..n : d.tabs[i].preview => ~d.tabs[i].touched
  BY DEF DeskIsSound, IsStrip, PreviewsAreClean
<1>3. \A i \in 1..n : /\ strip[i] \in Tab /\ IsLike(d.tabs[i], strip[i]) /\ strip[i].resp = d.tabs[i].resp
                      /\ strip[i].pending = IF d.tabs[i].id = id THEN number ELSE d.tabs[i].pending
  BY <1>1 DEF Tab, IsLike
<1>4. e = [d EXCEPT !.tabs = strip] /\ strip = [i \in 1..n |-> strip[i]] /\ DOMAIN strip = 1..n
  BY DEF MapTab, MapTabs, Started
<1> HIDE DEF strip, e
<1>5. \A i \in 1..n : strip[i].id = d.tabs[i].id
  BY <1>3 DEF IsLike
<1>6. \A i \in 1..n : strip[i].preview => ~strip[i].touched
  BY <1>2, <1>3 DEF IsLike
<1>7. DeskIsSound(e) /\ e.tabs = strip /\ Len(e.tabs) = n /\ e.requests = d.requests
  <2>1. e = WithStrip(d, strip, d.requests)
    BY <1>4, Repainted
  <2>2. d.requests \in Requests
    BY DeskFields
  <2>3. strip \in Seq(Tab) /\ Len(strip) = n
    BY <1>3, <1>4, MappedStrip DEF DeskIsSound
  <2> QED BY <1>5, <1>6, <2>1, <2>2, <2>3, Redrawn
<1>8. KeepsDrafts(d, e) /\ (DeskIsClean(d) => DeskIsClean(e))
  BY <1>3, <1>7, LikeStrip
<1> QED BY <1>3, <1>5, <1>7, <1>8 DEF e

\* and ends
Finished(d, number) == [d EXCEPT !.tabs = FinishTabRequest(@, number)]

\* the tab that waits for the send shows its response, and no other
ShowsResponse(d, e, number) ==
  /\ Len(e.tabs) = Len(d.tabs)
  /\ \A i \in 1..Len(d.tabs) :
       /\ e.tabs[i].id = d.tabs[i].id
       /\ \/ e.tabs[i].resp = d.tabs[i].resp /\ e.tabs[i].pending = d.tabs[i].pending
          \/ /\ e.tabs[i].resp = number /\ e.tabs[i].pending = 0
             /\ d.tabs[i].pending = number /\ d.tabs[i].id = sends[number].tab

KeepsTexts(d, e) ==
  Len(e.tabs) = Len(d.tabs) /\ \A i \in 1..Len(d.tabs) : e.tabs[i].text = d.tabs[i].text

LEMMA FinishIsSound ==
  ASSUME NEW d, DeskIsSound(d), NEW number \in Nat
  PROVE  LET e == Finished(d, number)
         IN  /\ DeskIsSound(e) /\ KeepsDrafts(d, e) /\ e.requests = d.requests
             /\ DeskIsClean(d) => DeskIsClean(e)
             /\ ShowsResponse(d, e, number) /\ KeepsTexts(d, e)
<1> DEFINE n == Len(d.tabs)
           e == Finished(d, number)
           strip == [i \in 1..n |-> IF d.tabs[i].id = sends[number].tab
                                    THEN IF d.tabs[i].pending # number THEN d.tabs[i]
                                         ELSE [d.tabs[i] EXCEPT !.pending = 0, !.resp = number]
                                    ELSE d.tabs[i]]
<1>1. \A i \in 1..n : d.tabs[i] \in Tab
  BY DeskFields
<1>2. \A i \in 1..n : d.tabs[i].preview => ~d.tabs[i].touched
  BY DEF DeskIsSound, IsStrip, PreviewsAreClean
<1>3. \A i \in 1..n : /\ strip[i] \in Tab /\ IsLike(d.tabs[i], strip[i])
                      /\ \/ strip[i].resp = d.tabs[i].resp /\ strip[i].pending = d.tabs[i].pending
                         \/ /\ strip[i].resp = number /\ strip[i].pending = 0
                            /\ d.tabs[i].pending = number /\ d.tabs[i].id = sends[number].tab
  BY <1>1 DEF Tab, IsLike
<1>4. e = [d EXCEPT !.tabs = strip] /\ strip = [i \in 1..n |-> strip[i]] /\ DOMAIN strip = 1..n
  BY DEF MapTab, MapTabs, Finished, FinishTabRequest
<1> HIDE DEF strip, e
<1>5. \A i \in 1..n : strip[i].id = d.tabs[i].id
  BY <1>3 DEF IsLike
<1>6. \A i \in 1..n : strip[i].preview => ~strip[i].touched
  BY <1>2, <1>3 DEF IsLike
<1>7. DeskIsSound(e) /\ e.tabs = strip /\ Len(e.tabs) = n /\ e.requests = d.requests
  <2>1. e = WithStrip(d, strip, d.requests)
    BY <1>4, Repainted
  <2>2. d.requests \in Requests
    BY DeskFields
  <2>3. strip \in Seq(Tab) /\ Len(strip) = n
    BY <1>3, <1>4, MappedStrip DEF DeskIsSound
  <2> QED BY <1>5, <1>6, <2>1, <2>2, <2>3, Redrawn
<1>8. KeepsDrafts(d, e) /\ (DeskIsClean(d) => DeskIsClean(e))
  BY <1>3, <1>7, LikeStrip
<1>9. ShowsResponse(d, e, number)
  BY <1>3, <1>5, <1>7 DEF ShowsResponse
<1>10. KeepsTexts(d, e)
  BY <1>3, <1>7 DEF KeepsTexts, IsLike
<1> QED BY <1>7, <1>8, <1>9, <1>10 DEF e

\* and has renewed a token
TokenSet(d, id, renewed) == [d EXCEPT !.tabs = SetToken(@, id, renewed)]

LEMMA TokenIsSound ==
  ASSUME NEW d, DeskIsSound(d), NEW id, NEW renewed \in Texts
  PROVE  LET e == TokenSet(d, id, renewed)
         IN  /\ DeskIsSound(e) /\ e.requests = d.requests
             /\ DeskIsClean(d) => DeskIsClean(e)
             /\ Len(e.tabs) = Len(d.tabs)
             /\ \A i \in 1..Len(d.tabs) :
                  /\ e.tabs[i].id = d.tabs[i].id /\ e.tabs[i].resp = d.tabs[i].resp
                  /\ e.tabs[i].pending = d.tabs[i].pending
                  /\ e.tabs[i].text = IF d.tabs[i].id = id THEN renewed ELSE d.tabs[i].text
<1> DEFINE n == Len(d.tabs)
           e == TokenSet(d, id, renewed)
           New(t) == [t EXCEPT !.text = renewed, !.preview = FALSE, !.apart = @ \/ renewed # t.text]
           strip == [i \in 1..n |-> IF d.tabs[i].id = id THEN New(d.tabs[i]) ELSE d.tabs[i]]
<1>1. \A i \in 1..n : d.tabs[i] \in Tab
  BY DeskFields
<1>2. \A i \in 1..n : d.tabs[i].preview => ~d.tabs[i].touched
  BY DEF DeskIsSound, IsStrip, PreviewsAreClean
<1>3. ASSUME NEW t \in Tab
      PROVE  /\ New(t) \in Tab /\ New(t).id = t.id /\ New(t).rid = t.rid /\ New(t).text = renewed
             /\ ~New(t).preview /\ New(t).touched = t.touched /\ New(t).vanished = t.vanished
             /\ New(t).pending = t.pending /\ New(t).resp = t.resp
             /\ New(t).apart <=> t.apart \/ renewed # t.text
  BY DEF Tab
<1>4. e = [d EXCEPT !.tabs = strip] /\ strip = [i \in 1..n |-> strip[i]] /\ DOMAIN strip = 1..n
  BY DEF MapTab, MapTabs, TokenSet, SetToken
<1> HIDE DEF New
<1>5. \A i \in 1..n : strip[i] = IF d.tabs[i].id = id THEN New(d.tabs[i]) ELSE d.tabs[i]
  OBVIOUS
<1> HIDE DEF strip, e
<1>6. /\ \A i \in 1..n : strip[i] \in Tab
      /\ \A i \in 1..n : strip[i].id = d.tabs[i].id
      /\ \A i \in 1..n : strip[i].resp = d.tabs[i].resp /\ strip[i].pending = d.tabs[i].pending
      /\ \A i \in 1..n : strip[i].text = IF d.tabs[i].id = id THEN renewed ELSE d.tabs[i].text
      /\ \A i \in 1..n : strip[i].preview => ~strip[i].touched
  BY <1>1, <1>2, <1>3, <1>5
<1>7. DeskIsSound(e) /\ e.tabs = strip /\ Len(e.tabs) = n /\ e.requests = d.requests
  <2>1. e = WithStrip(d, strip, d.requests)
    BY <1>4, Repainted
  <2>2. d.requests \in Requests
    BY DeskFields
  <2>3. strip \in Seq(Tab) /\ Len(strip) = n
    BY <1>4, <1>6, MappedStrip DEF DeskIsSound
  <2> QED BY <1>6, <2>1, <2>2, <2>3, Redrawn
<1>8. ASSUME DeskIsClean(d), NEW i \in 1..n PROVE IsClean(strip[i], d.requests)
  <2>1. IsClean(d.tabs[i], d.requests) /\ d.tabs[i] \in Tab
    BY <1>1, <1>8 DEF DeskIsClean
  <2>2. CASE d.tabs[i].id # id
    BY <1>5, <2>1, <2>2
  <2>3. CASE d.tabs[i].id = id
    <3>1. strip[i] = New(d.tabs[i])
      BY <1>5, <2>3
    <3>2. /\ strip[i].rid = d.tabs[i].rid /\ strip[i].text = renewed /\ strip[i].touched = d.tabs[i].touched
          /\ strip[i].vanished = d.tabs[i].vanished
          /\ strip[i].apart <=> d.tabs[i].apart \/ renewed # d.tabs[i].text
      BY <1>3, <2>1, <3>1
    <3>3. LastSaved(strip[i], d.requests) = LastSaved(d.tabs[i], d.requests)
      BY <3>2 DEF LastSaved, SavedOf
    <3> QED BY <2>1, <3>2, <3>3 DEF IsClean
  <2> QED BY <2>2, <2>3
<1>9. DeskIsClean(d) => DeskIsClean(e)
  BY <1>7, <1>8 DEF DeskIsClean
<1> QED BY <1>6, <1>7, <1>9 DEF e

Renewed(d, number, renewed) ==
  [d EXCEPT !.tabs = SetToken(FinishTabRequest(@, number), sends[number].tab, renewed)]

LEMMA RenewIsSound ==
  ASSUME NEW d, DeskIsSound(d), NEW number \in Nat, NEW renewed \in Texts
  PROVE  LET e == Renewed(d, number, renewed)
         IN  /\ DeskIsSound(e) /\ e.requests = d.requests
             /\ DeskIsClean(d) => DeskIsClean(e)
             /\ ShowsResponse(d, e, number)
             /\ \A i \in 1..Len(d.tabs) :
                  e.tabs[i].text = IF d.tabs[i].id = sends[number].tab THEN renewed ELSE d.tabs[i].text
<1> DEFINE f == Finished(d, number)
           e == Renewed(d, number, renewed)
<1>1. /\ DeskIsSound(f) /\ f.requests = d.requests /\ (DeskIsClean(d) => DeskIsClean(f))
      /\ ShowsResponse(d, f, number) /\ KeepsTexts(d, f)
  BY FinishIsSound
<1>2. e = TokenSet(f, sends[number].tab, renewed)
  BY DEF TokenSet, Renewed, Finished, DeskIsSound, Desk
<1> HIDE DEF f, e
<1>3. /\ DeskIsSound(e) /\ e.requests = f.requests /\ (DeskIsClean(f) => DeskIsClean(e))
      /\ Len(e.tabs) = Len(f.tabs)
      /\ \A i \in 1..Len(f.tabs) :
           /\ e.tabs[i].id = f.tabs[i].id /\ e.tabs[i].resp = f.tabs[i].resp
           /\ e.tabs[i].pending = f.tabs[i].pending
           /\ e.tabs[i].text = IF f.tabs[i].id = sends[number].tab THEN renewed ELSE f.tabs[i].text
  BY <1>1, <1>2, TokenIsSound
<1>4. ShowsResponse(d, e, number)
  BY <1>1, <1>3 DEF ShowsResponse
<1>5. \A i \in 1..Len(d.tabs) :
        e.tabs[i].text = IF d.tabs[i].id = sends[number].tab THEN renewed ELSE d.tabs[i].text
  BY <1>1, <1>3 DEF ShowsResponse, KeepsTexts
<1> QED BY <1>1, <1>3, <1>4, <1>5 DEF e

\* the reply of a save
SaveCall == [tab : Nat, rid : Rids, was : Ids, text : Texts, path : Paths, closes : BOOLEAN]

SavedTab(t, save) ==
  [t EXCEPT !.rid = save.rid, !.preview = FALSE,
            !.touched = @ /\ t.text # save.text, !.apart = @ /\ t.text # save.text]
OtherTab(t, save) == [t EXCEPT !.apart = @ \/ (t.rid = save.rid /\ t.text # save.text)]

SavedIn(d, save) ==
  [d EXCEPT !.requests[save.rid] = save.text,
            !.tabs = MapTabs(@, LAMBDA t : IF t.id = save.tab THEN SavedTab(t, save) ELSE OtherTab(t, save))]

LEMMA SaveIsSound ==
  ASSUME NEW d, DeskIsSound(d), NEW save \in SaveCall
  PROVE  LET e == SavedIn(d, save)
         IN  /\ DeskIsSound(e) /\ Follows(d, e) /\ KeepsDrafts(d, e)
             /\ e.requests = [d.requests EXCEPT ![save.rid] = save.text]
             /\ DeskIsClean(d)
                /\ (\A i \in 1..Len(d.tabs) : d.tabs[i].id = save.tab =>
                      d.tabs[i].touched \/ d.tabs[i].apart \/ d.tabs[i].text = save.text)
                => DeskIsClean(e)
<1> DEFINE n == Len(d.tabs)
           e == SavedIn(d, save)
           now == [d.requests EXCEPT ![save.rid] = save.text]
           strip == [i \in 1..n |-> IF d.tabs[i].id = save.tab THEN SavedTab(d.tabs[i], save)
                                                              ELSE OtherTab(d.tabs[i], save)]
<1>1. d.requests \in Requests /\ \A i \in 1..n : d.tabs[i] \in Tab
  BY DeskFields
<1>2. \A i \in 1..n : d.tabs[i].preview => ~d.tabs[i].touched
  BY DEF DeskIsSound, IsStrip, PreviewsAreClean
<1>3. save.rid \in Rids /\ save.rid # None /\ save.text \in Texts /\ save.text # None
  BY WorkbenchAssumption DEF SaveCall
<1>4. now \in Requests /\ now[save.rid] = save.text /\ \A r \in Rids : r # save.rid => now[r] = d.requests[r]
  BY <1>1, <1>3 DEF Requests, Contents
<1>5. ASSUME NEW t \in Tab
      PROVE  /\ SavedTab(t, save) \in Tab /\ SavedTab(t, save).id = t.id /\ SavedTab(t, save).text = t.text
             /\ SavedTab(t, save).pending = t.pending /\ SavedTab(t, save).resp = t.resp
             /\ SavedTab(t, save).rid = save.rid /\ ~SavedTab(t, save).preview
             /\ SavedTab(t, save).touched <=> t.touched /\ t.text # save.text
             /\ SavedTab(t, save).apart <=> t.apart /\ t.text # save.text
  BY <1>3 DEF SavedTab, Tab, Ids
<1>6. ASSUME NEW t \in Tab
      PROVE  /\ OtherTab(t, save) \in Tab /\ OtherTab(t, save).id = t.id /\ OtherTab(t, save).text = t.text
             /\ OtherTab(t, save).pending = t.pending /\ OtherTab(t, save).resp = t.resp
             /\ OtherTab(t, save).rid = t.rid /\ OtherTab(t, save).preview = t.preview
             /\ OtherTab(t, save).touched = t.touched /\ OtherTab(t, save).vanished = t.vanished
             /\ OtherTab(t, save).apart <=> t.apart \/ (t.rid = save.rid /\ t.text # save.text)
  BY DEF OtherTab, Tab
<1>7. strip = [i \in 1..n |-> strip[i]] /\ DOMAIN strip = 1..n
  OBVIOUS
<1>8. \A i \in 1..n : strip[i] = IF d.tabs[i].id = save.tab THEN SavedTab(d.tabs[i], save)
                                                            ELSE OtherTab(d.tabs[i], save)
  OBVIOUS
<1>9. e = [d EXCEPT !.requests = now, !.tabs = strip]
  BY DEF SavedIn, MapTabs, DeskIsSound, Desk
<1> HIDE DEF strip, now, e
<1>10. /\ \A i \in 1..n : strip[i] \in Tab
       /\ \A i \in 1..n : strip[i].id = d.tabs[i].id /\ strip[i].text = d.tabs[i].text
       /\ \A i \in 1..n : strip[i].pending = d.tabs[i].pending /\ strip[i].resp = d.tabs[i].resp
  BY <1>1, <1>5, <1>6, <1>8
<1>11. \A i \in 1..n : strip[i].preview => ~strip[i].touched
  BY <1>1, <1>2, <1>5, <1>6, <1>8
<1>12. DeskIsSound(e) /\ e.tabs = strip /\ Len(e.tabs) = n /\ e.requests = now
  <2>1. e = WithStrip(d, strip, now)
    BY <1>9 DEF WithStrip, DeskIsSound, Desk
  <2>2. strip \in Seq(Tab) /\ Len(strip) = n
    BY <1>7, <1>10, MappedStrip DEF DeskIsSound
  <2> QED BY <1>4, <1>10, <1>11, <2>1, <2>2, Redrawn
<1>13. Follows(d, e)
  BY <1>10, <1>12 DEF Follows
<1>14. KeepsDrafts(d, e)
  BY <1>10, <1>12 DEF KeepsDrafts
<1>15. ASSUME DeskIsClean(d),
              \A i \in 1..n : d.tabs[i].id = save.tab =>
                 d.tabs[i].touched \/ d.tabs[i].apart \/ d.tabs[i].text = save.text,
              NEW i \in 1..n
       PROVE  IsClean(strip[i], now)
  <2>1. IsClean(d.tabs[i], d.requests) /\ d.tabs[i] \in Tab
    BY <1>1, <1>15 DEF DeskIsClean
  <2>2. CASE d.tabs[i].id = save.tab
    <3>1. strip[i] = SavedTab(d.tabs[i], save)
      BY <1>8, <2>2
    <3>2. /\ strip[i].rid = save.rid /\ strip[i].text = d.tabs[i].text
          /\ strip[i].touched <=> d.tabs[i].touched /\ d.tabs[i].text # save.text
          /\ strip[i].apart <=> d.tabs[i].apart /\ d.tabs[i].text # save.text
      BY <1>5, <2>1, <3>1
    <3>3. ~strip[i].touched /\ ~strip[i].apart => strip[i].text = save.text
      BY <1>15, <2>2, <3>2
    <3>4. LastSaved(strip[i], now) = save.text
      BY <1>3, <1>4, <3>2 DEF LastSaved, SavedOf
    <3> QED BY <3>3, <3>4 DEF IsClean
  <2>3. CASE d.tabs[i].id # save.tab
    <3>1. strip[i] = OtherTab(d.tabs[i], save)
      BY <1>8, <2>3
    <3>2. /\ strip[i].rid = d.tabs[i].rid /\ strip[i].text = d.tabs[i].text
          /\ strip[i].touched = d.tabs[i].touched /\ strip[i].vanished = d.tabs[i].vanished
          /\ strip[i].apart <=> d.tabs[i].apart \/ (d.tabs[i].rid = save.rid /\ d.tabs[i].text # save.text)
      BY <1>6, <2>1, <3>1
    <3>3. CASE d.tabs[i].rid = save.rid
      <4>1. LastSaved(strip[i], now) = save.text
        BY <1>3, <1>4, <3>2, <3>3 DEF LastSaved, SavedOf
      <4> QED BY <3>2, <3>3, <4>1 DEF IsClean
    <3>4. CASE d.tabs[i].rid # save.rid
      <4>1. d.tabs[i].rid # None => d.tabs[i].rid \in Rids
        BY <2>1 DEF Tab, Ids
      <4>2. SavedOf(strip[i], now) = SavedOf(d.tabs[i], d.requests)
        BY <1>4, <3>2, <3>4, <4>1 DEF SavedOf
      <4>3. LastSaved(strip[i], now) = LastSaved(d.tabs[i], d.requests)
        BY <3>2, <4>2 DEF LastSaved
      <4> QED BY <2>1, <3>2, <4>3 DEF IsClean
    <3> QED BY <3>3, <3>4
  <2> QED BY <2>2, <2>3
<1>16. DeskIsClean(d) /\ (\A i \in 1..n : d.tabs[i].id = save.tab =>
                            d.tabs[i].touched \/ d.tabs[i].apart \/ d.tabs[i].text = save.text)
         => DeskIsClean(e)
  BY <1>12, <1>15 DEF DeskIsClean
<1> QED BY <1>12, <1>13, <1>14, <1>16 DEF e, now

\* the reply of a deletion
DeleteCall == [rid : Rids, path : Paths, isMade : BOOLEAN]

DeletedIn(d, rid) ==
  [d EXCEPT !.requests[rid] = None,
            !.tabs = MapTabs(@, LAMBDA t : IF t.rid = rid THEN [t EXCEPT !.rid = None] ELSE t)]

LEMMA DeleteIsSound ==
  ASSUME NEW d, DeskIsSound(d), NEW rid \in Rids
  PROVE  LET e == DeletedIn(d, rid)
         IN  /\ DeskIsSound(e) /\ Follows(d, e) /\ KeepsDrafts(d, e)
             /\ e.requests = [d.requests EXCEPT ![rid] = None]
             /\ DeskIsClean(d) => DeskIsClean(e)
<1> DEFINE n == Len(d.tabs)
           e == DeletedIn(d, rid)
           now == [d.requests EXCEPT ![rid] = None]
           strip == [i \in 1..n |-> IF d.tabs[i].rid = rid THEN [d.tabs[i] EXCEPT !.rid = None] ELSE d.tabs[i]]
<1>1. d.requests \in Requests /\ \A i \in 1..n : d.tabs[i] \in Tab
  BY DeskFields
<1>2. \A i \in 1..n : d.tabs[i].preview => ~d.tabs[i].touched
  BY DEF DeskIsSound, IsStrip, PreviewsAreClean
<1>3. now \in Requests /\ \A r \in Rids : r # rid => now[r] = d.requests[r]
  BY <1>1 DEF Requests, Contents
<1>4. \A i \in 1..n : /\ strip[i] \in Tab /\ strip[i].id = d.tabs[i].id /\ strip[i].text = d.tabs[i].text
                      /\ strip[i].pending = d.tabs[i].pending /\ strip[i].resp = d.tabs[i].resp
                      /\ strip[i].preview = d.tabs[i].preview /\ strip[i].touched = d.tabs[i].touched
                      /\ strip[i].rid = None \/ (strip[i] = d.tabs[i] /\ d.tabs[i].rid # rid)
  BY <1>1 DEF Tab, Ids
<1>5. strip = [i \in 1..n |-> strip[i]] /\ DOMAIN strip = 1..n
  OBVIOUS
<1>6. e = [d EXCEPT !.requests = now, !.tabs = strip]
  BY DEF DeletedIn, MapTabs, DeskIsSound, Desk
<1> HIDE DEF strip, now, e
<1>7. \A i \in 1..n : strip[i].id = d.tabs[i].id
  BY <1>4
<1>8. \A i \in 1..n : strip[i].preview => ~strip[i].touched
  BY <1>2, <1>4
<1>9. DeskIsSound(e) /\ e.tabs = strip /\ Len(e.tabs) = n /\ e.requests = now
  <2>1. e = WithStrip(d, strip, now)
    BY <1>6 DEF WithStrip, DeskIsSound, Desk
  <2>2. strip \in Seq(Tab) /\ Len(strip) = n
    BY <1>4, <1>5, MappedStrip DEF DeskIsSound
  <2> QED BY <1>3, <1>7, <1>8, <2>1, <2>2, Redrawn
<1>10. Follows(d, e)
  BY <1>4, <1>9 DEF Follows
<1>11. KeepsDrafts(d, e)
  BY <1>4, <1>9 DEF KeepsDrafts
<1>12. ASSUME DeskIsClean(d), NEW i \in 1..n PROVE IsClean(strip[i], now)
  <2>1. CASE strip[i].rid = None
    BY <2>1 DEF IsClean
  <2>2. CASE strip[i].rid # None
    <3>1. strip[i] = d.tabs[i] /\ d.tabs[i].rid # rid
      BY <1>4, <2>2
    <3>2. d.tabs[i].rid \in Rids
      BY <1>1, <2>2, <3>1 DEF Tab, Ids
    <3>3. LastSaved(strip[i], now) = LastSaved(d.tabs[i], d.requests)
      BY <1>3, <3>1, <3>2 DEF LastSaved, SavedOf
    <3> QED BY <1>12, <3>1, <3>3 DEF DeskIsClean, IsClean
  <2> QED BY <2>1, <2>2
<1>13. DeskIsClean(d) => DeskIsClean(e)
  BY <1>9, <1>12 DEF DeskIsClean
<1> QED BY <1>9, <1>10, <1>11, <1>13 DEF e, now

\* a reload: drafts stay, as far as they are carried
CarriesDrafts(d, e) ==
  /\ Len(e.tabs) = Len(d.tabs)
  /\ \A i \in 1..Len(d.tabs) :
       e.tabs[i].id = d.tabs[i].id /\ (IsDraft(d.tabs[i], d) => e.tabs[i].text = Carried(d.tabs[i].text))

LEMMA ReconcileIsSound ==
  ASSUME isRestricted \in BOOLEAN, NEW d, DeskIsSound(d), NEW now \in Requests
  PROVE  LET e == Reconciled(d, now)
         IN  /\ DeskIsSound(e) /\ Follows(d, e) /\ e.requests = now
             /\ DeskIsClean(d) => DeskIsClean(e)
             /\ CarriesDrafts(d, e)
<1> DEFINE n == Len(d.tabs)
           e == Reconciled(d, now)
           New(t) == Reconcile(t, d.requests, now)
           strip == [i \in 1..n |-> New(d.tabs[i])]
<1>1. d.requests \in Requests /\ \A i \in 1..n : d.tabs[i] \in Tab
  BY DeskFields
<1>2. \A i \in 1..n : d.tabs[i].preview => ~d.tabs[i].touched
  BY DEF DeskIsSound, IsStrip, PreviewsAreClean
<1>3. ASSUME NEW t \in Tab
      PROVE  /\ New(t) \in Tab /\ New(t).id = t.id /\ New(t).rid = t.rid /\ New(t).preview = t.preview
             /\ New(t).pending = t.pending /\ New(t).resp = t.resp /\ (New(t).touched => t.touched)
             /\ IsDraft(t, d) => New(t).text = Carried(t.text)
             /\ IsClean(t, d.requests) => IsClean(New(t), now)
  <2> DEFINE current == SavedOf(t, now)
             saved   == LastSaved(t, d.requests)
             isDraft == saved = None \/ IsDirty(t, saved)
             stays   == current = None \/ saved = None \/ IsDirty(t, saved)
             clashes == /\ current # None /\ t.text # current
                        /\ \/ saved # None /\ t.text # saved /\ current # saved
                           \/ t.disk # None
             carried == Carried(t.text)
             text == IF stays THEN carried ELSE current
             notice == IF clashes THEN current ELSE None
             vanished == IF t.rid # None /\ current = None THEN saved ELSE None
             touched == t.touched /\ stays
             apart == stays /\ (t.apart \/ carried # t.text)
  <2>1. current \in Contents /\ saved \in Contents
    BY <1>1 DEF SavedOf, LastSaved, Tab, Ids, Requests, Contents
  <2>2. New(t) = [t EXCEPT !.text = text, !.touched = touched, !.apart = apart,
                           !.disk = notice, !.vanished = vanished]
    BY DEF Reconcile
  <2>3. saved # None => (isDraft <=> t.text # saved)
    BY DEF IsDirty
  <2>4. IsDraft(t, d) => stays
    BY DEF IsDraft
  <2>9. IsClean(t, d.requests) /\ t.rid # None /\ ~t.touched /\ ~t.apart => saved = t.text
    BY DEF IsClean
  <2>13. (stays <=> current = None \/ isDraft) /\ stays \in BOOLEAN
    OBVIOUS
  <2>14. carried \in Texts
    BY WorkbenchAssumption DEF Carried, Tab
  <2> HIDE DEF current, saved, isDraft, stays, carried, New
  <2>5. /\ text \in Texts
        /\ touched \in BOOLEAN
        /\ apart \in BOOLEAN
        /\ notice \in Contents
        /\ vanished \in Contents
    BY <2>1, <2>13, <2>14 DEF Tab, Contents
  <2>6. (stays => text = carried) /\ (touched => t.touched)
    OBVIOUS
  <2>10. t.text # None /\ t.text \in Texts
    BY WorkbenchAssumption DEF Tab
  <2>11. \/ current # None /\ text = current
         \/ stays /\ (touched <=> t.touched) /\ (~apart => ~t.apart /\ text = t.text)
    BY <2>13
  <2>12. vanished = IF t.rid # None /\ current = None THEN saved ELSE None
    OBVIOUS
  <2> HIDE DEF text, touched, apart, notice, vanished
  <2>7. /\ New(t) \in Tab /\ New(t).id = t.id /\ New(t).rid = t.rid /\ New(t).preview = t.preview
        /\ New(t).pending = t.pending /\ New(t).resp = t.resp
        /\ New(t).text = text /\ New(t).touched = touched /\ New(t).apart = apart /\ New(t).vanished = vanished
    BY <2>2, <2>5 DEF Tab
  <2>8. IsClean(t, d.requests) => IsClean(New(t), now)
    <3> SUFFICES ASSUME IsClean(t, d.requests), t.rid # None, ~touched, ~apart
                 PROVE  LastSaved(New(t), now) = text
      BY <2>7 DEF IsClean
    <3>1. SavedOf(New(t), now) = current
      BY <2>7 DEF SavedOf, current
    <3>2. CASE current # None /\ text = current
      BY <3>1, <3>2 DEF LastSaved
    <3>3. CASE stays /\ (touched <=> t.touched) /\ (~apart => ~t.apart /\ text = t.text)
      <4>1. saved = t.text /\ text = t.text
        BY <2>9, <3>3
      <4>2. current = None
        BY <2>3, <2>10, <2>13, <3>3, <4>1
      <4> QED BY <2>7, <2>12, <3>1, <4>1, <4>2 DEF LastSaved
    <3> QED BY <2>11, <3>2, <3>3
  <2>15. IsDraft(t, d) => New(t).text = Carried(t.text)
    BY <2>4, <2>6, <2>7 DEF carried
  <2>16. New(t).touched => t.touched
    BY <2>6, <2>7
  <2> QED BY <2>7, <2>8, <2>15, <2>16
<1>4. e = WithStrip(d, strip, now) /\ strip = [i \in 1..n |-> strip[i]] /\ DOMAIN strip = 1..n
  BY DEF Reconciled, MapTabs, WithStrip
<1> HIDE DEF New
<1>5. \A i \in 1..n : strip[i] = New(d.tabs[i])
  OBVIOUS
<1> HIDE DEF strip, e
<1>6. \A i \in 1..n : strip[i] \in Tab
  BY <1>1, <1>3, <1>5
<1>7. \A i \in 1..n : strip[i].id = d.tabs[i].id /\ strip[i].pending = d.tabs[i].pending /\ strip[i].resp = d.tabs[i].resp
  BY <1>1, <1>3, <1>5
<1>8. \A i \in 1..n : strip[i].preview => ~strip[i].touched
  BY <1>1, <1>2, <1>3, <1>5
<1>9. DeskIsSound(e) /\ e.tabs = strip /\ Len(e.tabs) = n /\ e.requests = now
  <2>2. strip \in Seq(Tab) /\ Len(strip) = n
    BY <1>4, <1>6, MappedStrip DEF DeskIsSound
  <2>3. \A i \in 1..n : strip[i].id = d.tabs[i].id
    BY <1>7
  <2>4. e = WithStrip(d, strip, now)
    BY <1>4
  <2> QED BY <1>8, <2>2, <2>3, <2>4, Redrawn
<1>10. Follows(d, e)
  BY <1>7, <1>9 DEF Follows
<1>11. CarriesDrafts(d, e)
  <2>1. \A i \in 1..n : IsDraft(d.tabs[i], d) => strip[i].text = Carried(d.tabs[i].text)
    BY <1>1, <1>3, <1>5
  <2> QED BY <1>7, <1>9, <2>1 DEF CarriesDrafts
<1>12. DeskIsClean(d) => DeskIsClean(e)
  <2>1. \A i \in 1..n : IsClean(d.tabs[i], d.requests) => IsClean(strip[i], now)
    BY <1>1, <1>3, <1>5
  <2> QED BY <1>9, <2>1 DEF DeskIsClean
<1> QED BY <1>9, <1>10, <1>11, <1>12 DEF e

-----------------------------------------------------------------------------
(* What survives a restart, and the strips kept for other workspaces *)

\* the drafts of d are texts of k
HasDraftsOf(k, d) ==
  \A i \in 1..Len(d.tabs) : IsDraft(d.tabs[i], d) =>
    \E j \in 1..Len(k.tabs) : k.tabs[j].id = d.tabs[i].id /\ k.tabs[j].text = d.tabs[i].text

LEMMA PersistIsSound ==
  ASSUME NEW d, DeskIsSound(d)
  PROVE  LET k == Persistable(d)
         IN  /\ KeptIsSound(k) /\ HasDraftsOf(k, d)
             /\ DeskIsClean(d) => KeptIsClean(k)
<1> DEFINE n == Len(d.tabs)
           k == Persistable(d)
           Kept(t) == PersistableTab(t, d.requests)
           strip == [i \in 1..n |-> Kept(d.tabs[i])]
<1>1. /\ d.requests \in Requests /\ n \in Nat /\ d.active \in Nat /\ d.next \in Nat
      /\ \A i \in 1..n : d.tabs[i] \in Tab
  BY DeskFields
<1>2. ASSUME NEW t \in Tab
      PROVE  /\ Kept(t) \in KeptTab /\ Kept(t).id = t.id /\ Kept(t).text = t.text
             /\ Kept(t).preview = t.preview /\ Kept(t).touched = t.touched
             /\ IsClean(t, d.requests) /\ Kept(t).rid # None /\ ~Kept(t).touched /\ ~Kept(t).apart => Kept(t).isSaved
  <2> DEFINE isSaved == LastSaved(t, d.requests) # None /\ ~IsDirty(t, LastSaved(t, d.requests))
  <2>1. isSaved \in BOOLEAN
    OBVIOUS
  <2>2. LastSaved(t, d.requests) = t.text => isSaved
    BY WorkbenchAssumption DEF IsDirty, Tab
  <2>3. Kept(t) = [id |-> t.id, rid |-> t.rid, text |-> t.text, preview |-> t.preview, isSaved |-> isSaved,
                   touched |-> t.touched, apart |-> t.apart]
    BY DEF PersistableTab
  <2> HIDE DEF isSaved, Kept
  <2>4. /\ Kept(t) \in KeptTab /\ Kept(t).id = t.id /\ Kept(t).text = t.text /\ Kept(t).rid = t.rid
        /\ Kept(t).preview = t.preview /\ Kept(t).touched = t.touched /\ Kept(t).apart = t.apart
        /\ Kept(t).isSaved = isSaved
    BY <2>1, <2>3 DEF Tab, KeptTab
  <2> QED BY <2>2, <2>4 DEF IsClean
<1>3. k = [tabs |-> strip, active |-> d.active, next |-> d.next]
  BY DEF Persistable, MapTabs
<1>4. strip = [i \in 1..n |-> strip[i]] /\ DOMAIN strip = 1..n
  OBVIOUS
<1> HIDE DEF Kept
<1>5. \A i \in 1..n : strip[i] = Kept(d.tabs[i])
  OBVIOUS
<1> HIDE DEF strip, k
<1>6. /\ \A i \in 1..n : strip[i] \in KeptTab
      /\ \A i \in 1..n : strip[i].id = d.tabs[i].id /\ strip[i].text = d.tabs[i].text
      /\ \A i \in 1..n : strip[i].preview = d.tabs[i].preview /\ strip[i].touched = d.tabs[i].touched
  BY <1>1, <1>2, <1>5
<1>7. strip \in Seq(KeptTab) /\ Len(strip) = n
  <2>1. strip \in [1..n -> KeptTab]
    BY <1>4, <1>6
  <2> QED BY <1>1, <2>1, SeqDef
<1>8. k \in KeptDesk /\ k.tabs = strip /\ k.active = d.active /\ k.next = d.next
  BY <1>1, <1>3, <1>7 DEF KeptDesk
<1>9. IsStrip(k)
  BY <1>6, <1>7, <1>8 DEF DeskIsSound, IsStrip, IsNumbered, HasActive, PreviewsAreClean
<1>10. HasDraftsOf(k, d)
  BY <1>6, <1>7, <1>8 DEF HasDraftsOf
<1>11. DeskIsClean(d) => KeptIsClean(k)
  BY <1>1, <1>2, <1>5, <1>7, <1>8 DEF DeskIsClean, KeptIsClean
<1> QED BY <1>8, <1>9, <1>10, <1>11 DEF KeptIsSound, k

LEMMA RestoreIsSound ==
  ASSUME NEW k, KeptIsSound(k)
  PROVE  LET d == RestoreDesk(k)
         IN  /\ DeskIsSound(d) /\ Len(d.tabs) = Len(k.tabs)
             /\ \A i \in 1..Len(k.tabs) : /\ d.tabs[i].id = k.tabs[i].id /\ d.tabs[i].text = k.tabs[i].text
                                          /\ d.tabs[i].pending = 0 /\ d.tabs[i].resp = 0
             /\ KeptIsClean(k) => DeskIsClean(d)
<1> DEFINE n == Len(k.tabs)
           d == RestoreDesk(k)
           strip == [i \in 1..n |-> RestoreTab(k.tabs[i])]
           next == IF k.next > NextIdAfter(k.tabs) THEN k.next ELSE NextIdAfter(k.tabs)
           none == [r \in Rids |-> None]
<1>1. k.tabs \in Seq(KeptTab) /\ n \in Nat /\ k.active \in Nat /\ k.next \in Nat /\ \A i \in 1..n : k.tabs[i] \in KeptTab
  <2>1. k.tabs \in Seq(KeptTab) /\ k.active \in Nat /\ k.next \in Nat
    BY DEF KeptIsSound, KeptDesk
  <2> QED BY <2>1, ElementOfSeq
<1>2. \A i \in 1..n : k.tabs[i].preview => ~k.tabs[i].touched
  BY DEF KeptIsSound, IsStrip, PreviewsAreClean
<1>3. NextIdAfter(k.tabs) \in Nat
  <2> DEFINE S == {0} \cup TabIds(k.tabs)
  <2>1. \A i \in 1..n : k.tabs[i].id \in Nat /\ k.tabs[i].id < k.next
    BY <1>1 DEF KeptIsSound, IsStrip, IsNumbered, KeptTab
  <2>2. S \in SUBSET Nat /\ S # {} /\ \A x \in S : x < k.next + 1
    BY <1>1, <2>1 DEF TabIds
  <2> HIDE DEF S
  <2>3. k.next + 1 \in Nat
    BY <1>1
  <2>4. Max(S) \in S
    BY <2>2, <2>3, GreatestNumber
  <2>5. Max(S) \in Nat
    BY <2>2, <2>4
  <2> QED BY <2>5 DEF NextIdAfter, S
<1>4. next \in Nat /\ next >= k.next
  BY <1>1, <1>3
<1>5. ASSUME NEW t \in KeptTab
      PROVE  /\ RestoreTab(t) \in Tab /\ RestoreTab(t).id = t.id /\ RestoreTab(t).text = t.text
             /\ RestoreTab(t).preview = t.preview /\ RestoreTab(t).touched = t.touched
             /\ RestoreTab(t).apart = t.apart /\ RestoreTab(t).rid = t.rid
             /\ RestoreTab(t).pending = 0 /\ RestoreTab(t).resp = 0
             /\ t.isSaved => RestoreTab(t).vanished = t.text
  <2> DEFINE vanished == IF t.isSaved THEN t.text ELSE None
  <2>1. vanished \in Contents /\ None \in Contents /\ (t.isSaved => vanished = t.text)
    BY DEF KeptTab, Contents
  <2>2. RestoreTab(t) =
          [id |-> t.id, rid |-> t.rid, text |-> t.text, preview |-> t.preview,
           pending |-> 0, resp |-> 0, disk |-> None, vanished |-> vanished, touched |-> t.touched,
           apart |-> t.apart]
    BY DEF RestoreTab
  <2> HIDE DEF vanished
  <2> QED BY <2>1, <2>2 DEF Tab, KeptTab
<1>6. d = [tabs |-> strip, active |-> k.active, next |-> next, requests |-> none]
  BY DEF RestoreDesk, MapTabs
<1>7. strip = [i \in 1..n |-> strip[i]] /\ DOMAIN strip = 1..n
  OBVIOUS
<1>8. \A i \in 1..n : strip[i] = RestoreTab(k.tabs[i])
  OBVIOUS
<1>9. none \in Requests /\ \A r \in Rids : none[r] = None
  BY DEF Requests, Contents
<1> HIDE DEF strip, d, next, none
<1>10. /\ \A i \in 1..n : strip[i] \in Tab
       /\ \A i \in 1..n : /\ strip[i].id = k.tabs[i].id /\ strip[i].text = k.tabs[i].text
                          /\ strip[i].pending = 0 /\ strip[i].resp = 0
       /\ \A i \in 1..n : strip[i].preview => ~strip[i].touched
  BY <1>1, <1>2, <1>5, <1>8
<1>11. strip \in Seq(Tab) /\ Len(strip) = n
  <2>1. strip \in [1..n -> Tab]
    BY <1>7, <1>10
  <2> QED BY <1>1, <2>1, SeqDef
<1>12. d \in Desk /\ d.tabs = strip /\ d.active = k.active /\ d.next = next /\ d.requests = none
  BY <1>1, <1>4, <1>6, <1>9, <1>11 DEF Desk
<1>13. IsStrip(d)
  <2>1. \A i \in 1..n : strip[i].id < next
    <3>1. \A i \in 1..n : k.tabs[i].id < k.next /\ k.tabs[i].id \in Nat
      BY <1>1 DEF KeptIsSound, IsStrip, IsNumbered, KeptTab
    <3> QED BY <1>1, <1>4, <1>10, <3>1
  <2>2. \A i, j \in 1..n : strip[i].id = strip[j].id => i = j
    BY <1>10 DEF KeptIsSound, IsStrip, IsNumbered
  <2>3. IsNumbered(d.tabs, d.next)
    BY <1>11, <1>12, <2>1, <2>2 DEF IsNumbered
  <2>4. HasActive(d.tabs, d.active)
    BY <1>10, <1>11, <1>12 DEF HasActive, KeptIsSound, IsStrip
  <2>5. PreviewsAreClean(d.tabs) /\ Len(d.tabs) > 0
    BY <1>10, <1>11, <1>12 DEF PreviewsAreClean, KeptIsSound, IsStrip
  <2> QED BY <2>3, <2>4, <2>5 DEF IsStrip
<1>14. ASSUME KeptIsClean(k), NEW i \in 1..n PROVE IsClean(strip[i], none)
  <2>1. k.tabs[i] \in KeptTab /\ strip[i] = RestoreTab(k.tabs[i])
    BY <1>1, <1>8
  <2>2. /\ strip[i].text = k.tabs[i].text /\ strip[i].rid = k.tabs[i].rid
        /\ strip[i].touched = k.tabs[i].touched /\ strip[i].apart = k.tabs[i].apart
        /\ k.tabs[i].isSaved => strip[i].vanished = k.tabs[i].text
    BY <1>5, <2>1
  <2>3. strip[i].rid # None => strip[i].rid \in Rids
    BY <2>1, <2>2 DEF KeptTab, Ids
  <2>4. SavedOf(strip[i], none) = None
    BY <1>9, <2>3 DEF SavedOf
  <2>5. LastSaved(strip[i], none) = strip[i].vanished
    BY <2>4 DEF LastSaved
  <2> QED BY <1>14, <2>2, <2>5 DEF IsClean, KeptIsClean
<1>15. KeptIsClean(k) => DeskIsClean(d)
  BY <1>11, <1>12, <1>14 DEF DeskIsClean
<1> QED BY <1>10, <1>11, <1>12, <1>13, <1>15 DEF DeskIsSound, d

Session == [path : Paths, desk : Desk]

\* every workspace has one strip at most
ArePlaces(ss) == \A i, j \in 1..Len(ss) : ss[i].path = ss[j].path => i = j

\* r holds elements of ss only
IsFrom(r, ss) == \A k \in 1..Len(r) : \E i \in 1..Len(ss) : r[k] = ss[i]

LEMMA OnlySessions ==
  ASSUME sessions \in Seq(Session), NEW p
  PROVE  /\ SessionOf(p) \in Seq(Session) /\ OtherSessions(p) \in Seq(Session)
         /\ IsFrom(SessionOf(p), sessions) /\ IsFrom(OtherSessions(p), sessions)
         /\ Len(OtherSessions(p)) <= Len(sessions)
         /\ \A k \in 1..Len(SessionOf(p)) : SessionOf(p)[k].path = p
         /\ \A k \in 1..Len(OtherSessions(p)) : OtherSessions(p)[k].path # p
         /\ \A i \in 1..Len(sessions) :
              IF sessions[i].path = p THEN \E k \in 1..Len(SessionOf(p)) : SessionOf(p)[k] = sessions[i]
              ELSE \E k \in 1..Len(OtherSessions(p)) : OtherSessions(p)[k] = sessions[i]
         /\ ArePlaces(sessions) => ArePlaces(OtherSessions(p))
<1> DEFINE S == {s \in Range(sessions) : s.path = p}
           T == {s \in Range(sessions) : s.path # p}
           one == SessionOf(p)
           rest == OtherSessions(p)
<1>1. \A i \in 1..Len(sessions) : (sessions[i] \in S <=> sessions[i].path = p) /\ (sessions[i] \in T <=> sessions[i].path # p)
  BY DEF Range
<1>2. one = Only(sessions, S) /\ rest = Only(sessions, T)
  BY DEF SessionOf, OtherSessions
<1> HIDE DEF one, rest, S, T
<1>3. IsOnly(one, sessions, S, Session) /\ IsOnly(rest, sessions, T, Session)
  BY <1>2, OnlyFacts
<1>4. PICK e : Embeds(e, one, sessions, S)
  BY <1>3 DEF IsOnly
<1>5. PICK f : Embeds(f, rest, sessions, T)
  BY <1>3 DEF IsOnly
<1>6. \A k \in 1..Len(one) : e[k] \in 1..Len(sessions) /\ one[k] = sessions[e[k]] /\ sessions[e[k]] \in S
  BY <1>4 DEF Embeds
<1>7. \A k \in 1..Len(rest) : f[k] \in 1..Len(sessions) /\ rest[k] = sessions[f[k]] /\ sessions[f[k]] \in T
  BY <1>5 DEF Embeds
<1>8. IsFrom(one, sessions) /\ \A k \in 1..Len(one) : one[k].path = p
  BY <1>1, <1>6 DEF IsFrom
<1>9. IsFrom(rest, sessions) /\ \A k \in 1..Len(rest) : rest[k].path # p
  BY <1>1, <1>7 DEF IsFrom
<1>10. ASSUME NEW i \in 1..Len(sessions), sessions[i].path = p PROVE \E k \in 1..Len(one) : one[k] = sessions[i]
  <2>1. PICK k \in 1..Len(one) : e[k] = i
    BY <1>1, <1>4, <1>10 DEF Embeds
  <2> QED BY <1>6, <2>1
<1>11. ASSUME NEW i \in 1..Len(sessions), sessions[i].path # p PROVE \E k \in 1..Len(rest) : rest[k] = sessions[i]
  <2>1. PICK k \in 1..Len(rest) : f[k] = i
    BY <1>1, <1>5, <1>11 DEF Embeds
  <2> QED BY <1>7, <2>1
<1>12. ASSUME ArePlaces(sessions) PROVE ArePlaces(rest)
  <2>1. ASSUME NEW k \in 1..Len(rest), NEW l \in 1..Len(rest), rest[k].path = rest[l].path PROVE k = l
    <3>1. f[k] = f[l]
      BY <1>7, <1>12, <2>1 DEF ArePlaces
    <3>2. Len(rest) \in Nat /\ Len(sessions) \in Nat
      BY <1>3 DEF IsOnly
    <3>3. ~(k < l) /\ ~(l < k)
      BY <1>5, <1>7, <3>1, <3>2 DEF Embeds
    <3> QED BY <3>2, <3>3
  <2> QED BY <2>1 DEF ArePlaces
<1>13. one \in Seq(Session) /\ rest \in Seq(Session) /\ Len(rest) <= Len(sessions)
  BY <1>3 DEF IsOnly
<1> QED BY <1>8, <1>9, <1>10, <1>11, <1>12, <1>13 DEF one, rest

LEMMA SessionAdded ==
  ASSUME NEW kept \in Seq(Session), NEW s \in Session
  PROVE  LET w == WithSession(kept, s)
         IN  /\ w \in Seq(Session) /\ Len(w) <= Len(kept) + 1
             /\ \A k \in 1..Len(w) : w[k] = s \/ (w[k].path # s.path /\ \E i \in 1..Len(kept) : w[k] = kept[i])
             /\ \E k \in 1..Len(w) : w[k] = s
             /\ \A i \in 1..Len(kept) : kept[i].path = s.path \/ \E k \in 1..Len(w) : w[k] = kept[i]
             /\ ArePlaces(kept) => ArePlaces(w)
<1> DEFINE w == WithSession(kept, s)
           n == Len(kept)
           Good == /\ w \in Seq(Session) /\ Len(w) <= n + 1
                   /\ \A k \in 1..Len(w) : w[k] = s \/ (w[k].path # s.path /\ \E i \in 1..n : w[k] = kept[i])
                   /\ \E k \in 1..Len(w) : w[k] = s
                   /\ \A i \in 1..n : kept[i].path = s.path \/ \E k \in 1..Len(w) : w[k] = kept[i]
                   /\ ArePlaces(kept) => ArePlaces(w)
<1>1. n \in Nat /\ \A i \in 1..n : kept[i] \in Session
  BY ElementOfSeq
<1>2. CASE \E i \in 1..n : kept[i].path = s.path
  <2>1. w = [i \in 1..n |-> IF kept[i].path = s.path THEN s ELSE kept[i]]
    BY <1>2 DEF WithSession
  <2>2. \A i \in 1..n : w[i] = IF kept[i].path = s.path THEN s ELSE kept[i]
    BY <2>1
  <2>3. w \in [1..n -> Session]
    BY <1>1, <2>1
  <2> HIDE DEF w
  <2>4. w \in Seq(Session) /\ Len(w) = n
    BY <1>1, <2>3, SeqDef
  <2>5. \A i \in 1..n : w[i].path = kept[i].path
    BY <2>2
  <2>6. ArePlaces(kept) => ArePlaces(w)
    BY <2>4, <2>5 DEF ArePlaces
  <2>7. \A k \in 1..n : w[k] = s \/ (w[k].path # s.path /\ \E i \in 1..n : w[k] = kept[i])
    BY <2>2
  <2>8. \E k \in 1..n : w[k] = s
    BY <1>2, <2>2
  <2>9. \A i \in 1..n : kept[i].path = s.path \/ \E k \in 1..n : w[k] = kept[i]
    BY <2>2
  <2> QED BY <1>1, <2>4, <2>6, <2>7, <2>8, <2>9 DEF w
<1>3. CASE ~\E i \in 1..n : kept[i].path = s.path
  <2>1. w = Append(kept, s)
    BY <1>3 DEF WithSession
  <2>2. w \in Seq(Session) /\ Len(w) = n + 1 /\ w[n + 1] = s /\ \A i \in 1..n : w[i] = kept[i]
    BY <1>1, <2>1, AppendProperties
  <2> HIDE DEF w
  <2>3. \A k \in 1..(n + 1) : k = n + 1 \/ k \in 1..n
    BY <1>1
  <2>4. n + 1 \in 1..(n + 1) /\ \A k \in 1..n : k \in 1..(n + 1)
    BY <1>1
  <2>5. \A k \in 1..(n + 1) : w[k] = s \/ (w[k].path # s.path /\ \E i \in 1..n : w[k] = kept[i])
    BY <1>3, <2>2, <2>3
  <2>6. \A i \in 1..n : \E k \in 1..(n + 1) : w[k] = kept[i]
    BY <2>2, <2>4
  <2>7. ASSUME ArePlaces(kept) PROVE ArePlaces(w)
    <3>1. ASSUME NEW k \in 1..(n + 1), NEW l \in 1..(n + 1), w[k].path = w[l].path PROVE k = l
      <4>1. \A i \in 1..n : w[i].path # s.path
        BY <1>3, <2>2
      <4> QED BY <2>2, <2>3, <2>7, <3>1, <4>1 DEF ArePlaces
    <3> QED BY <2>2, <3>1 DEF ArePlaces
  <2>8. w \in Seq(Session) /\ Len(w) <= n + 1
    BY <1>1, <2>2
  <2> QED BY <2>2, <2>4, <2>5, <2>6, <2>7, <2>8 DEF w
<1> QED BY <1>2, <1>3

LEMMA NewestIs ==
  ASSUME NEW kept \in Seq(Session)
  PROVE  /\ Newest(kept) \in Seq(Session) /\ IsFrom(Newest(kept), kept) /\ Len(Newest(kept)) <= MaxSessions
         /\ Len(kept) <= MaxSessions => Newest(kept) = kept
         /\ ArePlaces(kept) => ArePlaces(Newest(kept))
<1> DEFINE n == Len(kept)
           m == IF n > MaxSessions THEN n - MaxSessions + 1 ELSE 1
           w == SubSeq(kept, m, n)
<1>1. n \in Nat /\ MaxSessions \in Nat /\ MaxSessions # 0 /\ \A i \in 1..n : kept[i] \in Session
  BY ElementOfSeq, WorkbenchAssumption
<1>2. w = Newest(kept)
  BY DEF Newest
<1>3. m \in Nat /\ m >= 1 /\ m <= n + 1 /\ n - m + 1 <= MaxSessions /\ (n <= MaxSessions => m = 1)
  BY <1>1
<1> HIDE DEF m, n
<1>4. \A i \in m..n : i \in 1..n /\ kept[i] \in Session
  BY <1>1, <1>3
<1>5. /\ w \in Seq(Session) /\ (Len(w) = IF m <= n THEN n - m + 1 ELSE 0)
      /\ \A i \in 1..(n - m + 1) : w[i] = kept[m + i - 1]
  <2>1. m \in Int /\ n \in Int /\ \A i \in m..n : kept[i] \in Session
    BY <1>1, <1>3, <1>4
  <2> QED BY <2>1, SubSeqProperties
<1> HIDE DEF w
<1>6. Len(w) = n - m + 1
  BY <1>1, <1>3, <1>5
<1>7. ASSUME NEW k \in 1..Len(w) PROVE m + k - 1 \in 1..n /\ w[k] = kept[m + k - 1]
  BY <1>1, <1>3, <1>5, <1>6
<1>8. IsFrom(w, kept)
  BY <1>7 DEF IsFrom, n
<1>9. Len(w) <= MaxSessions
  BY <1>3, <1>6
<1>10. ASSUME n <= MaxSessions PROVE w = kept
  <2>1. m = 1 /\ Len(w) = n
    BY <1>1, <1>3, <1>6, <1>10
  <2>2. \A k \in 1..n : w[k] = kept[k]
    <3>1. \A k \in 1..n : m + k - 1 = k
      BY <1>1, <2>1
    <3> QED BY <1>7, <2>1, <3>1
  <2> QED BY <1>5, <2>1, <2>2, SeqEqual DEF n
<1>11. ASSUME ArePlaces(kept) PROVE ArePlaces(w)
  <2>1. ASSUME NEW k \in 1..Len(w), NEW l \in 1..Len(w), w[k].path = w[l].path PROVE k = l
    <3>1. m + k - 1 = m + l - 1
      BY <1>7, <1>11, <2>1 DEF ArePlaces, n
    <3> QED BY <1>3, <1>5, <3>1
  <2> QED BY <2>1 DEF ArePlaces
<1> QED BY <1>2, <1>5, <1>8, <1>9, <1>10, <1>11 DEF n

-----------------------------------------------------------------------------
(* The invariant *)

WbData == [requests : Requests, folders : Paths, restricted : BOOLEAN]

WbTypes ==
  /\ path \in Paths /\ open \in Paths /\ hydrated \in BOOLEAN
  /\ folders \in [of : Paths, edited : BOOLEAN]
  /\ closed \in Seq(Shut) /\ last \in [Rids -> Nat]
  /\ sends \in Seq([tab : Nat, path : Paths, isRunning : BOOLEAN, isSigned : BOOLEAN]) /\ asking \in Nat
  /\ saves \subseteq SaveCall /\ deletes \subseteq DeleteCall
  /\ switch \in [at : {"idle"}] \cup [at : {"saving", "opened"}, to : Paths]
  /\ load \in [at : {"idle", "waiting"}] \cup [at : {"read"}, data : WbData]
  /\ reload \in [at : {"idle"}] \cup [at : {"read"}, data : WbData, path : Paths]
  /\ disk \in [Paths -> WbData]
  /\ announced \in BOOLEAN /\ isRestricted \in BOOLEAN /\ crossed \in BOOLEAN /\ overtaken \in BOOLEAN

KeptSession == [path : Paths, desk : KeptDesk]

SessionsAreSound(ss) ==
  /\ ss \in Seq(Session) /\ ArePlaces(ss) /\ Len(ss) <= MaxSessions
  /\ \A i \in 1..Len(ss) : DeskIsSound(ss[i].desk)

DraftsAreSound(k) ==
  /\ k \in [path : Paths, desk : KeptDesk, isRestricted : BOOLEAN, sessions : Seq(KeptSession)]
  /\ KeptIsSound(k.desk) /\ ArePlaces(k.sessions) /\ Len(k.sessions) <= MaxSessions
  /\ \A i \in 1..Len(k.sessions) : KeptIsSound(k.sessions[i].desk)

DesksInv == DeskIsSound(desk) /\ SessionsAreSound(sessions) /\ DraftsAreSound(drafts)

\* no other strip is kept for p
AreElsewhere(ss, p) == \A i \in 1..Len(ss) : ss[i].path # p
SessionsAreClean(ss) == \A i \in 1..Len(ss) : DeskIsClean(ss[i].desk)
DraftsAreClean(k) ==
  /\ KeptIsClean(k.desk) /\ \A i \in 1..Len(k.sessions) : KeptIsClean(k.sessions[i].desk)
  /\ AreElsewhere(k.sessions, k.path)

\* but for the windows that crossed names, clean tabs are clean, wherever they are kept
CleanInv ==
  crossed \/ /\ DeskIsClean(desk) /\ SessionsAreClean(sessions) /\ AreElsewhere(sessions, path)
             /\ DraftsAreClean(drafts)

PendingInv ==
  Awaits(desk, path) /\ \A i \in 1..Len(sessions) : Awaits(sessions[i].desk, sessions[i].path)

SwitchInv ==
  /\ switch.at # "idle" => switch.to # path
  /\ switch.at # "opened" => path = open
  /\ switch.at = "opened" => open = switch.to

\* the folders in the store, and those a load has read, are those of the workspace
FoldersInv ==
  crossed \/ /\ \A p \in Paths : disk[p].folders = p
             /\ load.at = "read" => switch.at = "idle" /\ load.data.folders = open
             /\ reload.at = "read" => reload.data.folders = reload.path
             /\ hydrated => folders.of = open /\ switch.at = "idle"

\* what a filled store and the backend differ in is being saved, deleted or read
StoreInv ==
  \/ crossed \/ overtaken \/ ~hydrated \/ announced \/ reload.at = "read"
  \/ \A r \in Rids : \/ desk.requests[r] = disk[open].requests[r]
                     \/ \E save \in saves : save.rid = r
                     \/ \E delete \in deletes : delete.rid = r

\* what every step but a few leaves alone
wbRest == <<path, sessions, hydrated, folders, last, sends, saves, deletes, switch, load, reload,
            open, disk, announced, drafts, isRestricted, crossed, overtaken>>

\* a draft stays, or is one the model names
LetsGo(t) == UserGivesUp(t) \/ IsStripped(t) \/ IsRenewed(t)

DraftsStay ==
  \A i \in 1..Len(desk.tabs) : IsDraft(desk.tabs[i], desk) =>
    \/ \E j \in 1..Len(desk'.tabs) : desk'.tabs[j].id = desk.tabs[i].id /\ desk'.tabs[j].text = desk.tabs[i].text
    \/ LetsGo(desk.tabs[i])

\* what the tab strip's operations promise
IsStripStep ==
  /\ DeskIsSound(desk') /\ Follows(desk, desk') /\ desk'.requests = desk.requests
  /\ DeskIsClean(desk) => DeskIsClean(desk')
  /\ closed' \in Seq(Shut) /\ asking' = asking
  /\ KeepsDrafts(desk, desk') \/ DraftsStay
  /\ UNCHANGED wbRest

LEMMA NewTabStep ==
  ASSUME WbTypes, DesksInv, NewTab
  PROVE  IsStripStep
<1>1. /\ desk' = AppendTab(desk, None, Blank, FALSE) /\ UNCHANGED wbRest /\ closed' \in Seq(Shut) /\ asking' = asking
  BY DEF WbTypes, NewTab, background, trust, wbRest
<1>2. None \in Ids /\ Blank \in Texts /\ last \in [Rids -> Nat]
  BY WorkbenchAssumption DEF Ids, WbTypes
<1>3. desk \in Desk /\ IsNumbered(desk.tabs, desk.next) /\ PreviewsAreClean(desk.tabs)
  BY DEF DesksInv, DeskIsSound, IsStrip
<1>4. /\ DeskIsSound(desk') /\ Follows(desk, desk') /\ KeepsDrafts(desk, desk')
      /\ DeskIsClean(desk) => DeskIsClean(desk')
  BY <1>1, <1>2, <1>3, AppendIsSound
<1>5. desk'.requests = desk.requests
  BY <1>1, <1>2, <1>3, Appended
<1> QED BY <1>1, <1>4, <1>5 DEF IsStripStep

LEMMA OpenStep ==
  ASSUME WbTypes, DesksInv, NEW rid \in Rids, NEW preview \in BOOLEAN, OpenRequestTab(rid, preview)
  PROVE  IsStripStep
<1>1. /\ desk' = TabsWithOpened(desk, rid, preview) /\ UNCHANGED wbRest /\ closed' \in Seq(Shut) /\ asking' = asking
      /\ desk.requests[rid] # None
  BY DEF WbTypes, OpenRequestTab, background, trust, wbRest
<1>2. last \in [Rids -> Nat] /\ DeskIsSound(desk)
  BY DEF WbTypes, DesksInv
<1>3. /\ DeskIsSound(desk') /\ Follows(desk, desk') /\ KeepsDrafts(desk, desk') /\ desk'.requests = desk.requests
      /\ DeskIsClean(desk) => DeskIsClean(desk')
  BY <1>1, <1>2, OpenIsSound
<1> QED BY <1>1, <1>3 DEF IsStripStep

LEMMA SetActiveStep ==
  ASSUME WbTypes, DesksInv, NEW id, SetActiveTab(id)
  PROVE  IsStripStep
<1>1. /\ desk' = [desk EXCEPT !.active = id] /\ UNCHANGED wbRest /\ closed' \in Seq(Shut) /\ asking' = asking
      /\ id \in TabIds(desk.tabs)
  BY DEF WbTypes, SetActiveTab, background, trust, wbRest, Tabs
<1>2. DeskIsSound(desk)
  BY DEF DesksInv
<1>3. id \in Nat /\ HasActive(desk.tabs, id)
  <2>1. PICK i \in 1..Len(desk.tabs) : desk.tabs[i].id = id
    BY <1>1 DEF TabIds
  <2>2. desk.tabs[i] \in Tab
    BY <1>2, DeskFields
  <2> QED BY <2>1, <2>2 DEF Tab, HasActive
<1>4. /\ desk' \in Desk /\ desk'.tabs = desk.tabs /\ desk'.next = desk.next /\ desk'.active = id
      /\ desk'.requests = desk.requests
  BY <1>1, <1>2, <1>3 DEF DeskIsSound, Desk
<1>5. DeskIsSound(desk')
  BY <1>2, <1>3, <1>4 DEF DeskIsSound, IsStrip
<1>6. Follows(desk, desk') /\ KeepsDrafts(desk, desk') /\ (DeskIsClean(desk) => DeskIsClean(desk'))
  BY <1>4 DEF Follows, KeepsDrafts, DeskIsClean
<1> QED BY <1>1, <1>4, <1>5, <1>6 DEF IsStripStep

LEMMA MoveStep ==
  ASSUME WbTypes, DesksInv, NEW id, NEW target, NEW after \in BOOLEAN, MoveTab(id, target, after)
  PROVE  IsStripStep
<1>1. /\ desk' = Moved(desk, id, target, after) /\ UNCHANGED wbRest /\ closed' \in Seq(Shut)
      /\ id \in TabIds(desk.tabs) /\ target \in TabIds(desk.tabs) /\ id # target /\ asking' = asking
  BY DEF WbTypes, MoveTab, Moved, background, trust, wbRest, Tabs
<1>2. DeskIsSound(desk)
  BY DEF DesksInv
<1>3. /\ DeskIsSound(desk') /\ Follows(desk, desk') /\ KeepsDrafts(desk, desk') /\ desk'.requests = desk.requests
      /\ DeskIsClean(desk) => DeskIsClean(desk')
  BY <1>1, <1>2, MoveIsSound
<1> QED BY <1>1, <1>3 DEF IsStripStep

LEMMA CloseTabsStep ==
  ASSUME WbTypes, DesksInv, NEW closing \in SUBSET TabIds(Tabs), CloseTabs(closing)
  PROVE  IsStripStep
<1>1. desk' = WithoutTabs(desk, closing) /\ closed' = Remembered(desk, closing) /\ UNCHANGED wbRest /\ asking' = asking
  BY DEF CloseTabs, Close, background, trust, wbRest
<1>2. last \in [Rids -> Nat] /\ DeskIsSound(desk) /\ desk \in Desk /\ closed \in Seq(Shut)
  BY DEF WbTypes, DesksInv, DeskIsSound
<1>3. /\ DeskIsSound(desk') /\ Follows(desk, desk') /\ desk'.requests = desk.requests
      /\ DeskIsClean(desk) => DeskIsClean(desk')
      /\ \A i \in 1..Len(desk.tabs) : desk.tabs[i].id \notin closing =>
           \E k \in 1..Len(desk'.tabs) : desk'.tabs[k] = desk.tabs[i]
  BY <1>1, <1>2, CloseIsSound
<1>4. closed' \in Seq(Shut)
  BY <1>1, <1>2, RememberedIs
<1>5. DraftsStay
  <2>1. \A i \in 1..Len(desk.tabs) : desk.tabs[i].id \in closing => UserGivesUp(desk.tabs[i])
    BY DEF UserGivesUp
  <2> QED BY <1>3, <2>1 DEF DraftsStay, LetsGo
<1> QED BY <1>1, <1>3, <1>4, <1>5 DEF IsStripStep

LEMMA CloseSavedStep ==
  ASSUME WbTypes, DesksInv, CloseSaved
  PROVE  IsStripStep
<1> DEFINE clean == {t \in Range(Tabs) : ~IsDirty(t, SavedOf(t, desk.requests))}
           closing == {t.id : t \in clean}
<1>1. desk' = WithoutTabs(desk, closing) /\ closed' = Remembered(desk, closing) /\ UNCHANGED wbRest /\ asking' = asking
  BY DEF CloseSaved, Close, background, trust, wbRest
<1>2. last \in [Rids -> Nat] /\ DeskIsSound(desk) /\ desk \in Desk /\ closed \in Seq(Shut)
  BY DEF WbTypes, DesksInv, DeskIsSound
<1>3. \A i \in 1..Len(desk.tabs) : IsDraft(desk.tabs[i], desk) => desk.tabs[i].id \notin closing
  <2>1. ASSUME NEW i \in 1..Len(desk.tabs), IsDraft(desk.tabs[i], desk), NEW t \in clean, t.id = desk.tabs[i].id
        PROVE  FALSE
    <3>1. PICK j \in 1..Len(desk.tabs) : t = desk.tabs[j]
      <4>1. DOMAIN desk.tabs = 1..Len(desk.tabs)
        BY <1>2, DeskFields
      <4> QED BY <4>1 DEF Range, Tabs
    <3>2. t = desk.tabs[i]
      BY <1>2, <2>1, <3>1 DEF DeskIsSound, IsStrip, IsNumbered
    <3>3. ~IsDirty(t, SavedOf(t, desk.requests)) /\ IsDraft(t, desk)
      BY <2>1, <3>2
    <3> QED BY <3>3 DEF IsDraft, IsDirty, LastSaved
  <2> QED BY <2>1
<1> HIDE DEF closing
<1>4. /\ DeskIsSound(desk') /\ Follows(desk, desk') /\ desk'.requests = desk.requests
      /\ DeskIsClean(desk) => DeskIsClean(desk')
      /\ \A i \in 1..Len(desk.tabs) : desk.tabs[i].id \notin closing =>
           \E k \in 1..Len(desk'.tabs) : desk'.tabs[k] = desk.tabs[i]
  BY <1>1, <1>2, CloseIsSound
<1>5. closed' \in Seq(Shut)
  BY <1>1, <1>2, RememberedIs
<1>6. KeepsDrafts(desk, desk')
  BY <1>3, <1>4 DEF KeepsDrafts
<1> QED BY <1>1, <1>4, <1>5, <1>6 DEF IsStripStep

LEMMA EditStep ==
  ASSUME WbTypes, DesksInv, NEW text \in Texts, Edit(text)
  PROVE  IsStripStep
<1>1. desk' = Edited(desk, text) /\ UNCHANGED wbRest /\ closed' \in Seq(Shut) /\ asking' = asking
  BY DEF WbTypes, Edit, Edited, background, trust, wbRest
<1>2. DeskIsSound(desk)
  BY DEF DesksInv
<1>3. /\ DeskIsSound(desk') /\ Follows(desk, desk') /\ desk'.requests = desk.requests
      /\ DeskIsClean(desk) => DeskIsClean(desk')
      /\ KeepsOthers(desk, desk')
  BY <1>1, <1>2, EditIsSound
<1>4. DraftsStay
  <2>1. \A i \in 1..Len(desk.tabs) : desk.tabs[i].id = desk.active => UserGivesUp(desk.tabs[i])
    BY DEF UserGivesUp
  <2> QED BY <1>3, <2>1 DEF DraftsStay, LetsGo, KeepsOthers
<1> QED BY <1>1, <1>3, <1>4 DEF IsStripStep

LEMMA ResolveStep ==
  ASSUME WbTypes, DesksInv, NEW loadsDisk \in BOOLEAN, ResolveDiskChange(loadsDisk)
  PROVE  IsStripStep
<1>1. /\ desk' = Resolved(desk, loadsDisk) /\ UNCHANGED wbRest /\ closed' \in Seq(Shut) /\ asking' = asking
  BY DEF WbTypes, ResolveDiskChange, Resolved, background, trust, wbRest
<1>2. DeskIsSound(desk) /\ ActiveTab = desk.tabs[IndexOf(desk.tabs, desk.active)]
  BY DEF DesksInv, ActiveTab, Tabs
<1>3. ActiveTab.disk # None /\ ActiveTab.disk = SavedOf(ActiveTab, desk.requests)
  BY DEF ResolveDiskChange, HasNotice
<1>4. /\ DeskIsSound(desk') /\ Follows(desk, desk') /\ desk'.requests = desk.requests
      /\ DeskIsClean(desk) => DeskIsClean(desk')
      /\ KeepsOthers(desk, desk') /\ (~loadsDisk => KeepsDrafts(desk, desk'))
  BY <1>1, <1>2, <1>3, ResolveIsSound
<1>5. loadsDisk => DraftsStay
  <2>1. loadsDisk => \A i \in 1..Len(desk.tabs) : desk.tabs[i].id = desk.active => UserGivesUp(desk.tabs[i])
    <3>1. loadsDisk => ResolveDiskChange(TRUE)
      <4>1. loadsDisk => loadsDisk = TRUE
        OBVIOUS
      <4> QED BY <4>1
    <3> QED BY <3>1 DEF UserGivesUp
  <2> QED BY <1>4, <2>1 DEF DraftsStay, LetsGo, KeepsOthers
<1> QED BY <1>1, <1>4, <1>5 DEF IsStripStep

LEMMA ReopenStep ==
  ASSUME WbTypes, DesksInv, ReopenClosedTab
  PROVE  IsStripStep
<1> DEFINE request == Head(closed)
           d == IF IsReusable(ActiveTab) THEN desk ELSE AppendTab(desk, None, Blank, FALSE)
           Good(e) == /\ DeskIsSound(e) /\ Follows(desk, e) /\ KeepsDrafts(desk, e) /\ e.requests = desk.requests
                      /\ DeskIsClean(desk) => DeskIsClean(e)
<1>1. /\ closed' = Tail(closed) /\ closed # <<>> /\ UNCHANGED wbRest /\ asking' = asking
      /\ desk' = [d EXCEPT !.tabs = MapTab(@, d.active,
                    LAMBDA t : [CreateTab(t.id, request.rid, request.text, FALSE)
                                  EXCEPT !.touched = request.touched,
                                         !.apart = request.rid # None /\ request.text # desk.requests[request.rid]])]
  BY DEF ReopenClosedTab, background, trust, wbRest
<1>2. closed \in Seq(Shut) /\ last \in [Rids -> Nat] /\ DeskIsSound(desk)
  BY DEF WbTypes, DesksInv
<1>3. request \in Shut /\ closed' \in Seq(Shut)
  BY <1>1, <1>2, HeadTailProperties
<1>4. None \in Ids /\ Blank \in Texts /\ IsNumbered(desk.tabs, desk.next) /\ PreviewsAreClean(desk.tabs) /\ desk \in Desk
  BY <1>2, WorkbenchAssumption DEF Ids, DeskIsSound, IsStrip
<1>5. CASE IsReusable(ActiveTab)
  <2>1. \A i \in 1..Len(desk.tabs) : desk.tabs[i].id = desk.active => IsBlank(desk.tabs[i])
    <3>1. desk.active \in TabIds(desk.tabs)
      BY <1>2 DEF DeskIsSound, IsStrip, HasActive, TabIds
    <3> QED BY <1>2, <1>5, <3>1, TabAt DEF ActiveTab, Tabs, IsReusable
  <2>2. desk' = ReopenedIn(desk, request)
    BY <1>1, <1>5 DEF ReopenedIn
  <2> HIDE DEF request
  <2>3. /\ DeskIsSound(desk') /\ Follows(desk, desk') /\ KeepsDrafts(desk, desk') /\ desk'.requests = desk.requests
        /\ DeskIsClean(desk) => DeskIsClean(desk')
    BY <1>2, <1>3, <2>1, <2>2, ReopenIsSound
  <2>4. UNCHANGED wbRest /\ asking' = asking
    BY <1>1
  <2> QED BY <1>3, <2>3, <2>4 DEF IsStripStep
<1>6. CASE ~IsReusable(ActiveTab)
  <2> DEFINE a == AppendTab(desk, None, Blank, FALSE)
             n == Len(desk.tabs)
  <2>1. /\ a \in Desk /\ a.requests = desk.requests /\ a.active = desk.next /\ Len(a.tabs) = n + 1
        /\ \A i \in 1..n : a.tabs[i] = desk.tabs[i]
        /\ a.tabs[n + 1] = CreateTab(desk.next, None, Blank, FALSE)
    BY <1>2, <1>4, Appended
  <2>2. DeskIsSound(a) /\ Follows(desk, a) /\ (DeskIsClean(desk) => DeskIsClean(a))
    BY <1>2, <1>4, AppendIsSound
  <2>3. IsBlank(CreateTab(desk.next, None, Blank, FALSE)) /\ CreateTab(desk.next, None, Blank, FALSE).id = desk.next
    BY DEF CreateTab, IsBlank
  <2>4. desk' = ReopenedIn(a, request)
    <3>1. d = a /\ desk.requests = a.requests
      BY <1>6, <2>1
    <3> HIDE DEF d, a
    <3> QED BY <1>1, <3>1 DEF ReopenedIn
  <2> HIDE DEF a, request
  <2>5. n \in Nat /\ n + 1 \in 1..(n + 1) /\ \A i \in 1..n : i \in 1..(n + 1)
    BY <1>2, DeskFields
  <2>6. \A i \in 1..Len(a.tabs) : a.tabs[i].id = a.active => IsBlank(a.tabs[i])
    <3>1. ASSUME NEW i \in 1..Len(a.tabs), a.tabs[i].id = a.active PROVE i = n + 1
      BY <2>1, <2>2, <2>3, <2>5, <3>1 DEF DeskIsSound, IsStrip, IsNumbered
    <3> QED BY <2>1, <2>3, <3>1
  <2>7. /\ DeskIsSound(desk') /\ Follows(a, desk') /\ KeepsDrafts(a, desk') /\ desk'.requests = a.requests
        /\ DeskIsClean(a) => DeskIsClean(desk')
    BY <1>2, <1>3, <2>2, <2>4, <2>6, ReopenIsSound
  <2>8. Follows(desk, desk')
    <3> SUFFICES ASSUME NEW i \in 1..Len(desk'.tabs), NEW t, t = desk'.tabs[i],
                        ~(t.pending = 0 /\ (t.resp = 0 \/ (t.rid # None /\ last[t.rid] = t.resp)))
                 PROVE  \E j \in 1..n : desk.tabs[j].id = t.id /\ desk.tabs[j].pending = t.pending /\ desk.tabs[j].resp = t.resp
      BY DEF Follows
    <3>1. PICK k \in 1..Len(a.tabs) : a.tabs[k].id = t.id /\ a.tabs[k].pending = t.pending /\ a.tabs[k].resp = t.resp
      BY <2>7 DEF Follows
    <3>2. k # n + 1
      <4>1. CreateTab(desk.next, None, Blank, FALSE).pending = 0 /\ CreateTab(desk.next, None, Blank, FALSE).resp = 0
        BY WorkbenchAssumption DEF CreateTab
      <4> QED BY <2>1, <3>1, <4>1
    <3>3. k \in 1..n
      BY <2>1, <2>5, <3>2
    <3> QED BY <2>1, <3>1, <3>3
  <2>9. KeepsDrafts(desk, desk')
    <3>1. ASSUME NEW i \in 1..n, IsDraft(desk.tabs[i], desk) PROVE IsDraft(a.tabs[i], a) /\ i \in 1..Len(a.tabs)
      BY <2>1, <2>5, <3>1 DEF IsDraft
    <3>2. \A i \in 1..n : a.tabs[i] = desk.tabs[i]
      BY <2>1
    <3> QED BY <2>7, <3>1, <3>2 DEF KeepsDrafts
  <2> QED BY <1>1, <1>3, <2>1, <2>2, <2>7, <2>8, <2>9 DEF IsStripStep
<1> QED BY <1>5, <1>6

LEMMA StripStep ==
  ASSUME WbTypes, DesksInv, Strip
  PROVE  IsStripStep
BY NewTabStep, CloseSavedStep, ReopenStep, OpenStep, MoveStep, SetActiveStep, CloseTabsStep, EditStep,
   ResolveStep DEF Strip

-----------------------------------------------------------------------------
(* What a step does to the strip on screen *)

\* the response of every tab of e is its own
Owns(d, e) ==
  \A i \in 1..Len(e.tabs) :
    \/ e.tabs[i].resp = 0
    \/ \E j \in 1..Len(d.tabs) : d.tabs[j].id = e.tabs[i].id /\ d.tabs[j].resp = e.tabs[i].resp
    \/ sends[e.tabs[i].resp].tab = e.tabs[i].id /\ sends[e.tabs[i].resp].path = path
    \/ e.tabs[i].rid # None /\ last[e.tabs[i].rid] = e.tabs[i].resp

\* the sends of this page stay what they are, and new ones are added at the end
SendsGrow ==
  /\ Len(sends) <= Len(sends')
  /\ \A n \in 1..Len(sends) : sends'[n].tab = sends[n].tab /\ sends'[n].path = sends[n].path

\* every step but a switch of the workspace and a restart
IsDeskStep ==
  /\ DeskIsSound(desk') /\ (crossed' \/ (DeskIsClean(desk) => DeskIsClean(desk')))
  /\ KeepsDrafts(desk, desk') \/ DraftsStay
  /\ Owns(desk, desk') /\ (Awaits(desk, path) => Awaits(desk, path)')
  /\ SendsGrow /\ path' = path /\ (crossed => crossed')
  /\ sessions' = sessions \/ \E p \in Paths : sessions' = OtherSessions(p) /\ LeaveWorkspace(p)
  /\ drafts' \in {drafts, Drafts}

LEMMA Followed ==
  ASSUME Follows(desk, desk'), sends' = sends, sends \in Seq([tab : Nat, path : Paths, isRunning : BOOLEAN, isSigned : BOOLEAN]), path' = path
  PROVE  Owns(desk, desk') /\ (Awaits(desk, path) => Awaits(desk, path)') /\ SendsGrow
<1>1. Owns(desk, desk')
  BY DEF Follows, Owns
<1>2. Awaits(desk, path) => Awaits(desk, path)'
  BY DEF Follows, Awaits
<1>3. SendsGrow
  BY DEF SendsGrow
<1> QED BY <1>1, <1>2, <1>3

LEMMA SameDesk ==
  ASSUME WbTypes, DesksInv, desk' = desk, sends' = sends, path' = path, crossed => crossed',
         sessions' = sessions \/ \E p \in Paths : sessions' = OtherSessions(p) /\ LeaveWorkspace(p),
         drafts' \in {drafts, Drafts}
  PROVE  IsDeskStep
<1>1. Follows(desk, desk') /\ KeepsDrafts(desk, desk')
  BY DEF Follows, KeepsDrafts
<1>2. Owns(desk, desk') /\ (Awaits(desk, path) => Awaits(desk, path)') /\ SendsGrow
  BY <1>1, Followed DEF WbTypes
<1> QED BY <1>1, <1>2 DEF IsDeskStep, DesksInv

LEMMA StripOnDesk ==
  ASSUME WbTypes, DesksInv, IsStripStep
  PROVE  IsDeskStep
<1>1. sends' = sends /\ path' = path /\ crossed' = crossed /\ sessions' = sessions /\ drafts' = drafts
  BY DEF IsStripStep, wbRest
<1>2. Owns(desk, desk') /\ (Awaits(desk, path) => Awaits(desk, path)') /\ SendsGrow
  BY <1>1, Followed DEF WbTypes, IsStripStep
<1> QED BY <1>1, <1>2 DEF IsDeskStep, IsStripStep

LEMMA StartOnDesk ==
  ASSUME WbTypes, DesksInv, NEW id \in Nat, StartTabRequest(id),
         path' = path, crossed' = crossed, sessions' = sessions, drafts' = drafts
  PROVE  IsDeskStep /\ sends' \in Seq([tab : Nat, path : Paths, isRunning : BOOLEAN, isSigned : BOOLEAN])
<1> DEFINE S == [tab : Nat, path : Paths, isRunning : BOOLEAN, isSigned : BOOLEAN]
           s == [tab |-> id, path |-> path, isRunning |-> TRUE,
                 isSigned |-> ~isRestricted /\ Tabs[IndexOf(Tabs, id)].text \in Signed]
           n == Len(sends) + 1
<1>1. desk' = Started(desk, id, n) /\ sends' = Append(sends, s) /\ sends \in Seq(S) /\ path \in Paths
  BY DEF StartTabRequest, Started, WbTypes
<1>2. s \in S /\ s.tab = id /\ s.path = path
  BY <1>1
<1> HIDE DEF S, s
<1>3. sends' \in Seq(S) /\ Len(sends') = n /\ sends'[n] = s /\ \A k \in 1..Len(sends) : sends'[k] = sends[k]
  BY <1>1, <1>2, AppendProperties
<1>4. Len(sends) \in Nat /\ n \in Nat /\ n \in 1..n /\ \A k \in 1..Len(sends) : k \in 1..n
  BY <1>1
<1>5. SendsGrow
  BY <1>3, <1>4 DEF SendsGrow
<1> HIDE DEF n
<1>6. /\ DeskIsSound(desk') /\ KeepsDrafts(desk, desk') /\ (DeskIsClean(desk) => DeskIsClean(desk'))
      /\ Len(desk'.tabs) = Len(desk.tabs)
      /\ \A i \in 1..Len(desk.tabs) :
           /\ desk'.tabs[i].id = desk.tabs[i].id /\ desk'.tabs[i].resp = desk.tabs[i].resp
           /\ desk'.tabs[i].pending = IF desk.tabs[i].id = id THEN n ELSE desk.tabs[i].pending
  BY <1>1, <1>4, StartIsSound DEF DesksInv
<1>7. Owns(desk, desk')
  BY <1>6 DEF Owns
<1>8. ASSUME Awaits(desk, path) PROVE Awaits(desk, path)'
  <2>1. ASSUME NEW i \in 1..Len(desk.tabs), desk'.tabs[i].pending # 0
        PROVE  /\ desk'.tabs[i].pending \in 1..Len(sends')
               /\ sends'[desk'.tabs[i].pending].tab = desk'.tabs[i].id /\ sends'[desk'.tabs[i].pending].path = path
    <3>1. CASE desk.tabs[i].id = id
      <4>1. desk'.tabs[i].pending = n /\ desk'.tabs[i].id = id
        BY <1>6, <3>1
      <4> QED BY <1>2, <1>3, <1>4, <4>1
    <3>2. CASE desk.tabs[i].id # id
      <4>1. desk'.tabs[i].pending = desk.tabs[i].pending /\ desk'.tabs[i].id = desk.tabs[i].id
        BY <1>6, <3>2
      <4>2. /\ desk.tabs[i].pending \in 1..Len(sends) /\ sends[desk.tabs[i].pending].tab = desk.tabs[i].id
            /\ sends[desk.tabs[i].pending].path = path
        BY <1>8, <2>1, <4>1 DEF Awaits
      <4> QED BY <1>3, <1>4, <4>1, <4>2
    <3> QED BY <3>1, <3>2
  <2> QED BY <1>6, <2>1 DEF Awaits
<1> QED BY <1>3, <1>5, <1>6, <1>7, <1>8 DEF IsDeskStep, S

LEMMA FinishOnDesk ==
  ASSUME WbTypes, DesksInv, Awaits(desk, path), NEW number, Finish(number)
  PROVE  /\ IsDeskStep /\ sends' \in Seq([tab : Nat, path : Paths, isRunning : BOOLEAN, isSigned : BOOLEAN]) /\ last' \in [Rids -> Nat]
<1> DEFINE S == [tab : Nat, path : Paths, isRunning : BOOLEAN, isSigned : BOOLEAN]
<1>1. /\ sends' = [sends EXCEPT ![number].isRunning = FALSE]
      /\ number \in 1..Len(sends) /\ last' = KeepLastResponse(number)
      /\ path' = path /\ crossed' = crossed /\ sessions' = sessions /\ drafts' = drafts
  BY DEF Finish, background
<1>2. sends \in Seq(S) /\ Len(sends) \in Nat /\ number \in Nat
  BY <1>1 DEF WbTypes
<1>3. \A k \in 1..Len(sends) : sends[k] \in S
  BY <1>2, ElementOfSeq
<1>4. /\ sends' \in Seq(S) /\ Len(sends') = Len(sends)
      /\ \A k \in 1..Len(sends) : sends'[k].tab = sends[k].tab /\ sends'[k].path = sends[k].path
  <2> DEFINE x == [sends[number] EXCEPT !.isRunning = FALSE]
  <2>1. x \in S /\ x.tab = sends[number].tab /\ x.path = sends[number].path
    BY <1>1, <1>3
  <2>2. sends' = [sends EXCEPT ![number] = x]
    BY <1>1
  <2> HIDE DEF x, S
  <2>3. sends' \in Seq(S) /\ Len(sends') = Len(sends)
    <3>1. sends \in [1..Len(sends) -> S]
      BY <1>2
    <3>2. sends' \in [1..Len(sends) -> S]
      BY <1>1, <2>1, <2>2, <3>1
    <3> QED BY <1>2, <3>2, SeqDef
  <2>4. \A k \in 1..Len(sends) : sends'[k] = IF k = number THEN x ELSE sends[k]
    BY <1>2, <2>2
  <2> QED BY <2>1, <2>3, <2>4
<1>5. SendsGrow
  BY <1>2, <1>4 DEF SendsGrow
<1>10. DeskIsSound(desk) /\ number \in Nat
  BY <1>2 DEF DesksInv
<1>11. /\ DeskIsSound(desk') /\ (DeskIsClean(desk) => DeskIsClean(desk')) /\ ShowsResponse(desk, desk', number)
       /\ KeepsDrafts(desk, desk') \/ DraftsStay
  <2>1. CASE desk' = [desk EXCEPT !.tabs = FinishTabRequest(@, number)]
    <3>1. desk' = Finished(desk, number)
      BY <2>1 DEF Finished
    <3> QED BY <1>10, <3>1, FinishIsSound
  <2>2. ASSUME sends[number].isSigned, NEW renewed \in Texts, NEW t \in Range(Tabs), t.id = sends[number].tab,
               renewed \in WithToken(t.text),
               desk' = [desk EXCEPT !.tabs = SetToken(FinishTabRequest(@, number), sends[number].tab, renewed)]
        PROVE  /\ DeskIsSound(desk') /\ (DeskIsClean(desk) => DeskIsClean(desk')) /\ ShowsResponse(desk, desk', number)
               /\ DraftsStay
    <3>1. desk' = Renewed(desk, number, renewed)
      BY <2>2 DEF Renewed
    <3>2. /\ DeskIsSound(desk') /\ (DeskIsClean(desk) => DeskIsClean(desk')) /\ ShowsResponse(desk, desk', number)
          /\ \A i \in 1..Len(desk.tabs) :
               desk'.tabs[i].text = IF desk.tabs[i].id = sends[number].tab THEN renewed ELSE desk.tabs[i].text
      BY <1>10, <3>1, RenewIsSound
    <3>3. desk.tabs \in Seq(Tab) /\ desk'.tabs \in Seq(Tab)
      BY <1>10, <3>2, DeskFields
    <3>4. DOMAIN desk.tabs = 1..Len(desk.tabs) /\ DOMAIN desk'.tabs = 1..Len(desk'.tabs)
      BY <3>3
    <3>5. ASSUME NEW i \in 1..Len(desk.tabs), desk.tabs[i].id = sends[number].tab PROVE IsRenewed(desk.tabs[i])
      <4>1. PICK j \in 1..Len(desk.tabs) : t = desk.tabs[j]
        BY <3>4 DEF Range, Tabs
      <4>2. t = desk.tabs[i]
        BY <1>10, <2>2, <3>5, <4>1 DEF DeskIsSound, IsStrip, IsNumbered
      <4>3. desk'.tabs[i] \in Range(Tabs') /\ desk'.tabs[i].id = desk.tabs[i].id /\ desk'.tabs[i].text = renewed
        BY <3>2, <3>4, <3>5 DEF Range, Tabs, ShowsResponse
      <4> QED BY <1>1, <2>2, <3>5, <4>2, <4>3 DEF IsRenewed
    <3>6. \A i \in 1..Len(desk.tabs) : /\ i \in 1..Len(desk'.tabs) /\ desk'.tabs[i].id = desk.tabs[i].id
                                       /\ desk'.tabs[i].text = desk.tabs[i].text \/ IsRenewed(desk.tabs[i])
      BY <3>2, <3>5 DEF ShowsResponse
    <3>7. DraftsStay
      BY <3>6 DEF DraftsStay, LetsGo
    <3> QED BY <3>2, <3>7
  <2> QED BY <2>1, <2>2 DEF Finish
<1>6. /\ DeskIsSound(desk') /\ (DeskIsClean(desk) => DeskIsClean(desk'))
      /\ KeepsDrafts(desk, desk') \/ DraftsStay
      /\ Len(desk'.tabs) = Len(desk.tabs)
      /\ \A i \in 1..Len(desk.tabs) :
           /\ desk'.tabs[i].id = desk.tabs[i].id
           /\ \/ desk'.tabs[i].resp = desk.tabs[i].resp /\ desk'.tabs[i].pending = desk.tabs[i].pending
              \/ /\ desk'.tabs[i].resp = number /\ desk'.tabs[i].pending = 0
                 /\ desk.tabs[i].pending = number /\ desk.tabs[i].id = sends[number].tab
  BY <1>11 DEF ShowsResponse
<1>7. Owns(desk, desk')
  <2>1. ASSUME NEW i \in 1..Len(desk.tabs), desk.tabs[i].pending = number
        PROVE  sends[number].tab = desk.tabs[i].id /\ sends[number].path = path
    <3>1. number # 0
      BY <1>1, <1>2
    <3> QED BY <2>1, <3>1 DEF Awaits
  <2> QED BY <1>6, <2>1 DEF Owns
<1>8. Awaits(desk, path)'
  <2>1. ASSUME NEW i \in 1..Len(desk.tabs), desk'.tabs[i].pending # 0
        PROVE  /\ desk'.tabs[i].pending \in 1..Len(sends')
               /\ sends'[desk'.tabs[i].pending].tab = desk'.tabs[i].id /\ sends'[desk'.tabs[i].pending].path = path
    <3>1. desk'.tabs[i].pending = desk.tabs[i].pending /\ desk'.tabs[i].id = desk.tabs[i].id
      BY <1>6, <2>1
    <3>2. /\ desk.tabs[i].pending \in 1..Len(sends) /\ sends[desk.tabs[i].pending].tab = desk.tabs[i].id
          /\ sends[desk.tabs[i].pending].path = path
      BY <2>1, <3>1 DEF Awaits
    <3> QED BY <1>4, <3>1, <3>2
  <2>2. path' = path
    BY <1>1
  <2> QED BY <1>6, <2>1, <2>2 DEF Awaits
<1>9. last' \in [Rids -> Nat]
  BY <1>1, <1>2 DEF KeepLastResponse, WbTypes
<1> QED BY <1>1, <1>4, <1>5, <1>6, <1>7, <1>8, <1>9 DEF IsDeskStep

\* the replies

LEMMA SaveOnDesk ==
  ASSUME WbTypes, DesksInv, NEW save \in saves, SaveReturns(save)
  PROVE  /\ IsDeskStep /\ closed' \in Seq(Shut)
         /\ desk'.requests = [desk.requests EXCEPT ![save.rid] = save.text]
<1> DEFINE d == SavedIn(desk, save)
           closing == {save.tab} \cap TabIds(d.tabs)
           isFine == \A i \in 1..Len(desk.tabs) : desk.tabs[i].id = save.tab =>
                       desk.tabs[i].touched \/ desk.tabs[i].apart \/ desk.tabs[i].text = save.text
<1>1. /\ IF save.closes /\ closing # {}
         THEN desk' = WithoutTabs(d, closing) /\ closed' = Remembered(d, closing)
         ELSE desk' = d /\ closed' = closed
      /\ sends' = sends /\ path' = path /\ sessions' = sessions /\ drafts' = drafts
  BY DEF SaveReturns, SavedIn, SavedTab, OtherTab
<1>2. /\ save \in SaveCall /\ DeskIsSound(desk) /\ last \in [Rids -> Nat] /\ closed \in Seq(Shut)
      /\ sends \in Seq([tab : Nat, path : Paths, isRunning : BOOLEAN, isSigned : BOOLEAN])
  BY DEF WbTypes, DesksInv
<1>3. (crossed => crossed') /\ (crossed' \/ isFine)
  <2>1. crossed' = (\/ crossed \/ save.path # path
                    \/ \E t \in Range(Tabs) :
                         /\ t.id = save.tab
                         /\ t.rid \notin {save.was, save.rid} \/ ~(t.touched \/ t.apart \/ t.text = save.text))
    BY DEF SaveReturns
  <2>2. \A i \in 1..Len(desk.tabs) : desk.tabs[i] \in Range(Tabs)
    <3>1. DOMAIN desk.tabs = 1..Len(desk.tabs)
      BY <1>2, DeskFields
    <3> QED BY <3>1 DEF Range, Tabs
  <2> QED BY <2>1, <2>2
<1> HIDE DEF d, closing, isFine
<1>4. /\ DeskIsSound(d) /\ Follows(desk, d) /\ KeepsDrafts(desk, d)
      /\ d.requests = [desk.requests EXCEPT ![save.rid] = save.text]
      /\ DeskIsClean(desk) /\ isFine => DeskIsClean(d)
  BY <1>2, SaveIsSound DEF d, isFine
<1>5. CASE save.closes /\ closing # {}
  <2>1. desk' = WithoutTabs(d, closing) /\ closed' = Remembered(d, closing)
    BY <1>1, <1>5
  <2>2. /\ DeskIsSound(desk') /\ IsCut(d, desk') /\ desk'.requests = d.requests
        /\ DeskIsClean(d) => DeskIsClean(desk')
        /\ \A i \in 1..Len(d.tabs) : d.tabs[i].id \notin closing =>
             \E k \in 1..Len(desk'.tabs) : desk'.tabs[k] = d.tabs[i]
    <3> DEFINE e == WithoutTabs(d, closing)
    <3>1. /\ DeskIsSound(e) /\ IsCut(d, e) /\ e.requests = d.requests
          /\ DeskIsClean(d) => DeskIsClean(e)
          /\ \A i \in 1..Len(d.tabs) : d.tabs[i].id \notin closing => \E k \in 1..Len(e.tabs) : e.tabs[k] = d.tabs[i]
      <4>1. last \in [Rids -> Nat]
        BY <1>2
      <4>2. DeskIsSound(d)
        BY <1>4
      <4> HIDE DEF e
      <4> QED BY <4>1, <4>2, CloseIsSound DEF e
    <3>2. desk' = e
      BY <2>1
    <3> HIDE DEF e
    <3> QED BY <3>1, <3>2
  <2>3. closed' \in Seq(Shut)
    BY <1>2, <1>4, <2>1, RememberedIs DEF DeskIsSound
  <2>4. DraftsStay
    <3> SUFFICES ASSUME NEW i \in 1..Len(desk.tabs), IsDraft(desk.tabs[i], desk), desk.tabs[i].id # save.tab
                 PROVE  \E k \in 1..Len(desk'.tabs) : /\ desk'.tabs[k].id = desk.tabs[i].id
                                                      /\ desk'.tabs[k].text = desk.tabs[i].text
      <4>1. \A i \in 1..Len(desk.tabs) : desk.tabs[i].id = save.tab => UserGivesUp(desk.tabs[i])
        BY <1>5 DEF UserGivesUp
      <4> QED BY <4>1 DEF DraftsStay, LetsGo
    <3>1. PICK j \in 1..Len(d.tabs) : d.tabs[j].id = desk.tabs[i].id /\ d.tabs[j].text = desk.tabs[i].text
      BY <1>4 DEF KeepsDrafts
    <3>2. d.tabs[j].id \notin closing
      BY <3>1 DEF closing
    <3> QED BY <2>2, <3>1, <3>2
  <2>5. Follows(desk, desk')
    BY <1>4, <2>2, FollowsOn
  <2>6. Owns(desk, desk') /\ (Awaits(desk, path) => Awaits(desk, path)') /\ SendsGrow
    BY <1>1, <1>2, <2>5, Followed
  <2>7. IsDeskStep
    BY <1>1, <1>3, <1>4, <2>2, <2>4, <2>6 DEF IsDeskStep
  <2> QED BY <1>4, <2>2, <2>3, <2>7
<1>6. CASE ~(save.closes /\ closing # {})
  <2>1. desk' = d /\ closed' = closed
    BY <1>1, <1>6
  <2>2. Owns(desk, desk') /\ (Awaits(desk, path) => Awaits(desk, path)') /\ SendsGrow
    BY <1>1, <1>2, <1>4, <2>1, Followed
  <2>3. IsDeskStep
    BY <1>1, <1>3, <1>4, <2>1, <2>2 DEF IsDeskStep
  <2> QED BY <1>2, <1>4, <2>1, <2>3
<1> QED BY <1>5, <1>6

LEMMA DeleteOnDesk ==
  ASSUME WbTypes, DesksInv, NEW delete \in deletes, DeleteReturns(delete)
  PROVE  IsDeskStep /\ desk'.requests = [desk.requests EXCEPT ![delete.rid] = None]
<1>1. /\ desk' = DeletedIn(desk, delete.rid)
      /\ sends' = sends /\ path' = path /\ sessions' = sessions /\ drafts' = drafts /\ (crossed => crossed')
  BY DEF DeleteReturns, DeletedIn
<1>2. /\ delete.rid \in Rids /\ DeskIsSound(desk)
      /\ sends \in Seq([tab : Nat, path : Paths, isRunning : BOOLEAN, isSigned : BOOLEAN])
  BY DEF WbTypes, DesksInv, DeleteCall
<1>3. /\ DeskIsSound(desk') /\ Follows(desk, desk') /\ KeepsDrafts(desk, desk')
      /\ desk'.requests = [desk.requests EXCEPT ![delete.rid] = None]
      /\ DeskIsClean(desk) => DeskIsClean(desk')
  BY <1>1, <1>2, DeleteIsSound
<1>4. Owns(desk, desk') /\ (Awaits(desk, path) => Awaits(desk, path)') /\ SendsGrow
  BY <1>1, <1>2, <1>3, Followed
<1> QED BY <1>1, <1>3, <1>4 DEF IsDeskStep

LEMMA HydrateOnDesk ==
  ASSUME WbTypes, DesksInv, NEW data \in WbData, Hydrate(data),
         LoadReturns \/ ReloadReturns,
         sends' = sends, path' = path, sessions' = sessions, drafts' = drafts, crossed => crossed'
  PROVE  IsDeskStep /\ desk'.requests = data.requests
<1>1. desk' = Reconciled(desk, data.requests) /\ data.requests \in Requests /\ DeskIsSound(desk)
  BY DEF Hydrate, WbData, DesksInv
<1>2. /\ DeskIsSound(desk') /\ Follows(desk, desk') /\ desk'.requests = data.requests
      /\ DeskIsClean(desk) => DeskIsClean(desk')
      /\ CarriesDrafts(desk, desk')
  BY <1>1, ReconcileIsSound DEF WbTypes
<1>3. Owns(desk, desk') /\ (Awaits(desk, path) => Awaits(desk, path)') /\ SendsGrow
  BY <1>2, Followed DEF WbTypes
<1>4. DraftsStay
  <2> SUFFICES ASSUME NEW i \in 1..Len(desk.tabs), IsDraft(desk.tabs[i], desk)
               PROVE  \/ /\ i \in 1..Len(desk'.tabs) /\ desk'.tabs[i].id = desk.tabs[i].id
                         /\ desk'.tabs[i].text = desk.tabs[i].text
                      \/ IsStripped(desk.tabs[i])
    BY DEF DraftsStay, LetsGo
  <2>1. /\ i \in 1..Len(desk'.tabs) /\ desk'.tabs[i].id = desk.tabs[i].id
        /\ desk'.tabs[i].text = Carried(desk.tabs[i].text)
    BY <1>2 DEF CarriesDrafts
  <2>2. CASE ~isRestricted
    BY <2>1, <2>2 DEF Carried
  <2>3. CASE isRestricted
    <3>1. desk'.tabs[i].text = Plain[desk.tabs[i].text]
      BY <2>1, <2>3 DEF Carried
    <3>2. desk'.tabs \in Seq(Tab)
      BY <1>2, DeskFields
    <3>3. desk'.tabs[i] \in Range(Tabs')
      BY <2>1, <3>2 DEF Range, Tabs
    <3> QED BY <2>1, <2>3, <3>1, <3>3 DEF IsStripped
  <2> QED BY <2>2, <2>3
<1> QED BY <1>2, <1>3, <1>4 DEF IsDeskStep

LEMMA LoadData ==
  ASSUME WbTypes
  PROVE  /\ load.at = "read" => load.data \in WbData
         /\ reload.at = "read" => reload.data \in WbData /\ reload.path \in Paths
<1>1. load.at = "read" => load.data \in WbData
  BY DEF WbTypes
<1>2. reload.at = "read" => reload.data \in WbData /\ reload.path \in Paths
  BY DEF WbTypes
<1> QED BY <1>1, <1>2

LEMMA DeskStep ==
  ASSUME WbTypes, DesksInv, Awaits(desk, path), WbNext
  PROVE  IsDeskStep \/ EnterWorkspace \/ Restart
<1>1. CASE Strip
  BY <1>1, StripStep, StripOnDesk
<1>2. CASE Requesting
  <2>1. CASE Send
    <3>1. CASE StartTabRequest(desk.active)
      <4>1. desk.active \in Nat
        BY DeskFields DEF DesksInv
      <4>2. path' = path /\ crossed' = crossed /\ sessions' = sessions /\ drafts' = drafts
        BY <2>1 DEF Send, background
      <4> QED BY <3>1, <4>1, <4>2, StartOnDesk
    <3>2. CASE UNCHANGED <<sends, desk>>
      BY <2>1, <3>2, SameDesk DEF Send, background
    <3> QED BY <2>1, <3>1, <3>2 DEF Send
  <2>2. ASSUME NEW isApproved \in BOOLEAN, Approve(isApproved) PROVE IsDeskStep
    <3>1. CASE isApproved
      <4>1. StartTabRequest(asking) /\ asking \in Nat
        BY <2>2, <3>1 DEF Approve, WbTypes
      <4>2. path' = path /\ crossed' = crossed /\ sessions' = sessions /\ drafts' = drafts
        BY <2>2 DEF Approve, background
      <4> QED BY <4>1, <4>2, StartOnDesk
    <3>2. CASE ~isApproved
      BY <2>2, <3>2, SameDesk DEF Approve, background
    <3> QED BY <3>1, <3>2
  <2>3. ASSUME NEW n, Finish(n) PROVE IsDeskStep
    BY <2>3, FinishOnDesk
  <2>4. ASSUME NEW id, NEW closes, SaveTab(id, closes) PROVE IsDeskStep
    BY <2>4, SameDesk DEF SaveTab, background
  <2>5. ASSUME NEW r, DeleteRequest(r) PROVE IsDeskStep
    BY <2>5, SameDesk DEF DeleteRequest, background
  <2>8. ASSUME NEW delete, DeleteIsMade(delete) PROVE IsDeskStep
    BY <2>8, SameDesk DEF DeleteIsMade
  <2>6. CASE EditFolders
    BY <2>6, SameDesk DEF EditFolders, background
  <2>7. CASE AutoSave
    BY <2>7, SameDesk DEF AutoSave, background
  <2> QED BY <1>2, <2>1, <2>2, <2>3, <2>4, <2>5, <2>6, <2>7, <2>8, SaveOnDesk, DeleteOnDesk DEF Requesting
<1>3. CASE Storage
  <2>1. ASSUME NEW p, SwitchStorage(p) PROVE IsDeskStep
    BY <2>1, SameDesk DEF SwitchStorage, tabState
  <2>2. ASSUME NEW p \in Paths, LeaveWorkspace(p) PROVE IsDeskStep
    <3>1. \E q \in Paths : sessions' = OtherSessions(q) /\ LeaveWorkspace(q)
      BY <2>2 DEF LeaveWorkspace
    <3>2. desk' = desk /\ sends' = sends /\ path' = path /\ crossed' = crossed /\ drafts' = drafts
      BY <2>2 DEF LeaveWorkspace
    <3> QED BY <3>1, <3>2, SameDesk
  <2>3. CASE OpenFolder
    BY <2>3, SameDesk DEF OpenFolder, tabState
  <2>4. CASE LoadReads
    BY <2>4, SameDesk DEF LoadReads, tabState
  <2>5. CASE LoadReturns
    <3>1. /\ sends' = sends /\ path' = path /\ sessions' = sessions /\ drafts' = drafts /\ crossed' = crossed
          /\ load.at = "read" /\ (IF hydrated THEN desk' = desk ELSE Hydrate(load.data))
      BY <2>5 DEF LoadReturns, tabState
    <3>2. CASE hydrated
      BY <3>1, <3>2, SameDesk
    <3>3. CASE ~hydrated
      BY <2>5, <3>1, <3>3, LoadData, HydrateOnDesk
    <3> QED BY <3>2, <3>3
  <2>6. CASE ReloadReads
    BY <2>6, SameDesk DEF ReloadReads, tabState
  <2>7. CASE ReloadReturns
    <3>1. /\ sends' = sends /\ path' = path /\ sessions' = sessions /\ drafts' = drafts /\ (crossed => crossed')
          /\ reload.at = "read" /\ Hydrate(reload.data)
      BY <2>7 DEF ReloadReturns, tabState
    <3> QED BY <2>7, <3>1, LoadData, HydrateOnDesk
  <2>8. ASSUME NEW r, NEW text, DiskEdit(r, text) PROVE IsDeskStep
    BY <2>8, SameDesk DEF DiskEdit, tabState
  <2>9. CASE FlushWrites
    BY <2>9, SameDesk DEF FlushWrites, tabState
  <2>10. CASE Start
    BY <2>10, SameDesk DEF Start, tabState
  <2>11. CASE Trust
    BY <2>11, SameDesk DEF Trust, tabState
  <2>12. CASE LiftRestriction
    BY <2>12, SameDesk DEF LiftRestriction, tabState
  <2> QED BY <1>3, <2>1, <2>2, <2>3, <2>4, <2>5, <2>6, <2>7, <2>8, <2>9, <2>10, <2>11, <2>12 DEF Storage
<1> QED BY <1>1, <1>2, <1>3 DEF WbNext

-----------------------------------------------------------------------------
(* The types are kept *)

LEMMA SwitchTo ==
  ASSUME WbTypes, switch.at # "idle"
  PROVE  switch.to \in Paths /\ switch = [at |-> switch.at, to |-> switch.to] /\ switch.at \in {"saving", "opened"}
BY DEF WbTypes

LEMMA DiskKept ==
  ASSUME WbTypes, NEW p \in Paths
  PROVE  /\ \A x \in Paths : [disk EXCEPT ![p].folders = x] \in [Paths -> WbData]
         /\ \A r \in Rids, x \in Contents : [disk EXCEPT ![p].requests[r] = x] \in [Paths -> WbData]
         /\ [disk EXCEPT ![p].restricted = FALSE] \in [Paths -> WbData]
<1>1. disk \in [Paths -> WbData] /\ disk[p] \in WbData
  BY DEF WbTypes
<1>2. ASSUME NEW x \in Paths PROVE [disk[p] EXCEPT !.folders = x] \in WbData
  BY <1>1 DEF WbData
<1>3. ASSUME NEW r \in Rids, NEW x \in Contents PROVE [disk[p] EXCEPT !.requests[r] = x] \in WbData
  <2>1. disk[p].requests \in Requests /\ disk[p].folders \in Paths
    BY <1>1 DEF WbData
  <2>2. [disk[p].requests EXCEPT ![r] = x] \in Requests
    BY <2>1 DEF Requests
  <2> QED BY <1>1, <2>1, <2>2 DEF WbData
<1>4. [disk[p] EXCEPT !.restricted = FALSE] \in WbData
  BY <1>1 DEF WbData
<1> QED BY <1>1, <1>2, <1>3, <1>4

LEMMA TypesOfRequesting ==
  ASSUME WbTypes, DesksInv, Awaits(desk, path), Requesting
  PROVE  WbTypes'
<1>1. CASE Send
  <2>1. desk.active \in Nat
    BY DeskFields DEF DesksInv
  <2>2. CASE StartTabRequest(desk.active) /\ UNCHANGED asking
    <3>1. sends' \in Seq([tab : Nat, path : Paths, isRunning : BOOLEAN, isSigned : BOOLEAN])
      <4>1. path' = path /\ crossed' = crossed /\ sessions' = sessions /\ drafts' = drafts
        BY <1>1 DEF Send, background
      <4> QED BY <2>1, <2>2, <4>1, StartOnDesk
    <3> QED BY <1>1, <2>2, <3>1 DEF Send, background, trust, WbTypes
  <2>3. CASE asking' = desk.active /\ UNCHANGED <<sends, desk>>
    BY <1>1, <2>1, <2>3 DEF Send, background, trust, WbTypes
  <2> QED BY <1>1, <2>2, <2>3 DEF Send
<1>2. ASSUME NEW isApproved \in BOOLEAN, Approve(isApproved) PROVE WbTypes'
  <2>1. CASE isApproved
    <3>1. StartTabRequest(asking) /\ asking \in Nat
      BY <1>2, <2>1 DEF Approve, WbTypes
    <3>2. path' = path /\ crossed' = crossed /\ sessions' = sessions /\ drafts' = drafts
      BY <1>2 DEF Approve, background
    <3>3. sends' \in Seq([tab : Nat, path : Paths, isRunning : BOOLEAN, isSigned : BOOLEAN])
      BY <3>1, <3>2, StartOnDesk
    <3> QED BY <1>2, <3>3 DEF Approve, background, trust, WbTypes
  <2>2. CASE ~isApproved
    BY <1>2, <2>2 DEF Approve, background, trust, WbTypes
  <2> QED BY <2>1, <2>2
<1>3. ASSUME NEW n, Finish(n) PROVE WbTypes'
  <2>1. sends' \in Seq([tab : Nat, path : Paths, isRunning : BOOLEAN, isSigned : BOOLEAN]) /\ last' \in [Rids -> Nat]
    BY <1>3, FinishOnDesk
  <2> QED BY <1>3, <2>1 DEF Finish, background, trust, WbTypes
<1>4. ASSUME NEW id, NEW closes \in BOOLEAN, SaveTab(id, closes) PROVE WbTypes'
  <2> DEFINE tab == Tabs[IndexOf(Tabs, id)]
  <2>1. tab \in Tab /\ id \in Nat
    <3>1. id \in TabIds(desk.tabs) /\ DeskIsSound(desk)
      BY <1>4 DEF SaveTab, Tabs, DesksInv
    <3>2. IndexOf(desk.tabs, id) \in 1..Len(desk.tabs) /\ desk.tabs[IndexOf(desk.tabs, id)].id = id
      BY <3>1, TabAt
    <3>3. \A i \in 1..Len(desk.tabs) : desk.tabs[i] \in Tab
      BY <3>1, DeskFields
    <3> QED BY <3>2, <3>3 DEF Tabs, Tab
  <2>2. PICK r \in IF tab.rid # None THEN {tab.rid} ELSE Rids \ given :
          /\ disk' = [disk EXCEPT ![open].requests[r] = tab.text]
          /\ saves' = saves \cup {[tab |-> id, rid |-> r, was |-> tab.rid, text |-> tab.text,
                                   path |-> path, closes |-> closes]}
    BY <1>4 DEF SaveTab
  <2> HIDE DEF tab
  <2>3. r \in Rids
    BY <2>1, <2>2 DEF Tab, Ids
  <2>4. tab.text \in Texts /\ tab.text \in Contents /\ tab.rid \in Ids /\ open \in Paths /\ path \in Paths
    BY <2>1 DEF Tab, Contents, WbTypes
  <2>5. disk' \in [Paths -> WbData]
    BY <2>2, <2>3, <2>4, DiskKept
  <2>6. saves' \subseteq SaveCall
    BY <2>1, <2>2, <2>3, <2>4 DEF WbTypes, SaveCall
  <2> QED BY <1>4, <2>5, <2>6 DEF SaveTab, background, trust, WbTypes
<1>5. ASSUME NEW save \in saves, SaveReturns(save) PROVE WbTypes'
  <2>1. closed' \in Seq(Shut)
    BY <1>5, SaveOnDesk
  <2>2. saves' \subseteq SaveCall /\ crossed' \in BOOLEAN /\ overtaken' \in BOOLEAN
    BY <1>5 DEF SaveReturns, WbTypes
  <2>3. UNCHANGED <<path, hydrated, switch, load, reload, open, announced, folders, last, sends, asking, deletes, disk, isRestricted>>
    BY <1>5 DEF SaveReturns, trust
  <2> QED BY <2>1, <2>2, <2>3 DEF WbTypes
<1>6. ASSUME NEW r \in Rids, DeleteRequest(r) PROVE WbTypes'
  <2>1. deletes' \subseteq DeleteCall
    <3>1. path \in Paths /\ deletes \subseteq DeleteCall
      BY DEF WbTypes
    <3>2. [rid |-> r, path |-> path, isMade |-> FALSE] \in DeleteCall
      BY <3>1 DEF DeleteCall
    <3> QED BY <1>6, <3>1, <3>2 DEF DeleteRequest
  <2> QED BY <1>6, <2>1 DEF DeleteRequest, background, trust, WbTypes
<1>10. ASSUME NEW delete \in deletes, DeleteIsMade(delete) PROVE WbTypes'
  <2>1. None \in Contents /\ open \in Paths /\ delete \in DeleteCall
    BY DEF Contents, WbTypes
  <2>2. delete.rid \in Rids /\ delete.path \in Paths
    BY <2>1 DEF DeleteCall
  <2>3. disk' \in [Paths -> WbData]
    BY <1>10, <2>1, <2>2, DiskKept DEF DeleteIsMade
  <2>4. [rid |-> delete.rid, path |-> delete.path, isMade |-> TRUE] \in DeleteCall
    BY <2>2 DEF DeleteCall
  <2>5. deletes' \subseteq DeleteCall /\ crossed' \in BOOLEAN
    BY <1>10, <2>4 DEF DeleteIsMade, WbTypes
  <2>6. UNCHANGED <<path, hydrated, switch, load, reload, open, announced, folders, closed, last, sends, asking, saves, isRestricted, overtaken>>
    BY <1>10 DEF DeleteIsMade, trust
  <2> QED BY <2>3, <2>5, <2>6 DEF WbTypes
<1>7. ASSUME NEW delete \in deletes, DeleteReturns(delete) PROVE WbTypes'
  <2>1. UNCHANGED <<path, hydrated, switch, load, reload, open, announced, folders, closed, last, sends, asking, saves, disk, isRestricted>>
    BY <1>7 DEF DeleteReturns, trust
  <2>2. deletes' \subseteq DeleteCall /\ crossed' \in BOOLEAN /\ overtaken' \in BOOLEAN
    BY <1>7 DEF DeleteReturns, WbTypes
  <2> QED BY <2>1, <2>2 DEF WbTypes
<1>8. CASE EditFolders
  BY <1>8 DEF EditFolders, background, trust, WbTypes
<1>9. CASE AutoSave
  <2>1. open \in Paths /\ folders.of \in Paths
    BY DEF WbTypes
  <2>2. disk' \in [Paths -> WbData]
    BY <1>9, <2>1, DiskKept DEF AutoSave
  <2>3. folders' \in [of : Paths, edited : BOOLEAN]
    BY <1>9 DEF AutoSave, WbTypes
  <2> QED BY <1>9, <2>2, <2>3 DEF AutoSave, background, trust, WbTypes
<1> QED BY <1>1, <1>2, <1>3, <1>4, <1>5, <1>6, <1>7, <1>8, <1>9, <1>10 DEF Requesting

LEMMA TypesOfStorage ==
  ASSUME WbTypes, DesksInv, Storage
  PROVE  WbTypes'
<1>1. ASSUME NEW p \in Paths, SwitchStorage(p) PROVE WbTypes'
  <2>1. open \in Paths /\ folders.of \in Paths
    BY DEF WbTypes
  <2>2. disk' \in [Paths -> WbData]
    BY <1>1, <2>1, DiskKept DEF SwitchStorage
  <2> QED BY <1>1, <2>2 DEF SwitchStorage, tabState, trust, WbTypes
<1>2. ASSUME NEW p \in Paths, LeaveWorkspace(p) PROVE WbTypes'
  BY <1>2 DEF LeaveWorkspace, trust, WbTypes
<1>3. CASE OpenFolder
  <2>1. switch.at = "saving" /\ switch.to \in Paths
    BY <1>3, SwitchTo DEF OpenFolder
  <2>2. open' \in Paths /\ switch' \in [at : {"idle"}] \cup [at : {"saving", "opened"}, to : Paths]
    <3>1. CASE open' = switch.to /\ switch' = [switch EXCEPT !.at = "opened"]
      BY <2>1, <3>1, SwitchTo
    <3>2. CASE UNCHANGED open /\ switch' = Idle
      BY <3>2 DEF WbTypes, Idle
    <3> QED BY <1>3, <3>1, <3>2 DEF OpenFolder
  <2>3. announced' \in BOOLEAN
    BY <1>3 DEF OpenFolder
  <2> QED BY <1>3, <2>2, <2>3 DEF OpenFolder, tabState, trust, WbTypes
<1>4. CASE EnterWorkspace
  <2>1. path' \in Paths /\ switch' \in [at : {"idle"}]
    BY <1>4, SwitchTo DEF EnterWorkspace, Idle
  <2> QED BY <1>4, <2>1 DEF EnterWorkspace, tabState, trust, WbTypes
<1>5. CASE LoadReads
  <2>1. load' \in [at : {"read"}, data : WbData] /\ announced' \in BOOLEAN
    BY <1>5 DEF LoadReads, WbTypes
  <2> QED BY <1>5, <2>1 DEF LoadReads, tabState, trust, WbTypes
<1>6. CASE LoadReturns
  <2>1. UNCHANGED <<path, tabState, switch, reload, open, disk, announced, crossed>> /\ load' \in [at : {"idle"}]
    BY <1>6 DEF LoadReturns, Idle
  <2>2. folders' \in [of : Paths, edited : BOOLEAN] /\ hydrated' \in BOOLEAN /\ overtaken' \in BOOLEAN /\ isRestricted' \in BOOLEAN
    <3>1. load.data \in WbData
      BY <1>6, LoadData DEF LoadReturns
    <3>2. CASE hydrated
      BY <1>6, <3>2 DEF LoadReturns, WbTypes
    <3>3. CASE ~hydrated
      <4>1. /\ folders' = [of |-> load.data.folders, edited |-> FALSE] /\ hydrated' = TRUE
            /\ isRestricted' = load.data.restricted
            /\ overtaken' = (load.data.requests # disk[open].requests /\ ~announced)
        BY <1>6, <3>3 DEF LoadReturns, Hydrate
      <4> QED BY <3>1, <4>1 DEF WbData
    <3> QED BY <3>2, <3>3
  <2> QED BY <2>1, <2>2 DEF tabState, trust, WbTypes
<1>7. CASE ReloadReads
  <2>1. reload' \in [at : {"read"}, data : WbData, path : Paths] /\ announced' \in BOOLEAN
    BY <1>7 DEF ReloadReads, WbTypes
  <2> QED BY <1>7, <2>1 DEF ReloadReads, tabState, trust, WbTypes
<1>8. CASE ReloadReturns
  <2>1. UNCHANGED <<path, tabState, switch, load, open, disk, announced>> /\ reload' \in [at : {"idle"}]
    BY <1>8 DEF ReloadReturns, Idle
  <2>2. folders' \in [of : Paths, edited : BOOLEAN] /\ hydrated' \in BOOLEAN /\ overtaken' \in BOOLEAN /\ crossed' \in BOOLEAN
        /\ isRestricted' \in BOOLEAN
    <3>1. reload.data \in WbData
      BY <1>8, LoadData DEF ReloadReturns
    <3> QED BY <1>8, <3>1 DEF ReloadReturns, Hydrate, WbTypes, WbData
  <2> QED BY <2>1, <2>2 DEF tabState, trust, WbTypes
<1>9. ASSUME NEW r \in Rids, NEW text \in Texts \cup {None}, DiskEdit(r, text) PROVE WbTypes'
  <2>1. open \in Paths /\ text \in Contents
    BY DEF WbTypes, Contents
  <2>2. disk' \in [Paths -> WbData]
    BY <1>9, <2>1, DiskKept DEF DiskEdit
  <2> QED BY <1>9, <2>2 DEF DiskEdit, tabState, trust, WbTypes
<1>10. CASE FlushWrites
  BY <1>10 DEF FlushWrites, tabState, trust, WbTypes
<1>11. CASE Restart
  <2>1. /\ path' = open /\ switch' = Idle /\ hydrated' = FALSE /\ load' = [at |-> "waiting"] /\ reload' = Idle
        /\ closed' = <<>> /\ last' = [r \in Rids |-> 0] /\ sends' = <<>> /\ asking' = 0
        /\ saves' = {} /\ deletes' = {} /\ announced' = FALSE /\ UNCHANGED <<folders, open, disk, overtaken>>
        /\ crossed' \in BOOLEAN
    BY <1>11 DEF Restart
  <2>2. switch' \in [at : {"idle"}] /\ reload' \in [at : {"idle"}] /\ load' \in [at : {"idle", "waiting"}]
    BY <2>1 DEF Idle
  <2>3. closed' \in Seq(Shut) /\ last' \in [Rids -> Nat]
    BY <2>1
  <2>4. sends' \in Seq([tab : Nat, path : Paths, isRunning : BOOLEAN, isSigned : BOOLEAN])
    BY <2>1
  <2>5. path' \in Paths /\ open' \in Paths /\ disk' \in [Paths -> WbData] /\ folders' \in [of : Paths, edited : BOOLEAN] /\ overtaken' \in BOOLEAN
    BY <2>1 DEF WbTypes
  <2>6. saves' \subseteq SaveCall /\ deletes' \subseteq DeleteCall /\ asking' \in Nat /\ hydrated' \in BOOLEAN /\ announced' \in BOOLEAN /\ crossed' \in BOOLEAN
    BY <2>1
  <2>7. isRestricted' \in BOOLEAN
    <3>1. PICK kept \in {drafts, Drafts} : isRestricted' = kept.isRestricted
      BY <1>11 DEF Restart
    <3>2. drafts.isRestricted \in BOOLEAN
      BY DEF DesksInv, DraftsAreSound
    <3>3. Drafts.isRestricted \in BOOLEAN
      BY DEF Drafts, WbTypes
    <3> QED BY <3>1, <3>2, <3>3
  <2> QED BY <2>2, <2>3, <2>4, <2>5, <2>6, <2>7 DEF WbTypes
<1>12. CASE Start
  BY <1>12 DEF Start, tabState, trust, WbTypes
<1>13. CASE Trust
  <2>1. open \in Paths
    BY DEF WbTypes
  <2>2. disk' \in [Paths -> WbData]
    BY <1>13, <2>1, DiskKept DEF Trust
  <2> QED BY <1>13, <2>2 DEF Trust, tabState, WbTypes
<1>14. CASE LiftRestriction
  BY <1>14 DEF LiftRestriction, tabState, WbTypes
<1> QED BY <1>1, <1>2, <1>3, <1>4, <1>5, <1>6, <1>7, <1>8, <1>9, <1>10, <1>11, <1>12, <1>13, <1>14 DEF Storage

LEMMA TypesStep ==
  ASSUME WbTypes, DesksInv, Awaits(desk, path), WbNext
  PROVE  WbTypes'
<1>1. CASE Strip
  BY <1>1, StripStep DEF IsStripStep, wbRest, WbTypes
<1> QED BY <1>1, TypesOfRequesting, TypesOfStorage DEF WbNext

-----------------------------------------------------------------------------
(* The strips are kept sound *)

LEMMA DraftsOf ==
  ASSUME path \in Paths, isRestricted \in BOOLEAN, DeskIsSound(desk), SessionsAreSound(sessions)
  PROVE  /\ DraftsAreSound(Drafts)
         /\ DeskIsClean(desk) /\ SessionsAreClean(sessions) /\ AreElsewhere(sessions, path) => DraftsAreClean(Drafts)
         /\ Drafts.path = path /\ Drafts.desk = Persistable(desk) /\ Len(Drafts.sessions) = Len(sessions)
         /\ \A i \in 1..Len(sessions) : /\ Drafts.sessions[i].path = sessions[i].path
                                        /\ Drafts.sessions[i].desk = Persistable(sessions[i].desk)
<1> DEFINE n == Len(sessions)
           ss == [i \in 1..n |-> [path |-> sessions[i].path, desk |-> Persistable(sessions[i].desk)]]
<1>1. /\ sessions \in Seq(Session) /\ n \in Nat /\ DeskIsSound(desk) /\ path \in Paths
      /\ \A i \in 1..n : DeskIsSound(sessions[i].desk) /\ sessions[i].path \in Paths
  <2>1. sessions \in Seq(Session)
    BY DEF SessionsAreSound
  <2>2. \A i \in 1..n : sessions[i] \in Session
    BY <2>1, ElementOfSeq
  <2> QED BY <2>1, <2>2 DEF SessionsAreSound, Session
<1>2. /\ KeptIsSound(Persistable(desk)) /\ (DeskIsClean(desk) => KeptIsClean(Persistable(desk)))
      /\ \A i \in 1..n : /\ KeptIsSound(Persistable(sessions[i].desk))
                         /\ DeskIsClean(sessions[i].desk) => KeptIsClean(Persistable(sessions[i].desk))
  BY <1>1, PersistIsSound
<1>3. Drafts = [path |-> path, desk |-> Persistable(desk), isRestricted |-> isRestricted, sessions |-> ss]
  BY DEF Drafts
<1>4. \A i \in 1..n : ss[i].path = sessions[i].path /\ ss[i].desk = Persistable(sessions[i].desk) /\ ss[i] \in KeptSession
  BY <1>1, <1>2 DEF KeptSession, KeptIsSound
<1>5. ss \in Seq(KeptSession) /\ Len(ss) = n
  <2>1. ss = [i \in 1..n |-> ss[i]]
    OBVIOUS
  <2> HIDE DEF ss
  <2>2. ss \in [1..n -> KeptSession]
    BY <1>4, <2>1
  <2> QED BY <1>1, <2>2, SeqDef
<1> HIDE DEF ss
<1>6. Drafts.path = path /\ Drafts.desk = Persistable(desk) /\ Drafts.sessions = ss
  BY <1>3
<1>7. Drafts \in [path : Paths, desk : KeptDesk, isRestricted : BOOLEAN, sessions : Seq(KeptSession)]
  BY <1>1, <1>2, <1>3, <1>5 DEF KeptIsSound
<1>8. DraftsAreSound(Drafts)
  <2>1. ArePlaces(ss) /\ n <= MaxSessions
    BY <1>4, <1>5 DEF ArePlaces, SessionsAreSound
  <2> QED BY <1>2, <1>4, <1>5, <1>6, <1>7, <2>1 DEF DraftsAreSound
<1>9. DeskIsClean(desk) /\ SessionsAreClean(sessions) /\ AreElsewhere(sessions, path) => DraftsAreClean(Drafts)
  BY <1>2, <1>4, <1>5, <1>6 DEF DraftsAreClean, SessionsAreClean, AreElsewhere
<1> QED BY <1>4, <1>5, <1>6, <1>8, <1>9

LEMMA DraftsWritten ==
  ASSUME WbTypes, DesksInv
  PROVE  /\ DraftsAreSound(Drafts)
         /\ DeskIsClean(desk) /\ SessionsAreClean(sessions) /\ AreElsewhere(sessions, path) => DraftsAreClean(Drafts)
         /\ Drafts.path = path /\ Drafts.desk = Persistable(desk) /\ Len(Drafts.sessions) = Len(sessions)
         /\ \A i \in 1..Len(sessions) : /\ Drafts.sessions[i].path = sessions[i].path
                                        /\ Drafts.sessions[i].desk = Persistable(sessions[i].desk)
<1>1. path \in Paths /\ isRestricted \in BOOLEAN /\ DeskIsSound(desk) /\ SessionsAreSound(sessions)
  BY DEF WbTypes, DesksInv
<1> QED BY <1>1, DraftsOf

\* the strips left and entered by a switch
LEMMA EnterStep ==
  ASSUME WbTypes, DesksInv, CleanInv, PendingInv, SwitchInv, EnterWorkspace
  PROVE  DesksInv' /\ CleanInv' /\ PendingInv'
<1> DEFINE to == switch.to
           s == [path |-> path, desk |-> desk]
           O == OtherSessions(to)
           w == WithSession(O, s)
<1>1. /\ path' = to /\ sessions' = Newest(w) /\ UNCHANGED <<drafts, crossed, sends>>
      /\ desk' = IF SessionOf(to) = <<>> THEN FreshDesk ELSE SessionOf(to)[1].desk
      /\ to # path /\ to \in Paths
  <2>1. switch.at = "opened"
    BY DEF EnterWorkspace
  <2>2. to # path /\ to \in Paths
    BY <2>1, SwitchTo DEF SwitchInv
  <2> QED BY <2>2 DEF EnterWorkspace, tabState
<1>2. sessions \in Seq(Session) /\ DeskIsSound(desk) /\ desk \in Desk /\ path \in Paths /\ ArePlaces(sessions)
  BY DEF WbTypes, DesksInv, SessionsAreSound, DeskIsSound
<1>3. s \in Session /\ s.path = path /\ s.desk = desk
  BY <1>2 DEF Session
<1>4. /\ SessionOf(to) \in Seq(Session) /\ O \in Seq(Session)
      /\ IsFrom(SessionOf(to), sessions) /\ IsFrom(O, sessions)
      /\ \A k \in 1..Len(SessionOf(to)) : SessionOf(to)[k].path = to
      /\ \A k \in 1..Len(O) : O[k].path # to
      /\ ArePlaces(O)
  BY <1>2, OnlySessions
<1> HIDE DEF O, s
<1>5. /\ w \in Seq(Session) /\ ArePlaces(w)
      /\ \A k \in 1..Len(w) : w[k] = s \/ (w[k].path # s.path /\ \E i \in 1..Len(O) : w[k] = O[i])
  BY <1>3, <1>4, SessionAdded
<1> HIDE DEF w
<1>6. /\ sessions' \in Seq(Session) /\ IsFrom(sessions', w) /\ Len(sessions') <= MaxSessions /\ ArePlaces(sessions')
  BY <1>1, <1>5, NewestIs
\* a kept strip is the one left, or one kept before, of another workspace
<1>7. \A k \in 1..Len(sessions') :
        \/ sessions'[k] = s
        \/ \E i \in 1..Len(sessions) : sessions'[k] = sessions[i] /\ sessions[i].path # to
  <2>1. \A k \in 1..Len(w) : w[k] = s \/ \E i \in 1..Len(sessions) : w[k] = sessions[i] /\ sessions[i].path # to
    <3> TAKE k \in 1..Len(w)
    <3>1. CASE w[k] # s
      <4>1. PICK i \in 1..Len(O) : w[k] = O[i]
        BY <1>5, <3>1
      <4>2. PICK j \in 1..Len(sessions) : O[i] = sessions[j]
        BY <1>4 DEF IsFrom
      <4> QED BY <1>4, <4>1, <4>2
    <3> QED BY <3>1
  <2> QED BY <1>6, <2>1 DEF IsFrom
\* the strip entered is a kept one of that workspace, or a fresh one
<1>8. desk' = FreshDesk \/ \E i \in 1..Len(sessions) : desk' = sessions[i].desk /\ sessions[i].path = to
  <2>1. CASE SessionOf(to) = <<>>
    BY <1>1, <2>1
  <2>2. CASE SessionOf(to) # <<>>
    <3>1. 1 \in 1..Len(SessionOf(to))
      BY <1>4, <2>2, EmptySeq
    <3>2. PICK i \in 1..Len(sessions) : SessionOf(to)[1] = sessions[i]
      BY <1>4, <3>1 DEF IsFrom
    <3> QED BY <1>1, <1>4, <2>2, <3>1, <3>2
  <2> QED BY <2>1, <2>2
<1>9. DesksInv'
  <2>1. DeskIsSound(desk')
    BY <1>8, FreshIsSound DEF DesksInv, SessionsAreSound
  <2>2. \A k \in 1..Len(sessions') : DeskIsSound(sessions'[k].desk)
    BY <1>2, <1>3, <1>7 DEF DesksInv, SessionsAreSound
  <2>3. SessionsAreSound(sessions')
    BY <1>6, <2>2 DEF SessionsAreSound
  <2> QED BY <1>1, <2>1, <2>3 DEF DesksInv
<1>10. CleanInv'
  <2> SUFFICES ASSUME ~crossed
               PROVE  DeskIsClean(desk') /\ SessionsAreClean(sessions') /\ AreElsewhere(sessions', path') /\ DraftsAreClean(drafts)
    BY <1>1 DEF CleanInv
  <2>1. DeskIsClean(desk) /\ SessionsAreClean(sessions) /\ DraftsAreClean(drafts)
    BY DEF CleanInv
  <2>2. DeskIsClean(desk')
    BY <1>8, <2>1, FreshIsSound DEF SessionsAreClean
  <2>3. SessionsAreClean(sessions')
    BY <1>3, <1>7, <2>1 DEF SessionsAreClean
  <2>4. AreElsewhere(sessions', path')
    BY <1>1, <1>3, <1>7 DEF AreElsewhere
  <2> QED BY <2>1, <2>2, <2>3, <2>4
<1>11. PendingInv'
  <2>1. Awaits(desk', path')
    BY <1>1, <1>8, FreshIsSound DEF PendingInv
  <2>2. \A k \in 1..Len(sessions') : Awaits(sessions'[k].desk, sessions'[k].path)
    BY <1>3, <1>7 DEF PendingInv
  <2>3. sends' = sends
    BY <1>1
  <2> QED BY <2>1, <2>2, <2>3 DEF PendingInv, Awaits
<1> QED BY <1>9, <1>10, <1>11

\* the strips a restart brings back
LEMMA RestartStep ==
  ASSUME WbTypes, DesksInv, CleanInv, Restart
  PROVE  DesksInv' /\ CleanInv' /\ PendingInv'
<1>1. PICK kept \in {drafts, Drafts} :
        /\ desk' = RestoreDesk(kept.desk)
        /\ sessions' = [i \in 1..Len(kept.sessions) |->
                          [path |-> kept.sessions[i].path, desk |-> RestoreDesk(kept.sessions[i].desk)]]
        /\ drafts' = kept
        /\ crossed' = (crossed \/ kept.path # open)
  BY DEF Restart
<1>2. path' = open /\ sends' = <<>>
  BY DEF Restart
<1>3. DraftsAreSound(kept) /\ (~crossed => DraftsAreClean(kept))
  BY <1>1, DraftsWritten DEF DesksInv, CleanInv
<1> DEFINE n == Len(kept.sessions)
<1>4. n \in Nat /\ KeptIsSound(kept.desk) /\ \A i \in 1..n : KeptIsSound(kept.sessions[i].desk) /\ kept.sessions[i].path \in Paths
  <2>1. kept.sessions \in Seq(KeptSession)
    BY <1>3 DEF DraftsAreSound
  <2>2. \A i \in 1..n : kept.sessions[i] \in KeptSession
    BY <2>1, ElementOfSeq
  <2> QED BY <1>3, <2>1, <2>2 DEF DraftsAreSound, KeptSession
<1>5. \A k : KeptIsSound(k) =>
        /\ DeskIsSound(RestoreDesk(k)) /\ (KeptIsClean(k) => DeskIsClean(RestoreDesk(k)))
        /\ Len(RestoreDesk(k).tabs) = Len(k.tabs) /\ \A i \in 1..Len(k.tabs) : RestoreDesk(k).tabs[i].pending = 0
  BY RestoreIsSound
<1>6. /\ \A i \in 1..n : /\ sessions'[i].path = kept.sessions[i].path /\ sessions'[i].desk = RestoreDesk(kept.sessions[i].desk)
                         /\ sessions'[i] \in Session
  BY <1>1, <1>4, <1>5 DEF Session, DeskIsSound
<1>7. sessions' \in Seq(Session) /\ Len(sessions') = n
  <2>1. sessions' = [i \in 1..n |-> sessions'[i]]
    BY <1>1
  <2>2. sessions' \in [1..n -> Session]
    BY <1>6, <2>1
  <2> QED BY <1>4, <2>2, SeqDef
<1>8. DesksInv'
  <2>1. ArePlaces(sessions') /\ n <= MaxSessions
    BY <1>3, <1>6, <1>7 DEF ArePlaces, DraftsAreSound
  <2>2. \A i \in 1..n : DeskIsSound(sessions'[i].desk)
    BY <1>4, <1>5, <1>6
  <2>3. SessionsAreSound(sessions')
    BY <1>7, <2>1, <2>2 DEF SessionsAreSound
  <2>4. DeskIsSound(desk')
    BY <1>1, <1>4, <1>5
  <2> QED BY <1>1, <1>3, <2>3, <2>4 DEF DesksInv
<1>9. CleanInv'
  <2> SUFFICES ASSUME ~crossed'
               PROVE  DeskIsClean(desk') /\ SessionsAreClean(sessions') /\ AreElsewhere(sessions', path') /\ DraftsAreClean(drafts')
    BY DEF CleanInv
  <2>1. DraftsAreClean(kept) /\ kept.path = open
    BY <1>1, <1>3
  <2>2. KeptIsClean(kept.desk) /\ \A i \in 1..n : KeptIsClean(kept.sessions[i].desk) /\ kept.sessions[i].path # open
    BY <2>1 DEF DraftsAreClean, AreElsewhere
  <2>3. DeskIsClean(desk')
    BY <1>1, <1>4, <1>5, <2>2
  <2>4. SessionsAreClean(sessions')
    BY <1>4, <1>5, <1>6, <1>7, <2>2 DEF SessionsAreClean
  <2>5. AreElsewhere(sessions', path')
    BY <1>2, <1>6, <1>7, <2>2 DEF AreElsewhere
  <2> QED BY <1>1, <2>1, <2>3, <2>4, <2>5
<1>10. PendingInv'
  <2>1. \A i \in 1..Len(desk'.tabs) : desk'.tabs[i].pending = 0
    BY <1>1, <1>4, <1>5
  <2>2. \A k \in 1..Len(sessions') : \A i \in 1..Len(sessions'[k].desk.tabs) : sessions'[k].desk.tabs[i].pending = 0
    BY <1>4, <1>5, <1>6, <1>7
  <2> QED BY <2>1, <2>2 DEF PendingInv, Awaits
<1> QED BY <1>8, <1>9, <1>10

\* every other step
LEMMA DesksKept ==
  ASSUME WbTypes, DesksInv, CleanInv, PendingInv, IsDeskStep
  PROVE  DesksInv' /\ CleanInv' /\ PendingInv'
<1>1. /\ DeskIsSound(desk') /\ (crossed' \/ (DeskIsClean(desk) => DeskIsClean(desk')))
      /\ Awaits(desk, path)' /\ SendsGrow /\ path' = path /\ (crossed => crossed')
      /\ sessions' = sessions \/ \E p \in Paths : sessions' = OtherSessions(p)
      /\ drafts' \in {drafts, Drafts}
  BY DEF IsDeskStep, PendingInv
<1>2. /\ sessions \in Seq(Session) /\ SessionsAreSound(sessions) /\ ArePlaces(sessions) /\ Len(sessions) <= MaxSessions
      /\ sends \in Seq([tab : Nat, path : Paths, isRunning : BOOLEAN, isSigned : BOOLEAN])
  BY DEF DesksInv, SessionsAreSound, WbTypes
<1>3. sessions' \in Seq(Session) /\ IsFrom(sessions', sessions) /\ ArePlaces(sessions') /\ Len(sessions') <= Len(sessions)
  <2>1. CASE sessions' = sessions
    BY <1>2, <2>1 DEF IsFrom
  <2>2. ASSUME NEW p \in Paths, sessions' = OtherSessions(p)
        PROVE  sessions' \in Seq(Session) /\ IsFrom(sessions', sessions) /\ ArePlaces(sessions') /\ Len(sessions') <= Len(sessions)
    BY <1>2, <2>2, OnlySessions
  <2> QED BY <1>1, <2>1, <2>2
<1>4. Len(sessions) \in Nat /\ Len(sessions') \in Nat /\ MaxSessions \in Nat /\ Len(sends) \in Nat
  BY <1>2, <1>3, WorkbenchAssumption
<1>5. DesksInv'
  <2>1. \A i \in 1..Len(sessions') : DeskIsSound(sessions'[i].desk)
    BY <1>2, <1>3 DEF IsFrom, SessionsAreSound
  <2>2. Len(sessions') <= MaxSessions
    BY <1>2, <1>3, <1>4
  <2>3. SessionsAreSound(sessions')
    BY <1>3, <2>1, <2>2 DEF SessionsAreSound
  <2>4. DraftsAreSound(drafts')
    BY <1>1, DraftsWritten DEF DesksInv
  <2> QED BY <1>1, <2>3, <2>4 DEF DesksInv
<1>6. CleanInv'
  <2> SUFFICES ASSUME ~crossed'
               PROVE  DeskIsClean(desk') /\ SessionsAreClean(sessions') /\ AreElsewhere(sessions', path') /\ DraftsAreClean(drafts')
    BY DEF CleanInv
  <2>1. DeskIsClean(desk) /\ SessionsAreClean(sessions) /\ AreElsewhere(sessions, path) /\ DraftsAreClean(drafts)
    BY <1>1 DEF CleanInv
  <2>2. DeskIsClean(desk')
    BY <1>1, <2>1
  <2>3. SessionsAreClean(sessions')
    BY <1>3, <2>1 DEF SessionsAreClean, IsFrom
  <2>4. AreElsewhere(sessions', path')
    BY <1>1, <1>3, <2>1 DEF AreElsewhere, IsFrom
  <2>5. DraftsAreClean(drafts')
    BY <1>1, <2>1, DraftsWritten
  <2> QED BY <2>2, <2>3, <2>4, <2>5
<1>7. PendingInv'
  <2>1. ASSUME NEW k \in 1..Len(sessions') PROVE Awaits(sessions[k].desk, sessions[k].path)'
    <3>1. PICK i \in 1..Len(sessions) : sessions'[k] = sessions[i]
      BY <1>3, <2>1 DEF IsFrom
    <3>2. Awaits(sessions[i].desk, sessions[i].path)
      BY DEF PendingInv
    <3> DEFINE d == sessions[i].desk
    <3>3. ASSUME NEW j \in 1..Len(d.tabs), d.tabs[j].pending # 0
          PROVE  /\ d.tabs[j].pending \in 1..Len(sends') /\ sends'[d.tabs[j].pending].tab = d.tabs[j].id
                 /\ sends'[d.tabs[j].pending].path = sessions[i].path
      <4>1. /\ d.tabs[j].pending \in 1..Len(sends) /\ sends[d.tabs[j].pending].tab = d.tabs[j].id
            /\ sends[d.tabs[j].pending].path = sessions[i].path
        BY <3>2, <3>3 DEF Awaits
      <4>2. 1..Len(sends) \subseteq 1..Len(sends')
        BY <1>1, <1>4 DEF SendsGrow
      <4> QED BY <1>1, <4>1, <4>2 DEF SendsGrow
    <3> QED BY <3>1, <3>3 DEF Awaits
  <2>2. Awaits(desk, path)'
    BY <1>1
  <2> QED BY <2>1, <2>2 DEF PendingInv
<1> QED BY <1>5, <1>6, <1>7

-----------------------------------------------------------------------------
(* Switches, folders and the store *)

\* the parts of the state that the switch, the loads and the folders are about
backend == <<path, hydrated, folders, switch, load, reload, open, crossed>>

LEMMA BackendKept ==
  ASSUME SwitchInv, FoldersInv, UNCHANGED backend, \A p \in Paths : disk'[p].folders = disk[p].folders
  PROVE  SwitchInv' /\ FoldersInv'
  BY DEF SwitchInv, FoldersInv, backend

LEMMA FoldersOf ==
  ASSUME WbTypes
  PROVE  /\ \A p \in Paths, x \in Paths : [disk EXCEPT ![open].folders = x][p].folders = IF p = open THEN x ELSE disk[p].folders
         /\ \A p \in Paths, x \in Paths : [disk EXCEPT ![open].folders = x][p].requests = disk[p].requests
         /\ \A p \in Paths, r \in Rids, x \in Contents : [disk EXCEPT ![open].requests[r] = x][p].folders = disk[p].folders
         /\ \A r \in Rids, x \in Contents, q \in Rids :
              [disk EXCEPT ![open].requests[r] = x][open].requests[q] = IF q = r THEN x ELSE disk[open].requests[q]
         /\ \A p \in Paths : [disk EXCEPT ![open].restricted = FALSE][p].folders = disk[p].folders
         /\ \A p \in Paths : [disk EXCEPT ![open].restricted = FALSE][p].requests = disk[p].requests
<1>1. disk \in [Paths -> WbData] /\ open \in Paths /\ disk[open] \in WbData /\ disk[open].requests \in Requests
  BY DEF WbTypes, WbData
<1>2. \A p \in Paths : disk[p] \in WbData
  BY <1>1
<1>3. ASSUME NEW p \in Paths, NEW x \in Paths
      PROVE  /\ [disk EXCEPT ![open].folders = x][p].folders = IF p = open THEN x ELSE disk[p].folders
             /\ [disk EXCEPT ![open].folders = x][p].requests = disk[p].requests
  BY <1>1, <1>2 DEF WbData
<1>4. ASSUME NEW p \in Paths, NEW r \in Rids, NEW x \in Contents
      PROVE  [disk EXCEPT ![open].requests[r] = x][p].folders = disk[p].folders
  BY <1>1, <1>2 DEF WbData
<1>5. ASSUME NEW r \in Rids, NEW x \in Contents, NEW q \in Rids
      PROVE  [disk EXCEPT ![open].requests[r] = x][open].requests[q] = IF q = r THEN x ELSE disk[open].requests[q]
  BY <1>1 DEF WbData, Requests
<1>6. ASSUME NEW p \in Paths
      PROVE  /\ [disk EXCEPT ![open].restricted = FALSE][p].folders = disk[p].folders
             /\ [disk EXCEPT ![open].restricted = FALSE][p].requests = disk[p].requests
  BY <1>1, <1>2 DEF WbData
<1> QED BY <1>3, <1>4, <1>5, <1>6

LEMMA SwitchOfRequesting ==
  ASSUME WbTypes, DesksInv, SwitchInv, FoldersInv, Requesting
  PROVE  SwitchInv' /\ FoldersInv'
<1>1. CASE Send
  BY <1>1, BackendKept DEF Send, StartTabRequest, background, backend
<1>2. ASSUME NEW isApproved \in BOOLEAN, Approve(isApproved) PROVE SwitchInv' /\ FoldersInv'
  BY <1>2, BackendKept DEF Approve, StartTabRequest, background, backend
<1>3. ASSUME NEW n \in 1..Len(sends), Finish(n) PROVE SwitchInv' /\ FoldersInv'
  BY <1>3, BackendKept DEF Finish, background, backend
<1>4. ASSUME NEW id \in 1..desk.next, NEW closes \in BOOLEAN, SaveTab(id, closes) PROVE SwitchInv' /\ FoldersInv'
  <2>1. UNCHANGED backend
    BY <1>4 DEF SaveTab, background, backend
  <2>2. \A p \in Paths : disk'[p].folders = disk[p].folders
    <3> DEFINE tab == Tabs[IndexOf(Tabs, id)]
    <3>1. tab \in Tab
      BY <1>4, TabAt, DeskFields DEF SaveTab, DesksInv, Tabs
    <3>2. PICK r \in IF tab.rid # None THEN {tab.rid} ELSE Rids \ given : disk' = [disk EXCEPT ![open].requests[r] = tab.text]
      BY <1>4 DEF SaveTab
    <3>3. r \in Rids /\ tab.text \in Contents
      BY <3>1, <3>2 DEF Tab, Ids, Contents
    <3> QED BY <3>2, <3>3, FoldersOf
  <2> QED BY <2>1, <2>2, BackendKept
<1>5. ASSUME NEW save \in saves, SaveReturns(save) PROVE SwitchInv' /\ FoldersInv'
  <2>1. UNCHANGED <<path, hydrated, folders, switch, load, reload, open, disk>> /\ (crossed => crossed')
    BY <1>5 DEF SaveReturns
  <2> QED BY <2>1 DEF SwitchInv, FoldersInv
<1>6. ASSUME NEW r \in Rids, DeleteRequest(r) PROVE SwitchInv' /\ FoldersInv'
  BY <1>6, BackendKept DEF DeleteRequest, background, backend
<1>10. ASSUME NEW delete \in deletes, DeleteIsMade(delete) PROVE SwitchInv' /\ FoldersInv'
  <2>1. /\ UNCHANGED <<path, hydrated, folders, switch, load, reload, open>> /\ (crossed => crossed')
        /\ disk' = [disk EXCEPT ![open].requests[delete.rid] = None]
    BY <1>10 DEF DeleteIsMade
  <2>2. delete.rid \in Rids /\ None \in Contents
    BY DEF WbTypes, DeleteCall, Contents
  <2>3. \A p \in Paths : disk'[p].folders = disk[p].folders
    BY <2>1, <2>2, FoldersOf
  <2> QED BY <2>1, <2>3 DEF SwitchInv, FoldersInv
<1>7. ASSUME NEW delete \in deletes, DeleteReturns(delete) PROVE SwitchInv' /\ FoldersInv'
  <2>1. UNCHANGED <<path, hydrated, folders, switch, load, reload, open, disk>> /\ (crossed => crossed')
    BY <1>7 DEF DeleteReturns
  <2> QED BY <2>1 DEF SwitchInv, FoldersInv
<1>8. CASE EditFolders
  <2>1. UNCHANGED <<path, hydrated, switch, load, reload, open, disk, crossed>> /\ folders'.of = folders.of
    BY <1>8 DEF EditFolders, background, trust, WbTypes
  <2> QED BY <2>1 DEF SwitchInv, FoldersInv
<1>9. CASE AutoSave
  <2>1. /\ UNCHANGED <<path, hydrated, switch, load, reload, open, crossed>> /\ folders'.of = folders.of /\ hydrated
        /\ disk' = [disk EXCEPT ![open].folders = folders.of]
    BY <1>9 DEF AutoSave, background, trust, WbTypes
  <2>2. crossed \/ \A p \in Paths : disk'[p].folders = p
    <3>1. folders.of \in Paths
      BY DEF WbTypes
    <3>2. crossed \/ (folders.of = open /\ \A p \in Paths : disk[p].folders = p)
      BY <2>1 DEF FoldersInv
    <3> QED BY <2>1, <3>1, <3>2, FoldersOf
  <2> QED BY <2>1, <2>2 DEF SwitchInv, FoldersInv
<1> QED BY <1>1, <1>2, <1>3, <1>4, <1>5, <1>6, <1>7, <1>8, <1>9, <1>10 DEF Requesting

LEMMA SwitchOfStorage ==
  ASSUME WbTypes, SwitchInv, FoldersInv, Storage
  PROVE  SwitchInv' /\ FoldersInv'
<1>1. ASSUME NEW p \in Paths, SwitchStorage(p) PROVE SwitchInv' /\ FoldersInv'
  <2>1. /\ hydrated /\ switch.at = "idle" /\ p # path /\ disk' = [disk EXCEPT ![open].folders = folders.of]
        /\ switch' = [at |-> "saving", to |-> p] /\ ~hydrated' /\ load' = [at |-> "waiting"]
        /\ UNCHANGED <<path, reload, open, crossed>>
    BY <1>1 DEF SwitchStorage, User
  <2>2. crossed \/ \A q \in Paths : disk'[q].folders = q
    <3>1. folders.of \in Paths
      BY DEF WbTypes
    <3>2. crossed \/ (folders.of = open /\ \A q \in Paths : disk[q].folders = q)
      BY <2>1 DEF FoldersInv
    <3> QED BY <2>1, <3>1, <3>2, FoldersOf
  <2>3. switch'.at = "saving" /\ switch'.to = p /\ load'.at = "waiting"
    BY <2>1
  <2>4. SwitchInv'
    BY <2>1, <2>3 DEF SwitchInv
  <2>5. FoldersInv'
    BY <2>1, <2>2, <2>3 DEF FoldersInv
  <2> QED BY <2>4, <2>5
<1>2. ASSUME NEW p \in Paths, LeaveWorkspace(p) PROVE SwitchInv' /\ FoldersInv'
  BY <1>2, BackendKept DEF LeaveWorkspace, backend
<1>3. CASE OpenFolder
  <2>1. switch.at = "saving" /\ UNCHANGED <<path, hydrated, folders, load, reload, disk, crossed>>
    BY <1>3 DEF OpenFolder
  <2>2. crossed \/ (load.at # "read" /\ ~hydrated)
    BY <2>1 DEF FoldersInv
  <2>3. \/ open' = switch.to /\ switch'.at = "opened" /\ switch'.to = switch.to
        \/ open' = open /\ switch'.at = "idle"
    BY <1>3, <2>1, SwitchTo DEF OpenFolder, Idle
  <2>4. SwitchInv'
    BY <2>1, <2>3 DEF SwitchInv
  <2>5. FoldersInv'
    BY <2>1, <2>2 DEF FoldersInv
  <2> QED BY <2>4, <2>5
<1>4. CASE EnterWorkspace
  <2>1. /\ switch.at = "opened" /\ switch'.at = "idle" /\ path' = switch.to
        /\ UNCHANGED <<hydrated, folders, load, reload, open, disk, crossed>>
    BY <1>4 DEF EnterWorkspace, Idle
  <2>2. crossed \/ (load.at # "read" /\ ~hydrated)
    BY <2>1 DEF FoldersInv
  <2>3. SwitchInv'
    BY <2>1 DEF SwitchInv
  <2>4. FoldersInv'
    BY <2>1, <2>2 DEF FoldersInv
  <2> QED BY <2>3, <2>4
<1>5. CASE LoadReads
  <2>1. /\ switch.at = "idle" /\ load'.at = "read" /\ load'.data = disk[open]
        /\ UNCHANGED <<path, hydrated, folders, switch, reload, open, disk, crossed>>
    BY <1>5 DEF LoadReads, GateIsOpen
  <2>2. open \in Paths
    BY DEF WbTypes
  <2> QED BY <2>1, <2>2 DEF SwitchInv, FoldersInv
<1>6. CASE LoadReturns
  <2>1. /\ load.at = "read" /\ load'.at = "idle" /\ UNCHANGED <<path, switch, reload, open, disk, crossed>>
        /\ \/ hydrated /\ UNCHANGED <<folders, hydrated>>
           \/ ~hydrated /\ folders' = [of |-> load.data.folders, edited |-> FALSE] /\ hydrated'
    BY <1>6 DEF LoadReturns, Hydrate, Idle
  <2>2. crossed \/ (hydrated' => folders'.of = open /\ switch.at = "idle")
    BY <2>1 DEF FoldersInv
  <2> QED BY <2>1, <2>2 DEF SwitchInv, FoldersInv
<1>7. CASE ReloadReads
  <2>1. /\ switch.at = "idle" /\ reload'.at = "read" /\ reload'.data = disk[open] /\ reload'.path = path
        /\ UNCHANGED <<path, hydrated, folders, switch, load, open, disk, crossed>>
    BY <1>7 DEF ReloadReads, GateIsOpen
  <2>2. open \in Paths
    BY DEF WbTypes
  <2> QED BY <2>1, <2>2 DEF SwitchInv, FoldersInv
<1>8. CASE ReloadReturns
  <2>1. /\ reload.at = "read" /\ reload'.at = "idle" /\ UNCHANGED <<path, switch, load, open, disk>>
        /\ folders'.of = reload.data.folders /\ hydrated'
        /\ (crossed' = (crossed \/ reload.path # path \/ switch.at # "idle"))
    BY <1>8 DEF ReloadReturns, Hydrate, Idle
  <2> QED BY <2>1 DEF SwitchInv, FoldersInv
<1>9. ASSUME NEW r \in Rids, NEW text \in Texts \cup {None}, DiskEdit(r, text) PROVE SwitchInv' /\ FoldersInv'
  <2>1. UNCHANGED backend /\ disk' = [disk EXCEPT ![open].requests[r] = text]
    BY <1>9 DEF DiskEdit, backend
  <2>2. \A p \in Paths : disk'[p].folders = disk[p].folders
    BY <2>1, FoldersOf DEF Contents
  <2> QED BY <2>1, <2>2, BackendKept
<1>10. CASE FlushWrites
  BY <1>10, BackendKept DEF FlushWrites, backend
<1>11. CASE Restart
  <2>1. /\ path' = open /\ switch'.at = "idle" /\ ~hydrated' /\ load'.at = "waiting" /\ reload'.at = "idle"
        /\ UNCHANGED <<open, disk>> /\ (crossed => crossed')
    BY <1>11 DEF Restart, Idle
  <2> QED BY <2>1 DEF SwitchInv, FoldersInv
<1>12. CASE Start
  <2>1. load'.at = "waiting" /\ UNCHANGED <<path, hydrated, folders, switch, reload, open, disk, crossed>>
    BY <1>12 DEF Start
  <2> QED BY <2>1 DEF SwitchInv, FoldersInv
<1>13. CASE Trust
  <2>1. UNCHANGED backend /\ disk' = [disk EXCEPT ![open].restricted = FALSE]
    BY <1>13 DEF Trust, backend
  <2> QED BY <2>1, FoldersOf, BackendKept
<1>14. CASE LiftRestriction
  BY <1>14, BackendKept DEF LiftRestriction, backend
<1> QED BY <1>1, <1>2, <1>3, <1>4, <1>5, <1>6, <1>7, <1>8, <1>9, <1>10, <1>11, <1>12, <1>13, <1>14 DEF Storage

\* the parts of the state that the requests in the store are compared with
stored == <<saves, deletes, hydrated, announced, reload, open, crossed, overtaken>>

LEMMA StoreKept ==
  ASSUME StoreInv, UNCHANGED stored, desk'.requests = desk.requests,
         \A r \in Rids : disk'[open].requests[r] = disk[open].requests[r]
  PROVE  StoreInv'
  BY DEF StoreInv, stored

LEMMA StripRequests ==
  ASSUME WbTypes, DesksInv, NEW strip
  PROVE  [desk EXCEPT !.tabs = strip].requests = desk.requests
  BY DEF DesksInv, DeskIsSound, Desk

LEMMA StoreOfRequesting ==
  ASSUME WbTypes, DesksInv, StoreInv, Requesting
  PROVE  StoreInv'
<1>1. CASE Send
  <2>1. UNCHANGED <<stored, disk>>
    BY <1>1 DEF Send, StartTabRequest, background, stored
  <2>2. desk'.requests = desk.requests
    BY <1>1, StripRequests DEF Send, StartTabRequest
  <2> QED BY <2>1, <2>2, StoreKept DEF stored
<1>2. ASSUME NEW isApproved \in BOOLEAN, Approve(isApproved) PROVE StoreInv'
  <2>1. UNCHANGED <<stored, disk>>
    BY <1>2 DEF Approve, StartTabRequest, background, stored
  <2>2. desk'.requests = desk.requests
    BY <1>2, StripRequests DEF Approve, StartTabRequest
  <2> QED BY <2>1, <2>2, StoreKept DEF stored
<1>3. ASSUME NEW n \in 1..Len(sends), Finish(n) PROVE StoreInv'
  <2>1. UNCHANGED <<stored, disk>>
    BY <1>3 DEF Finish, background, stored
  <2>2. desk'.requests = desk.requests
    BY <1>3, StripRequests DEF Finish
  <2> QED BY <2>1, <2>2, StoreKept DEF stored
<1>4. ASSUME NEW id \in 1..desk.next, NEW closes \in BOOLEAN, SaveTab(id, closes) PROVE StoreInv'
  <2> DEFINE tab == Tabs[IndexOf(Tabs, id)]
  <2>1. tab \in Tab
    BY <1>4, TabAt, DeskFields DEF SaveTab, DesksInv, Tabs
  <2>2. PICK r \in IF tab.rid # None THEN {tab.rid} ELSE Rids \ given :
          /\ disk' = [disk EXCEPT ![open].requests[r] = tab.text]
          /\ saves' = saves \cup {[tab |-> id, rid |-> r, was |-> tab.rid, text |-> tab.text,
                                   path |-> path, closes |-> closes]}
    BY <1>4 DEF SaveTab
  <2>3. r \in Rids /\ tab.text \in Contents
    BY <2>1, <2>2 DEF Tab, Ids, Contents
  <2>4. \A q \in Rids : q # r => disk'[open].requests[q] = disk[open].requests[q]
    BY <2>2, <2>3, FoldersOf
  <2>5. saves \subseteq saves' /\ \E save \in saves' : save.rid = r
    <3> DEFINE s == [tab |-> id, rid |-> r, was |-> tab.rid, text |-> tab.text, path |-> path, closes |-> closes]
    <3>1. s.rid = r
      OBVIOUS
    <3>2. saves' = saves \cup {s}
      BY <2>2
    <3> HIDE DEF s
    <3> QED BY <3>1, <3>2
  <2>6. UNCHANGED <<desk, deletes, hydrated, announced, reload, open, crossed, overtaken>>
    BY <1>4 DEF SaveTab, background
  <2> HIDE DEF tab
  <2> QED BY <2>4, <2>5, <2>6 DEF StoreInv
<1>5. ASSUME NEW save \in saves, SaveReturns(save) PROVE StoreInv'
  <2>1. desk'.requests = [desk.requests EXCEPT ![save.rid] = save.text]
    BY <1>5, SaveOnDesk
  <2>2. /\ saves' = saves \ {save} /\ UNCHANGED <<deletes, hydrated, announced, reload, open, disk>>
        /\ crossed => crossed'
        /\ overtaken' = (overtaken \/ disk[open].requests[save.rid] # save.text)
    BY <1>5 DEF SaveReturns
  <2>3. desk.requests \in [Rids -> Contents] /\ save.rid \in Rids
    BY DEF DesksInv, DeskIsSound, Desk, Requests, WbTypes, SaveCall
  <2>4. \A q \in Rids : desk'.requests[q] = IF q = save.rid THEN save.text ELSE desk.requests[q]
    BY <2>1, <2>3
  <2>5. \A q \in Rids : q # save.rid => ((\E s \in saves : s.rid = q) => \E s \in saves' : s.rid = q)
    BY <2>2
  <2> QED BY <2>2, <2>4, <2>5 DEF StoreInv
<1>6. ASSUME NEW r \in Rids, DeleteRequest(r) PROVE StoreInv'
  <2>1. UNCHANGED <<desk, saves, hydrated, announced, reload, open, disk, crossed, overtaken>> /\ deletes \subseteq deletes'
    BY <1>6 DEF DeleteRequest, background
  <2> QED BY <2>1 DEF StoreInv
<1>10. ASSUME NEW delete \in deletes, DeleteIsMade(delete) PROVE StoreInv'
  <2> DEFINE made == [rid |-> delete.rid, path |-> delete.path, isMade |-> TRUE]
  <2>1. /\ UNCHANGED <<desk, saves, hydrated, announced, reload, open, overtaken>> /\ (crossed => crossed')
        /\ disk' = [disk EXCEPT ![open].requests[delete.rid] = None]
        /\ deletes' = (deletes \ {delete}) \cup {made}
    BY <1>10 DEF DeleteIsMade
  <2>2. made.rid = delete.rid
    OBVIOUS
  <2> HIDE DEF made
  <2>3. delete.rid \in Rids /\ None \in Contents
    BY DEF WbTypes, DeleteCall, Contents
  <2>4. \A q \in Rids : q # delete.rid => disk'[open].requests[q] = disk[open].requests[q]
    BY <2>1, <2>3, FoldersOf
  <2>5. \A q \in Rids : (q = delete.rid \/ \E x \in deletes : x.rid = q) => \E x \in deletes' : x.rid = q
    BY <2>1, <2>2
  <2> QED BY <2>1, <2>4, <2>5 DEF StoreInv
<1>7. ASSUME NEW delete \in deletes, DeleteReturns(delete) PROVE StoreInv'
  <2>1. desk'.requests = [desk.requests EXCEPT ![delete.rid] = None]
    BY <1>7, DeleteOnDesk
  <2>2. /\ deletes' = deletes \ {delete} /\ UNCHANGED <<saves, hydrated, announced, reload, open, disk>>
        /\ crossed => crossed'
        /\ overtaken' = (overtaken \/ disk[open].requests[delete.rid] # None)
    BY <1>7 DEF DeleteReturns
  <2>3. desk.requests \in [Rids -> Contents] /\ delete.rid \in Rids
    BY DEF DesksInv, DeskIsSound, Desk, Requests, WbTypes, DeleteCall
  <2>4. \A q \in Rids : desk'.requests[q] = IF q = delete.rid THEN None ELSE desk.requests[q]
    BY <2>1, <2>3
  <2>5. \A q \in Rids : q # delete.rid => ((\E d \in deletes : d.rid = q) => \E d \in deletes' : d.rid = q)
    BY <2>2
  <2> QED BY <2>2, <2>4, <2>5 DEF StoreInv
<1>8. CASE EditFolders
  BY <1>8, StoreKept DEF EditFolders, background, stored
<1>9. CASE AutoSave
  <2>1. folders.of \in Paths /\ open \in Paths
    BY DEF WbTypes
  <2>2. UNCHANGED <<stored, desk>> /\ disk' = [disk EXCEPT ![open].folders = folders.of]
    BY <1>9 DEF AutoSave, background, stored
  <2>3. disk'[open].requests = disk[open].requests
    BY <2>1, <2>2, FoldersOf
  <2> QED BY <2>2, <2>3, StoreKept DEF stored
<1> QED BY <1>1, <1>2, <1>3, <1>4, <1>5, <1>6, <1>7, <1>8, <1>9, <1>10 DEF Requesting

LEMMA StoreFilled ==
  ASSUME WbTypes, DesksInv, NEW data \in WbData, Hydrate(data), desk'.requests = data.requests,
         UNCHANGED <<open, disk, announced>>
  PROVE  StoreInv'
<1>1. overtaken' = (data.requests # disk[open].requests /\ ~announced)
  BY DEF Hydrate
<1> QED BY <1>1 DEF StoreInv

LEMMA StoreOfStorage ==
  ASSUME WbTypes, DesksInv, FoldersInv, StoreInv, Storage
  PROVE  StoreInv'
<1>1. ASSUME NEW p \in Paths, SwitchStorage(p) PROVE StoreInv'
  BY <1>1 DEF SwitchStorage, StoreInv
<1>2. ASSUME NEW p \in Paths, LeaveWorkspace(p) PROVE StoreInv'
  BY <1>2, StoreKept DEF LeaveWorkspace, stored
<1>3. CASE OpenFolder
  <2>1. switch.at = "saving" /\ hydrated' = hydrated /\ crossed' = crossed
    BY <1>3 DEF OpenFolder
  <2> QED BY <2>1 DEF FoldersInv, StoreInv
<1>4. CASE EnterWorkspace
  <2>1. switch.at = "opened" /\ hydrated' = hydrated /\ crossed' = crossed
    BY <1>4 DEF EnterWorkspace
  <2> QED BY <2>1 DEF FoldersInv, StoreInv
<1>5. CASE LoadReads
  <2>1. announced' = (announced /\ hydrated) /\ UNCHANGED <<desk, saves, deletes, hydrated, reload, open, disk, crossed, overtaken>>
    BY <1>5 DEF LoadReads, tabState
  <2> QED BY <2>1 DEF StoreInv
<1>6. CASE LoadReturns
  <2>1. load.data \in WbData /\ UNCHANGED <<path, sessions, sends, saves, deletes, reload, open, disk, announced, drafts, crossed>>
    BY <1>6, LoadData DEF LoadReturns, tabState
  <2>2. CASE hydrated
    <3>1. UNCHANGED <<desk, hydrated, overtaken>>
      BY <1>6, <2>2 DEF LoadReturns
    <3> QED BY <2>1, <3>1 DEF StoreInv
  <2>3. CASE ~hydrated
    <3>1. Hydrate(load.data)
      BY <1>6, <2>3 DEF LoadReturns
    <3>2. desk'.requests = load.data.requests
      BY <1>6, <2>1, <3>1, HydrateOnDesk
    <3> QED BY <2>1, <3>1, <3>2, StoreFilled
  <2> QED BY <2>2, <2>3
<1>7. CASE ReloadReads
  <2>1. reload'.at = "read"
    BY <1>7 DEF ReloadReads
  <2> QED BY <2>1 DEF StoreInv
<1>8. CASE ReloadReturns
  <2>1. /\ reload.data \in WbData /\ Hydrate(reload.data)
        /\ UNCHANGED <<path, sessions, sends, open, disk, announced, drafts>> /\ (crossed => crossed')
    BY <1>8, LoadData DEF ReloadReturns, tabState
  <2>2. desk'.requests = reload.data.requests
    BY <1>8, <2>1, HydrateOnDesk
  <2> QED BY <2>1, <2>2, StoreFilled
<1>9. ASSUME NEW r \in Rids, NEW text \in Texts \cup {None}, DiskEdit(r, text) PROVE StoreInv'
  BY <1>9 DEF DiskEdit, StoreInv
<1>10. CASE FlushWrites
  BY <1>10, StoreKept DEF FlushWrites, tabState, stored
<1>11. CASE Restart
  BY <1>11 DEF Restart, StoreInv
<1>12. CASE Start
  BY <1>12, StoreKept DEF Start, tabState, stored
<1>13. CASE Trust
  <2>1. UNCHANGED <<stored, desk>> /\ disk' = [disk EXCEPT ![open].restricted = FALSE] /\ open \in Paths
    BY <1>13 DEF Trust, tabState, stored, WbTypes
  <2>2. disk'[open].requests = disk[open].requests
    BY <2>1, FoldersOf
  <2> QED BY <2>1, <2>2, StoreKept DEF stored
<1>14. CASE LiftRestriction
  BY <1>14, StoreKept DEF LiftRestriction, tabState, stored
<1> QED BY <1>1, <1>2, <1>3, <1>4, <1>5, <1>6, <1>7, <1>8, <1>9, <1>10, <1>11, <1>12, <1>13, <1>14 DEF Storage

-----------------------------------------------------------------------------
(* The theorems *)

WbInv == WbTypes /\ DesksInv /\ CleanInv /\ PendingInv /\ SwitchInv /\ FoldersInv /\ StoreInv

LEMMA WbStarts ==
  ASSUME WbInit
  PROVE  WbInv
<1>1. /\ desk = FreshDesk /\ path = Home /\ sessions = <<>> /\ hydrated = FALSE /\ folders = [of |-> Home, edited |-> FALSE]
      /\ closed = <<>> /\ last = [r \in Rids |-> 0] /\ sends = <<>> /\ asking = 0 /\ saves = {} /\ deletes = {}
      /\ switch = Idle /\ load = Idle /\ reload = Idle /\ open = Home
      /\ disk = [p \in Paths |-> [requests |-> Collection, folders |-> p, restricted |-> p \in Untrusted]]
      /\ announced = FALSE /\ isRestricted = FALSE /\ crossed = FALSE /\ overtaken = FALSE /\ drafts = Drafts
  BY DEF WbInit
<1>2. Home \in Paths /\ MaxSessions \in Nat /\ Collection \in Requests
  BY WorkbenchAssumption DEF Requests, Contents
<1>3. WbTypes
  <2>1. closed \in Seq(Shut) /\ sends \in Seq([tab : Nat, path : Paths, isRunning : BOOLEAN, isSigned : BOOLEAN])
    BY <1>1
  <2>2. disk \in [Paths -> WbData] /\ last \in [Rids -> Nat] /\ folders \in [of : Paths, edited : BOOLEAN]
    BY <1>1, <1>2 DEF WbData
  <2>3. switch \in [at : {"idle"}] /\ reload \in [at : {"idle"}] /\ load \in [at : {"idle", "waiting"}]
    BY <1>1 DEF Idle
  <2> QED BY <1>1, <1>2, <2>1, <2>2, <2>3 DEF WbTypes
<1>4. sessions \in Seq(Session) /\ Len(sessions) = 0
  BY <1>1
<1>5. SessionsAreSound(sessions) /\ SessionsAreClean(sessions) /\ AreElsewhere(sessions, path)
  BY <1>2, <1>4 DEF SessionsAreSound, ArePlaces, SessionsAreClean, AreElsewhere
<1>6. DeskIsSound(desk) /\ DeskIsClean(desk) /\ Awaits(desk, path)
  BY <1>1, FreshIsSound
<1>7. DraftsAreSound(drafts) /\ DraftsAreClean(drafts)
  BY <1>1, <1>2, <1>5, <1>6, DraftsOf
<1>8. DesksInv /\ CleanInv /\ PendingInv
  BY <1>4, <1>5, <1>6, <1>7 DEF DesksInv, CleanInv, PendingInv
<1>9. SwitchInv
  BY <1>1 DEF SwitchInv, Idle
<1>10. FoldersInv
  BY <1>1 DEF FoldersInv, Idle
<1>11. StoreInv
  BY <1>1 DEF StoreInv
<1> QED BY <1>3, <1>8, <1>9, <1>10, <1>11 DEF WbInv

LEMMA WbSteps ==
  ASSUME WbInv, WbNext
  PROVE  WbInv'
<1>1. WbTypes /\ DesksInv /\ CleanInv /\ PendingInv /\ SwitchInv /\ FoldersInv /\ StoreInv /\ Awaits(desk, path)
  BY DEF WbInv, PendingInv
<1>2. WbTypes'
  BY <1>1, TypesStep
<1>3. DesksInv' /\ CleanInv' /\ PendingInv'
  BY <1>1, DeskStep, EnterStep, RestartStep, DesksKept
<1>4. SwitchInv' /\ FoldersInv'
  <2>1. CASE Strip
    BY <1>1, <2>1, StripStep, BackendKept DEF IsStripStep, wbRest, backend
  <2> QED BY <1>1, <2>1, SwitchOfRequesting, SwitchOfStorage DEF WbNext
<1>5. StoreInv'
  <2>1. CASE Strip
    BY <1>1, <2>1, StripStep, StoreKept DEF IsStripStep, wbRest, stored
  <2> QED BY <1>1, <2>1, StoreOfRequesting, StoreOfStorage DEF WbNext
<1> QED BY <1>2, <1>3, <1>4, <1>5 DEF WbInv

LEMMA WbStutters ==
  ASSUME WbInv, UNCHANGED wbVars
  PROVE  WbInv'
<1>1. UNCHANGED <<desk, path, sessions, hydrated, folders, closed, last, sends, asking, saves, deletes,
                  switch, load, reload, open, disk, announced, drafts, isRestricted, crossed, overtaken>>
  BY DEF wbVars
<1>2. WbTypes'
  BY <1>1 DEF WbInv, WbTypes
<1>3. DesksInv' /\ CleanInv' /\ PendingInv'
  BY <1>1 DEF WbInv, DesksInv, CleanInv, PendingInv, Awaits
<1>4. SwitchInv' /\ FoldersInv' /\ StoreInv'
  BY <1>1 DEF WbInv, SwitchInv, FoldersInv, StoreInv
<1> QED BY <1>2, <1>3, <1>4 DEF WbInv

LEMMA WbInvariant == WbSpec => []WbInv
<1>1. WbInit => WbInv
  BY WbStarts
<1>2. WbInv /\ [WbNext]_wbVars => WbInv'
  BY WbSteps, WbStutters
<1> QED BY <1>1, <1>2, PTL DEF WbSpec

\* For any number of tabs, requests, workspaces and events: every strip, on screen, kept for
\* another workspace or written for a restart, has a tab, distinct ids and an active tab of
\* its own; a workspace has one kept strip; and a tab shows what is saved of its request,
\* through reloads, switches, saves and restarts, unless the user changed it or the model's
\* `apart' names the cause: a save from another tab, a renewed token, active content that a
\* load took out (appStore.js, workspaceSessions.js, tabReconcile.js).
THEOREM TabsStaySound == WbSpec => []TabsAreSound
<1>1. WbInv => TabsAreSound
  <2> SUFFICES ASSUME WbInv PROVE TabsAreSound
    OBVIOUS
  <2>1. DeskIsSound(desk) /\ SessionsAreSound(sessions) /\ DraftsAreSound(drafts) /\ CleanInv
    BY DEF WbInv, DesksInv
  <2>2. sessions \in Seq(Session) /\ Len(sessions) \in Nat /\ DOMAIN sessions = 1..Len(sessions)
    BY <2>1 DEF SessionsAreSound
  <2>3. desk.tabs \in Seq(Tab) /\ DOMAIN desk.tabs = 1..Len(desk.tabs)
    BY <2>1, DeskFields
  <2>4. \A d : DeskIsSound(d) => WellFormed(d)
    <3> SUFFICES ASSUME NEW d, DeskIsSound(d) PROVE WellFormed(d)
      OBVIOUS
    <3>1. d.tabs \in Seq(Tab) /\ IsStrip(d)
      BY DeskFields DEF DeskIsSound
    <3> QED BY <3>1, WellFormedIs
  <2>5. \A s \in Desks : WellFormed(s.desk)
    <3> SUFFICES ASSUME NEW s \in Desks PROVE DeskIsSound(s.desk)
      BY <2>4
    <3>1. CASE s = [path |-> path, desk |-> desk]
      BY <2>1, <3>1
    <3>2. CASE s \in Range(sessions)
      <4>1. PICK i \in 1..Len(sessions) : s = sessions[i]
        BY <2>2, <3>2 DEF Range
      <4> QED BY <2>1, <4>1 DEF SessionsAreSound
    <3> QED BY <3>1, <3>2 DEF Desks
  <2>6. WellFormed(drafts.desk)
    <3>1. drafts.desk.tabs \in Seq(KeptTab) /\ IsStrip(drafts.desk)
      BY <2>1 DEF DraftsAreSound, KeptIsSound, KeptDesk
    <3> QED BY <3>1, WellFormedIs
  <2>7. \A i, j \in 1..Len(sessions) : sessions[i].path = sessions[j].path => i = j
    BY <2>1 DEF SessionsAreSound, ArePlaces
  <2>8. Len(sessions) <= MaxSessions /\ (crossed \/ \A s \in Range(sessions) : s.path # path)
    BY <2>1, <2>2 DEF SessionsAreSound, CleanInv, AreElsewhere, Range
  <2>9. crossed \/ \A t \in Range(Tabs) :
                     SavedOf(t, desk.requests) \notin {None, t.text} => t.touched \/ t.apart
    <3> SUFFICES ASSUME ~crossed, NEW t \in Range(Tabs), SavedOf(t, desk.requests) \notin {None, t.text}
                 PROVE  t.touched \/ t.apart
      OBVIOUS
    <3>1. PICK i \in 1..Len(desk.tabs) : t = desk.tabs[i]
      BY <2>3 DEF Range, Tabs
    <3>2. IsClean(t, desk.requests)
      BY <2>1, <3>1 DEF CleanInv, DeskIsClean
    <3> QED BY <3>2 DEF IsClean, LastSaved, SavedOf
  <2> QED BY <2>5, <2>6, <2>7, <2>8, <2>9 DEF TabsAreSound
<1> QED BY <1>1, WbInvariant, PTL

\* For any number of workspaces and any order of saves, deletions, loads, reloads and
\* switches: once all are answered, the store holds what the open workspace holds, but for
\* the two windows named in the model; and no workspace's folders are ever written into
\* another (storageGate.js, storageActions.js, usePersistence).
THEOREM StoreFollowsDisk == WbSpec => []StoreMatchesDisk
<1>1. WbInv => StoreMatchesDisk
  <2> SUFFICES ASSUME WbInv PROVE StoreMatchesDisk
    OBVIOUS
  <2>1. SwitchInv /\ FoldersInv /\ StoreInv
    BY DEF WbInv
  <2>2. desk.requests \in [Rids -> Contents] /\ disk[open].requests \in [Rids -> Contents]
    BY DEF WbInv, DesksInv, DeskIsSound, Desk, Requests, WbTypes, WbData
  <2>3. ASSUME NothingUnderWay, ~crossed, ~overtaken PROVE path = open /\ desk.requests = disk[open].requests
    <3>1. path = open
      BY <2>1, <2>3 DEF NothingUnderWay, SwitchInv
    <3>2. \A r \in Rids : desk.requests[r] = disk[open].requests[r]
      BY <2>1, <2>3 DEF NothingUnderWay, StoreInv
    <3>3. desk.requests = disk[open].requests
      BY <2>2, <3>2
    <3> QED BY <3>1, <3>3
  <2>4. crossed \/ \A p \in Paths : disk[p].folders = p
    BY <2>1 DEF FoldersInv
  <2> QED BY <2>3, <2>4 DEF StoreMatchesDisk
<1> QED BY <1>1, WbInvariant, PTL

\* For any number of sends and workspaces: no tab shows a response that is not its own, or
\* the last one of the request it opens, although the ids of tabs start at 1 in every
\* workspace and answers come in any order (finishTabRequest's pendingId).
THEOREM ResponsesStayOwn == WbSpec => ResponsesAreOwn
<1> DEFINE Own == path' = path => \A t \in Range(Tabs') :
                    \/ t.resp = 0
                    \/ \E u \in Range(Tabs) : u.id = t.id /\ u.resp = t.resp
                    \/ sends[t.resp].tab = t.id /\ sends[t.resp].path = path
                    \/ t.rid # None /\ last[t.rid] = t.resp
<1>1. WbInv /\ WbNext => Own
  <2> SUFFICES ASSUME WbInv, WbNext, path' = path, NEW t \in Range(Tabs')
               PROVE  \/ t.resp = 0
                      \/ \E u \in Range(Tabs) : u.id = t.id /\ u.resp = t.resp
                      \/ sends[t.resp].tab = t.id /\ sends[t.resp].path = path
                      \/ t.rid # None /\ last[t.rid] = t.resp
    OBVIOUS
  <2>1. WbTypes /\ DesksInv /\ CleanInv /\ SwitchInv /\ Awaits(desk, path) /\ DesksInv'
    BY WbSteps DEF WbInv, PendingInv
  <2>2. DOMAIN desk.tabs = 1..Len(desk.tabs) /\ DOMAIN desk'.tabs = 1..Len(desk'.tabs)
    <3>1. DeskIsSound(desk) /\ DeskIsSound(desk')
      BY <2>1 DEF DesksInv
    <3>2. desk.tabs \in Seq(Tab) /\ desk'.tabs \in Seq(Tab)
      BY <3>1, DeskFields
    <3> QED BY <3>2
  <2>3. PICK i \in 1..Len(desk'.tabs) : t = desk'.tabs[i]
    BY <2>2 DEF Range, Tabs
  <2>4. CASE IsDeskStep
    <3>1. \A j \in 1..Len(desk.tabs) : desk.tabs[j] \in Range(Tabs)
      BY <2>2 DEF Range, Tabs
    <3> QED BY <2>3, <2>4, <3>1 DEF IsDeskStep, Owns
  <2>5. CASE EnterWorkspace
    BY <2>1, <2>5 DEF EnterWorkspace, SwitchInv
  <2>6. CASE Restart
    <3>1. PICK kept \in {drafts, Drafts} : desk' = RestoreDesk(kept.desk)
      BY <2>6 DEF Restart
    <3>2. KeptIsSound(kept.desk)
      BY <2>1, <3>1, DraftsWritten DEF DesksInv, DraftsAreSound
    <3> QED BY <2>3, <3>1, <3>2, RestoreIsSound
  <2> QED BY <2>1, <2>4, <2>5, <2>6, DeskStep
<1>2. WbInv /\ [WbNext]_wbVars => [Own]_wbVars
  BY <1>1
<1> QED BY <1>2, WbInvariant, PTL DEF WbSpec, ResponsesAreOwn

\* the text of a draft is in a strip of desks the next state holds
LEMMA DraftAt ==
  ASSUME NEW e, DeskIsSound(e), NEW t, NEW p, \E j \in 1..Len(e.tabs) : e.tabs[j].id = t.id /\ e.tabs[j].text = t.text
  PROVE  HasDraft([path |-> p, desk |-> e], t) /\ \A s : s.desk = e => HasDraft(s, t)
<1>1. e.tabs \in Seq(Tab)
  BY DeskFields
<1>2. \A j \in 1..Len(e.tabs) : e.tabs[j] \in Range(e.tabs)
  BY <1>1 DEF Range
<1> QED BY <1>2 DEF HasDraft

LEMMA DesksNext ==
  ASSUME DesksInv
  PROVE  /\ [path |-> path, desk |-> desk] \in Desks
         /\ \A i \in 1..Len(sessions) : sessions[i] \in Desks
         /\ \A s \in Desks : s = [path |-> path, desk |-> desk] \/ \E i \in 1..Len(sessions) : s = sessions[i]
         /\ \A s \in Desks : s.path \in Paths \/ s.path = path
         /\ \A s \in Desks : DeskIsSound(s.desk)
<1>1. sessions \in Seq(Session) /\ SessionsAreSound(sessions) /\ DeskIsSound(desk)
  BY DEF DesksInv, SessionsAreSound
<1>2. DOMAIN sessions = 1..Len(sessions) /\ \A i \in 1..Len(sessions) : sessions[i] \in Session
  BY <1>1, ElementOfSeq
<1>3. Range(sessions) = {sessions[i] : i \in 1..Len(sessions)}
  BY <1>2 DEF Range
<1>4. \A s \in Desks : s = [path |-> path, desk |-> desk] \/ \E i \in 1..Len(sessions) : s = sessions[i]
  BY <1>3 DEF Desks
<1>5. \A i \in 1..Len(sessions) : sessions[i] \in Desks
  BY <1>3 DEF Desks
<1>6. \A s \in Desks : (s.path \in Paths \/ s.path = path) /\ DeskIsSound(s.desk)
  <2> TAKE s \in Desks
  <2>1. CASE s = [path |-> path, desk |-> desk]
    BY <1>1, <2>1
  <2>2. ASSUME NEW i \in 1..Len(sessions), s = sessions[i] PROVE (s.path \in Paths \/ s.path = path) /\ DeskIsSound(s.desk)
    BY <1>1, <1>2, <2>2 DEF Session, SessionsAreSound
  <2> QED BY <1>4, <2>1, <2>2
<1> QED BY <1>4, <1>5, <1>6 DEF Desks

\* the draft t of s is still in a strip of its workspace
Stays(s, t) == \E next \in Desks' : next.path = s.path /\ HasDraft(next, t)

LEMMA StaysOnScreen ==
  ASSUME DesksInv', NEW s, NEW t, path' = s.path,
         \E j \in 1..Len(desk'.tabs) : desk'.tabs[j].id = t.id /\ desk'.tabs[j].text = t.text
  PROVE  Stays(s, t)
<1> DEFINE next == [path |-> path', desk |-> desk']
<1>1. next \in Desks'
  BY DEF Desks
<1>2. DeskIsSound(desk')
  BY DEF DesksInv
<1>3. HasDraft(next, t) /\ next.path = s.path
  BY <1>2, DraftAt
<1> QED BY <1>1, <1>3 DEF Stays

LEMMA StaysKept ==
  ASSUME DesksInv', NEW s, NEW t, NEW k \in 1..Len(sessions'), sessions'[k].path = s.path,
         \E j \in 1..Len(sessions'[k].desk.tabs) : /\ sessions'[k].desk.tabs[j].id = t.id
                                                   /\ sessions'[k].desk.tabs[j].text = t.text
  PROVE  Stays(s, t)
<1> DEFINE next == sessions'[k]
<1>1. sessions' \in Seq(Session) /\ DeskIsSound(next.desk)
  BY DEF DesksInv, SessionsAreSound
<1>2. next \in Desks'
  BY <1>1 DEF Desks, Range
<1>3. HasDraft(next, t)
  BY <1>1, DraftAt
<1> QED BY <1>2, <1>3 DEF Stays

\* a draft of a strip is a tab of it
LEMMA DraftsPlace ==
  ASSUME DesksInv, NEW s \in Desks, NEW t \in Range(s.desk.tabs)
  PROVE  \E j \in 1..Len(s.desk.tabs) : s.desk.tabs[j] = t
<1>1. DeskIsSound(s.desk)
  BY DesksNext
<1>2. s.desk.tabs \in Seq(Tab)
  BY <1>1, DeskFields
<1> QED BY <1>2 DEF Range

LEMMA DraftsOnDesk ==
  ASSUME WbInv, DesksInv', IsDeskStep, NEW s \in Desks, NEW t \in Range(s.desk.tabs), IsDraft(t, s.desk)
  PROVE  \/ Stays(s, t)
         \/ s.path = path /\ s.desk = desk /\ LetsGo(t)
         \/ LeaveWorkspace(s.path)
<1>1. DesksInv
  BY DEF WbInv
<1>2. PICK j \in 1..Len(s.desk.tabs) : s.desk.tabs[j] = t
  BY <1>1, DraftsPlace
<1>3. CASE s = [path |-> path, desk |-> desk]
  <2>1. s.desk = desk /\ s.path = path /\ path' = path /\ (KeepsDrafts(desk, desk') \/ DraftsStay)
    BY <1>3 DEF IsDeskStep
  <2>2. (\E k \in 1..Len(desk'.tabs) : desk'.tabs[k].id = t.id /\ desk'.tabs[k].text = t.text) \/ LetsGo(t)
    <3>1. CASE KeepsDrafts(desk, desk')
      BY <1>2, <2>1, <3>1 DEF KeepsDrafts
    <3>2. CASE DraftsStay
      <4>1. j \in 1..Len(desk.tabs) /\ desk.tabs[j] = t /\ IsDraft(desk.tabs[j], desk)
        BY <1>2, <2>1
      <4>2. \/ \E k \in 1..Len(desk'.tabs) : desk'.tabs[k].id = desk.tabs[j].id /\ desk'.tabs[k].text = desk.tabs[j].text
            \/ LetsGo(desk.tabs[j])
        BY <3>2, <4>1 DEF DraftsStay
      <4> QED BY <4>1, <4>2
    <3> QED BY <2>1, <3>1, <3>2
  <2> QED BY <2>1, <2>2, StaysOnScreen
<1>4. ASSUME NEW i \in 1..Len(sessions), s = sessions[i] PROVE Stays(s, t) \/ LeaveWorkspace(s.path)
  <2>1. CASE sessions' = sessions
    BY <1>2, <1>4, <2>1, StaysKept
  <2>2. ASSUME NEW p \in Paths, sessions' = OtherSessions(p), LeaveWorkspace(p)
        PROVE  Stays(s, t) \/ LeaveWorkspace(s.path)
    <3>1. CASE s.path = p
      BY <2>2, <3>1
    <3>2. CASE s.path # p
      <4>1. sessions \in Seq(Session) /\ ArePlaces(sessions)
        BY <1>1 DEF DesksInv, SessionsAreSound
      <4>2. \E k \in 1..Len(OtherSessions(p)) : OtherSessions(p)[k] = sessions[i]
        BY <1>4, <3>2, <4>1, OnlySessions
      <4>3. PICK k \in 1..Len(sessions') : sessions'[k] = s
        BY <1>4, <2>2, <4>2
      <4> QED BY <1>2, <4>3, StaysKept
    <3> QED BY <3>1, <3>2
  <2> QED BY <2>1, <2>2 DEF IsDeskStep
<1> QED BY <1>1, <1>3, <1>4, DesksNext

LEMMA DraftsOnEntering ==
  ASSUME WbInv, DesksInv', EnterWorkspace, NEW s \in Desks, NEW t \in Range(s.desk.tabs), IsDraft(t, s.desk)
  PROVE  \/ Stays(s, t)
         \/ Len(sessions) = MaxSessions
         \/ crossed /\ \E k \in Range(sessions) : k.path = path
<1> DEFINE to == switch.to
           c == [path |-> path, desk |-> desk]
           O == OtherSessions(to)
           w == WithSession(O, c)
<1> SUFFICES ASSUME Len(sessions) # MaxSessions, ~(crossed /\ \E k \in Range(sessions) : k.path = path)
             PROVE  Stays(s, t)
  OBVIOUS
<1>1. /\ path' = to /\ sessions' = Newest(w)
      /\ desk' = IF SessionOf(to) = <<>> THEN FreshDesk ELSE SessionOf(to)[1].desk
  BY DEF EnterWorkspace
<1>2. /\ sessions \in Seq(Session) /\ ArePlaces(sessions) /\ Len(sessions) <= MaxSessions /\ desk \in Desk /\ path \in Paths
      /\ DesksInv /\ CleanInv
  BY DEF WbInv, WbTypes, DesksInv, SessionsAreSound, DeskIsSound
<1>3. c \in Session /\ c.path = path /\ c.desk = desk
  BY <1>2 DEF Session
<1>4. /\ SessionOf(to) \in Seq(Session) /\ O \in Seq(Session) /\ Len(O) <= Len(sessions)
      /\ IsFrom(SessionOf(to), sessions)
      /\ \A k \in 1..Len(SessionOf(to)) : SessionOf(to)[k].path = to
      /\ \A i \in 1..Len(sessions) :
           IF sessions[i].path = to THEN \E k \in 1..Len(SessionOf(to)) : SessionOf(to)[k] = sessions[i]
           ELSE \E k \in 1..Len(O) : O[k] = sessions[i]
  BY <1>2, OnlySessions
<1>5. PICK j \in 1..Len(s.desk.tabs) : s.desk.tabs[j] = t
  BY <1>2, DraftsPlace
<1> HIDE DEF O, c
<1>6. /\ w \in Seq(Session) /\ Len(w) <= Len(O) + 1
      /\ \E k \in 1..Len(w) : w[k] = c
      /\ \A i \in 1..Len(O) : O[i].path = c.path \/ \E k \in 1..Len(w) : w[k] = O[i]
  BY <1>3, <1>4, SessionAdded
<1> HIDE DEF w
<1>7. sessions' = w
  <2>1. Len(w) \in Nat /\ Len(O) \in Nat /\ Len(sessions) \in Nat /\ MaxSessions \in Nat
    BY <1>2, <1>4, <1>6, WorkbenchAssumption
  <2>2. Len(w) <= MaxSessions
    BY <1>2, <1>4, <1>6, <2>1
  <2> QED BY <1>1, <1>6, <2>2, NewestIs
<1>8. CASE s = c
  <2>1. PICK k \in 1..Len(sessions') : sessions'[k] = s
    BY <1>6, <1>7, <1>8
  <2> QED BY <1>5, <2>1, StaysKept
<1>9. ASSUME NEW i \in 1..Len(sessions), s = sessions[i], s.path = to PROVE Stays(s, t)
  <2>1. 1 \in 1..Len(SessionOf(to)) /\ SessionOf(to) # <<>>
    BY <1>4, <1>9
  <2>2. PICK n \in 1..Len(sessions) : SessionOf(to)[1] = sessions[n]
    BY <1>4, <2>1 DEF IsFrom
  <2>3. n = i
    BY <1>2, <1>4, <1>9, <2>1, <2>2 DEF ArePlaces
  <2>4. desk' = s.desk
    BY <1>1, <1>9, <2>1, <2>2, <2>3
  <2> QED BY <1>1, <1>5, <1>9, <2>4, StaysOnScreen
<1>10. ASSUME NEW i \in 1..Len(sessions), s = sessions[i], s.path # to PROVE Stays(s, t)
  <2>1. PICK k \in 1..Len(O) : O[k] = s
    BY <1>4, <1>10
  <2>2. s.path # path
    <3>1. s \in Range(sessions)
      BY <1>2, <1>10 DEF Range
    <3>2. CASE crossed
      BY <3>1, <3>2
    <3>3. CASE ~crossed
      BY <1>2, <1>10, <3>3 DEF CleanInv, AreElsewhere
    <3> QED BY <3>2, <3>3
  <2>3. PICK n \in 1..Len(sessions') : sessions'[n] = s
    BY <1>3, <1>6, <1>7, <2>1, <2>2
  <2> QED BY <1>5, <2>3, StaysKept
<1> QED BY <1>2, <1>8, <1>9, <1>10, DesksNext DEF c

\* what the drafts k say of the strip of s
Written(k, s, t) ==
  \/ k.path = s.path /\ \E j \in 1..Len(k.desk.tabs) : k.desk.tabs[j].id = t.id /\ k.desk.tabs[j].text = t.text
  \/ \E i \in 1..Len(k.sessions) :
       /\ k.sessions[i].path = s.path
       /\ \E j \in 1..Len(k.sessions[i].desk.tabs) : /\ k.sessions[i].desk.tabs[j].id = t.id
                                                     /\ k.sessions[i].desk.tabs[j].text = t.text

Kept(k) == Range(k.sessions) \cup {[path |-> k.path, desk |-> k.desk]}

LEMMA WrittenIs ==
  ASSUME NEW k, DraftsAreSound(k), NEW s, NEW t, \E x \in Kept(k) : x.path = s.path /\ HasDraft(x, t)
  PROVE  Written(k, s, t)
<1>1. k.sessions \in Seq(KeptSession) /\ k.desk.tabs \in Seq(KeptTab)
  BY DEF DraftsAreSound, KeptDesk
<1>2. PICK x \in Kept(k) : x.path = s.path /\ HasDraft(x, t)
  OBVIOUS
<1>3. PICK u \in Range(x.desk.tabs) : u.id = t.id /\ u.text = t.text
  BY <1>2 DEF HasDraft
<1>4. CASE x = [path |-> k.path, desk |-> k.desk]
  <2>1. x.path = k.path /\ x.desk = k.desk
    BY <1>4
  <2>2. PICK j \in 1..Len(k.desk.tabs) : u = k.desk.tabs[j]
    BY <1>1, <1>3, <2>1 DEF Range
  <2> QED BY <1>2, <1>3, <2>1, <2>2 DEF Written
<1>5. CASE x \in Range(k.sessions)
  <2>1. PICK i \in 1..Len(k.sessions) : x = k.sessions[i]
    BY <1>1, <1>5 DEF Range
  <2>2. x.desk.tabs \in Seq(KeptTab)
    <3>1. KeptIsSound(k.sessions[i].desk)
      BY <2>1 DEF DraftsAreSound
    <3> QED BY <2>1, <3>1 DEF KeptIsSound, KeptDesk
  <2>3. PICK j \in 1..Len(x.desk.tabs) : u = x.desk.tabs[j]
    BY <1>3, <2>2 DEF Range
  <2> QED BY <1>2, <1>3, <2>1, <2>3 DEF Written
<1> QED BY <1>4, <1>5 DEF Kept

LEMMA DraftsAreWritten ==
  ASSUME WbTypes, DesksInv, NEW s \in Desks, NEW t \in Range(s.desk.tabs), IsDraft(t, s.desk)
  PROVE  Written(Drafts, s, t)
<1>1. PICK j \in 1..Len(s.desk.tabs) : s.desk.tabs[j] = t
  BY DraftsPlace
<1>2. DeskIsSound(s.desk)
  BY DesksNext
<1>3. HasDraftsOf(Persistable(s.desk), s.desk)
  BY <1>2, PersistIsSound
<1>4. \E n \in 1..Len(Persistable(s.desk).tabs) : /\ Persistable(s.desk).tabs[n].id = t.id
                                                  /\ Persistable(s.desk).tabs[n].text = t.text
  BY <1>1, <1>3 DEF HasDraftsOf
<1>5. CASE s = [path |-> path, desk |-> desk]
  <2>1. s.path = path /\ s.desk = desk
    BY <1>5
  <2>2. Drafts.path = s.path /\ Drafts.desk = Persistable(s.desk)
    BY <2>1, DraftsWritten
  <2> QED BY <1>4, <2>2 DEF Written
<1>6. ASSUME NEW i \in 1..Len(sessions), s = sessions[i] PROVE Written(Drafts, s, t)
  <2>1. i \in 1..Len(Drafts.sessions) /\ Drafts.sessions[i].path = s.path /\ Drafts.sessions[i].desk = Persistable(s.desk)
    BY <1>6, DraftsWritten
  <2> QED BY <1>4, <2>1 DEF Written
<1> QED BY <1>5, <1>6, DesksNext

LEMMA DraftsOnRestart ==
  ASSUME WbInv, DesksInv', Restart, NEW s \in Desks, NEW t \in Range(s.desk.tabs), IsDraft(t, s.desk)
  PROVE  \/ Stays(s, t)
         \/ crossed' /\ \E next \in Desks' : HasDraft(next, t)
         \/ ~\E k \in Kept(drafts) : k.path = s.path /\ HasDraft(k, t)
<1>1. PICK kept \in {drafts, Drafts} :
        /\ desk' = RestoreDesk(kept.desk)
        /\ sessions' = [i \in 1..Len(kept.sessions) |->
                          [path |-> kept.sessions[i].path, desk |-> RestoreDesk(kept.sessions[i].desk)]]
        /\ drafts' = kept
        /\ crossed' = (crossed \/ kept.path # open)
  BY DEF Restart
<1>2. path' = open
  BY DEF Restart
<1>3. WbTypes /\ DesksInv
  BY DEF WbInv
<1>4. DraftsAreSound(kept)
  BY <1>1, <1>3, DraftsWritten DEF DesksInv
<1> SUFFICES ASSUME \E k \in Kept(drafts) : k.path = s.path /\ HasDraft(k, t)
             PROVE  Stays(s, t) \/ (crossed' /\ \E next \in Desks' : HasDraft(next, t))
  OBVIOUS
<1>5. Written(kept, s, t)
  <2>1. CASE kept = drafts
    BY <1>4, <2>1, WrittenIs
  <2>2. CASE kept = Drafts
    BY <1>3, <2>2, DraftsAreWritten
  <2> QED BY <1>1, <2>1, <2>2
<1>6. CASE kept.path = s.path /\ \E j \in 1..Len(kept.desk.tabs) : kept.desk.tabs[j].id = t.id /\ kept.desk.tabs[j].text = t.text
  <2>1. KeptIsSound(kept.desk)
    BY <1>4 DEF DraftsAreSound
  <2>2. /\ Len(desk'.tabs) = Len(kept.desk.tabs)
        /\ \A i \in 1..Len(kept.desk.tabs) : desk'.tabs[i].id = kept.desk.tabs[i].id /\ desk'.tabs[i].text = kept.desk.tabs[i].text
    BY <1>1, <2>1, RestoreIsSound
  <2>3. \E j \in 1..Len(desk'.tabs) : desk'.tabs[j].id = t.id /\ desk'.tabs[j].text = t.text
    BY <1>6, <2>2
  <2>4. CASE kept.path = open
    BY <1>2, <1>6, <2>3, <2>4, StaysOnScreen
  <2>5. CASE kept.path # open
    <3>1. crossed'
      BY <1>1, <2>5
    <3>2. DeskIsSound(desk')
      BY DEF DesksInv
    <3>3. HasDraft([path |-> path', desk |-> desk'], t)
      BY <2>3, <3>2, DraftAt
    <3>4. [path |-> path', desk |-> desk'] \in Desks'
      BY DEF Desks
    <3> QED BY <3>1, <3>3, <3>4
  <2> QED BY <2>4, <2>5
<1>7. ASSUME NEW i \in 1..Len(kept.sessions), kept.sessions[i].path = s.path,
             \E j \in 1..Len(kept.sessions[i].desk.tabs) : /\ kept.sessions[i].desk.tabs[j].id = t.id
                                                           /\ kept.sessions[i].desk.tabs[j].text = t.text
      PROVE  Stays(s, t)
  <2>1. KeptIsSound(kept.sessions[i].desk)
    BY <1>4 DEF DraftsAreSound
  <2>2. Len(kept.sessions) \in Nat
    BY <1>4 DEF DraftsAreSound
  <2>3. sessions'[i].path = s.path /\ sessions'[i].desk = RestoreDesk(kept.sessions[i].desk)
    BY <1>1, <1>7
  <2>4. Len(sessions') = Len(kept.sessions)
    <3>1. DOMAIN sessions' = 1..Len(kept.sessions)
      BY <1>1
    <3>2. sessions' \in Seq(Session)
      BY DEF DesksInv, SessionsAreSound
    <3> QED BY <2>2, <3>1, <3>2
  <2>5. /\ Len(sessions'[i].desk.tabs) = Len(kept.sessions[i].desk.tabs)
        /\ \A j \in 1..Len(kept.sessions[i].desk.tabs) :
             /\ sessions'[i].desk.tabs[j].id = kept.sessions[i].desk.tabs[j].id
             /\ sessions'[i].desk.tabs[j].text = kept.sessions[i].desk.tabs[j].text
    BY <2>1, <2>3, RestoreIsSound
  <2>6. \E j \in 1..Len(sessions'[i].desk.tabs) : /\ sessions'[i].desk.tabs[j].id = t.id
                                                  /\ sessions'[i].desk.tabs[j].text = t.text
    BY <1>7, <2>5
  <2> QED BY <1>7, <2>3, <2>4, <2>6, StaysKept
<1> QED BY <1>5, <1>6, <1>7 DEF Written

\* For any number of tabs, drafts, workspaces and events: unsaved text stays in a tab of its
\* workspace through reloads, saves, deletions, switches and restarts, unless the user gives
\* up that very tab or removes its workspace, a load after a restricted folder leaves its
\* plain part, the end of a send has replaced its token, the limit of kept workspaces is
\* reached, it was not yet written when the app ended, or a restart during a switch brought
\* it back in the other workspace (tabReconcile.js, tabsWithOpened, setToken, enterWorkspace,
\* persistableTab).
THEOREM DraftsStayKept == WbSpec => DraftsAreKept
<1> DEFINE Keeps ==
      \A s \in Desks : \A t \in Range(s.desk.tabs) :
       IsDraft(t, s.desk) =>
         \/ \E next \in Desks' : next.path = s.path /\ HasDraft(next, t)
         \/ s.path = path /\ s.desk = desk /\ (UserGivesUp(t) \/ IsStripped(t) \/ IsRenewed(t))
         \/ LeaveWorkspace(s.path)
         \/ Restart /\ crossed' /\ \E next \in Desks' : HasDraft(next, t)
         \/ Restart /\ ~\E k \in Range(drafts.sessions) \cup {[path |-> drafts.path, desk |-> drafts.desk]} :
                          k.path = s.path /\ HasDraft(k, t)
         \/ EnterWorkspace /\ Len(sessions) = MaxSessions
         \/ EnterWorkspace /\ crossed /\ \E k \in Range(sessions) : k.path = path
<1>1. WbInv /\ WbNext => Keeps
  <2> SUFFICES ASSUME WbInv, WbNext, NEW s \in Desks, NEW t \in Range(s.desk.tabs), IsDraft(t, s.desk)
               PROVE  \/ Stays(s, t)
                      \/ s.path = path /\ s.desk = desk /\ LetsGo(t)
                      \/ LeaveWorkspace(s.path)
                      \/ Restart /\ crossed' /\ \E next \in Desks' : HasDraft(next, t)
                      \/ Restart /\ ~\E k \in Kept(drafts) : k.path = s.path /\ HasDraft(k, t)
                      \/ EnterWorkspace /\ Len(sessions) = MaxSessions
                      \/ EnterWorkspace /\ crossed /\ \E k \in Range(sessions) : k.path = path
    BY DEF Stays, Kept, LetsGo
  <2>1. WbTypes /\ DesksInv /\ Awaits(desk, path) /\ DesksInv'
    BY WbSteps DEF WbInv, PendingInv
  <2>2. IsDeskStep \/ EnterWorkspace \/ Restart
    BY <2>1, DeskStep
  <2>3. CASE IsDeskStep
    BY <2>1, <2>3, DraftsOnDesk
  <2>4. CASE EnterWorkspace
    BY <2>1, <2>4, DraftsOnEntering
  <2>5. CASE Restart
    BY <2>1, <2>5, DraftsOnRestart
  <2> QED BY <2>2, <2>3, <2>4, <2>5
<1>2. WbInv /\ [WbNext]_wbVars => [Keeps]_wbVars
  BY <1>1
<1> QED BY <1>2, WbInvariant, PTL DEF WbSpec, DraftsAreKept

-----------------------------------------------------------------------------
(***************************************************************************)
(* The document of the web app                                             *)
(***************************************************************************)

Documents == [kind : {"document"}, of : Data]

JobSet ==
    [kind : {"save"}, field : Fields, id : Nat] \union [kind : {"load", "reset"}]
    \union [kind : {"restore"}, text : Documents]

Steps == {"idle", "copying", "copied", "setting aside", "writing", "written"}

WindowRecords ==
    [records : {"unopened", "database", "local"}, usedDatabase : BOOLEAN, cached : StoreTexts,
     jobs : Seq(JobSet), step : Steps, held : StoreTexts, isRestoring : BOOLEAN,
     isLoaded : BOOLEAN]

(* What a window is busy with is the first of its jobs. *)
IsFormed(x) ==
    /\ x.records = "unopened" =>
        x.jobs = <<>> /\ x.cached = Null /\ ~x.isLoaded /\ x.step \in {"idle", "copying", "copied"}
    /\ x.step \in {"copying", "copied"} => x.records = "unopened" /\ x.held # Null
    /\ x.step \in {"setting aside", "writing", "written"} => x.jobs # <<>>
    /\ x.step = "setting aside" => Head(x.jobs).kind = "load" /\ x.held = Damaged
    /\ x.step \in {"writing", "written"} =>
        /\ x.held \in Documents
        /\ Head(x.jobs).kind \in {"save", "load", "restore"}
        /\ Head(x.jobs).kind = "restore" => x.held = Head(x.jobs).text /\ x.cached = Null

WindowSet == {x \in WindowRecords : IsFormed(x)}

BudgetSet == [saves : Nat, loads : Nat, restores : Nat, resets : Nat,
              failures : Nat, closes : Nat, refusals : Nat]

Kind(w) == Head(windows[w].jobs).kind

WebTypes ==
    /\ windows \in [Windows -> WindowSet]
    /\ database \in StoreTexts /\ local \in StoreTexts
    /\ isLocated \in BOOLEAN
    /\ legacy \in {Null} \union Documents
    /\ snapshots \in Seq(StoreTexts) /\ Len(snapshots) <= KeptSnapshots
    /\ storeBudget \in BudgetSet
    /\ accepted \in Data
    /\ backups \in Nat
    /\ isExcused \in BOOLEAN

(* At most one window is busy. *)
OneIsBusy == \A v, w \in Windows : IsIdle(v) \/ IsIdle(w) \/ v = w

(* All windows work in one place.  While one works in the database there   *)
(* is no text in local storage; while one works in local storage, or opens *)
(* before the data was moved, a text in the database is not the only one.  *)
PlaceInv ==
    /\ \A v, w \in Windows : IsOpen(v) /\ IsOpen(w) => windows[v].records = windows[w].records
    /\ \A w \in Windows : windows[w].records = "database" => local = Null /\ isLocated
    /\ \A w \in Windows : windows[w].records = "local" /\ local = Null => database = Null
    /\ ~isLocated /\ local = Null => database = Null
    /\ \A w \in Windows : windows[w].step \in {"copying", "copied"} =>
        /\ windows[w].held = local
        /\ \A v \in Windows : ~IsOpen(v)

MaySave(w) == windows[w].isLoaded \/ \E i \in DOMAIN windows[w].jobs : windows[w].jobs[i].kind # "load"

(* A window that may save has found the document, or there is none. *)
LoadedInv == \A w \in Windows : IsOpen(w) /\ MaySave(w) => TextFor(w) # Null \/ legacy = Null

(* What the first job of a window will store. *)
SavedData(w) == [accepted EXCEPT ![Head(windows[w].jobs).field] = Head(windows[w].jobs).id]

WritesTrue(w) ==
    /\ windows[w].step = "writing" /\ Kind(w) = "save" =>
        /\ windows[w].held.of = SavedData(w)
        /\ TextFor(w) # Damaged
        /\ IsDocument(windows[w].cached) => windows[w].cached = windows[w].held
    /\ windows[w].step = "writing" /\ Kind(w) = "load" => windows[w].held.of = accepted
    /\ windows[w].step = "setting aside" => TextFor(w) = Damaged
    /\ windows[w].step = "written" => TextFor(w) = windows[w].held /\ windows[w].held.of = accepted

WritesInv == \A w \in Windows : WritesTrue(w)

(* Another window has stored a change and has not told of it yet. *)
NewsAreDue(w) == w \in inbox \/ \E v \in Others(w) : windows[v].step = "written"

CachedTrue(w) ==
    IsDocument(windows[w].cached) =>
        /\ TextFor(w) # Damaged
        /\ \/ windows[w].cached.of = accepted
           \/ NewsAreDue(w)
           \/ windows[w].step = "writing" /\ Kind(w) = "save"

CachedInv == \A w \in Windows : CachedTrue(w)

StoredParts == OneIsBusy /\ PlaceInv /\ LoadedInv /\ WritesInv /\ CachedInv /\ Effective.of = accepted

StoredInv == ~isExcused => StoredParts

(* The k-th backup since a text was replaced has pushed it k places down. *)
IsKept(r) ==
    \/ r.text \in aside
    \/ backups - r.since >= KeptSnapshots
    \/ /\ backups - r.since + 1 \in DOMAIN snapshots
       /\ snapshots[backups - r.since + 1] = r.text

(* The text a window is about to replace is kept. *)
BackedUp(w) ==
    windows[w].step = "writing" =>
        /\ Kind(w) = "restore" /\ TextFor(w) # Null => snapshots # <<>> /\ snapshots[1] = TextFor(w)
        /\ Kind(w) = "load" /\ TextFor(w) = Damaged => Damaged \in aside

ReplacedInv ==
    /\ \A r \in replaced : r.since \in Nat /\ r.since <= backups
    /\ ~isExcused => (\A r \in replaced : IsKept(r)) /\ \A w \in Windows : BackedUp(w)

WebInv == WebTypes /\ StoredInv /\ ReplacedInv

-----------------------------------------------------------------------------
(* Texts, jobs and windows.                                                *)

(* A text is null, damaged or a document, whose data the save functions    *)
(* change one field at a time.                                             *)
LEMMA TextFacts ==
    /\ Null \in StoreTexts /\ Damaged \in StoreTexts /\ Documents \subseteq StoreTexts
    /\ NoData \in Data /\ Null.of = NoData /\ Damaged.of = NoData
    /\ Null # Damaged /\ Null \notin Documents /\ Damaged \notin Documents
    /\ \A t \in StoreTexts : IsDocument(t) <=> t \in Documents
    /\ \A t \in StoreTexts : t = Null \/ t = Damaged \/ t \in Documents
    /\ \A t \in StoreTexts : t.of \in Data
    /\ \A d \in Data : Document(d) \in Documents /\ Document(d).of = d
    /\ \A d \in Data, f \in Fields, n \in Nat : [d EXCEPT ![f] = n] \in Data
  <1>1. NoData \in Data
    BY DEF NoData, Data
  <1>2. /\ Null.of = NoData /\ Damaged.of = NoData /\ Null.kind = "null" /\ Damaged.kind = "damaged"
    BY DEF Null, Damaged
  <1>3. \A t \in Documents : t.kind = "document" /\ t.of \in Data
    BY DEF Documents
  <1>4. StoreTexts = {Null, Damaged} \union Documents
    BY DEF StoreTexts, Documents
  <1>5. \A d \in Data : Document(d) \in Documents /\ Document(d).of = d
    BY DEF Documents, Document
  <1>6. \A d \in Data, f \in Fields, n \in Nat : [d EXCEPT ![f] = n] \in Data
    BY DEF Data
  <1> QED BY <1>1, <1>2, <1>3, <1>4, <1>5, <1>6 DEF IsDocument

(* What each kind of job carries. *)
LEMMA JobFacts ==
    /\ \A j \in JobSet : j.kind \in {"save", "load", "reset", "restore"}
    /\ \A j \in JobSet : j.kind = "save" => j.field \in Fields /\ j.id \in Nat
    /\ \A j \in JobSet : j.kind = "restore" => j.text \in Documents
    /\ \A f \in Fields, n \in Nat : [kind |-> "save", field |-> f, id |-> n] \in JobSet
    /\ [kind |-> "load"] \in JobSet /\ [kind |-> "reset"] \in JobSet
    /\ \A t \in Documents : [kind |-> "restore", text |-> t] \in JobSet
  BY DEF JobSet

(* A window nobody has opened. *)
LEMMA ClosedIsFormed ==
    /\ ClosedWindow \in WindowSet
    /\ ClosedWindow.records = "unopened" /\ ClosedWindow.step = "idle" /\ ClosedWindow.cached = Null
    /\ ClosedWindow.jobs = <<>> /\ ~ClosedWindow.isLoaded
  <1>1. /\ ClosedWindow.records = "unopened" /\ ClosedWindow.step = "idle" /\ ClosedWindow.cached = Null
        /\ ClosedWindow.jobs = <<>> /\ ~ClosedWindow.isLoaded
    BY DEF ClosedWindow
  <1>2. ClosedWindow \in WindowRecords
    BY TextFacts DEF ClosedWindow, WindowRecords, Steps
  <1> QED BY <1>1, <1>2 DEF WindowSet, IsFormed

(* A step of one window leaves the others as they are. *)
LEMMA OneWindowMoves ==
    ASSUME windows \in [Windows -> WindowSet], NEW w \in Windows, NEW x \in WindowSet,
           Becomes(w, x)
    PROVE  /\ windows' \in [Windows -> WindowSet] /\ windows'[w] = x
           /\ \A v \in Windows : v # w => windows'[v] = windows[v]
  BY DEF Becomes

-----------------------------------------------------------------------------
(* Types.                                                                  *)

(* Every budget is spent one at a time. *)
LEMMA SpendsType ==
    ASSUME storeBudget \in BudgetSet,
           NEW what \in {"saves", "loads", "restores", "resets", "failures", "closes", "refusals"},
           Spends(what)
    PROVE  storeBudget' \in BudgetSet
  BY DEF Spends, BudgetSet

-----------------------------------------------------------------------------
(* What each action does to its window.                                    *)

(* Window w takes these values, and the others stay. *)
Moves(w, records, cached, jobs, step, held, loaded) ==
    /\ windows' \in [Windows -> WindowSet]
    /\ \A v \in Windows : v # w => windows'[v] = windows[v]
    /\ windows'[w].records = records /\ windows'[w].cached = cached /\ windows'[w].jobs = jobs
    /\ windows'[w].step = step /\ windows'[w].held = held /\ windows'[w].isLoaded = loaded

LEMMA WindowFacts ==
    ASSUME NEW x \in WindowSet
    PROVE  /\ x \in WindowRecords /\ IsFormed(x)
           /\ x.records \in {"unopened", "database", "local"} /\ x.cached \in StoreTexts
           /\ x.jobs \in Seq(JobSet) /\ x.step \in Steps /\ x.held \in StoreTexts
           /\ x.isLoaded \in BOOLEAN /\ x.isRestoring \in BOOLEAN
  BY DEF WindowSet, WindowRecords

LEMMA MovesTo ==
    ASSUME windows \in [Windows -> WindowSet], NEW w \in Windows, NEW y \in WindowRecords,
           IsFormed(y), Becomes(w, y)
    PROVE  Moves(w, y.records, y.cached, y.jobs, y.step, y.held, y.isLoaded)
  <1>1. y \in WindowSet
    BY DEF WindowSet
  <1> QED BY <1>1, OneWindowMoves DEF Moves

(* A job is added at the end. *)
LEMMA AskedMoves ==
    ASSUME windows \in [Windows -> WindowSet], NEW w \in Windows, IsOpen(w),
           NEW x \in WindowRecords, NEW job \in JobSet,
           x.records = windows[w].records, x.cached = windows[w].cached, x.jobs = windows[w].jobs,
           x.step = windows[w].step, x.held = windows[w].held,
           Becomes(w, [x EXCEPT !.jobs = Append(@, job)])
    PROVE  Moves(w, windows[w].records, windows[w].cached, Append(windows[w].jobs, job),
                 windows[w].step, windows[w].held, x.isLoaded)
  <1> DEFINE y == [x EXCEPT !.jobs = Append(@, job)]
  <1>1. windows[w] \in WindowRecords /\ IsFormed(windows[w]) /\ windows[w].jobs \in Seq(JobSet)
    BY WindowFacts
  <1>2. y \in WindowRecords
    BY SMTT(20) DEF WindowRecords
  <1>3. /\ y.records = x.records /\ y.cached = x.cached /\ y.step = x.step /\ y.held = x.held
        /\ y.jobs = Append(windows[w].jobs, job) /\ y.isLoaded = x.isLoaded
    BY DEF WindowRecords
  <1>4. y.jobs # <<>> /\ (windows[w].jobs # <<>> => Head(y.jobs) = Head(windows[w].jobs))
    BY <1>1, <1>3
  <1>5. IsFormed(y)
    BY <1>1, <1>3, <1>4 DEF IsFormed, IsOpen
  <1>6. Becomes(w, y)
    OBVIOUS
  <1> HIDE DEF y
  <1>7. Moves(w, y.records, y.cached, y.jobs, y.step, y.held, y.isLoaded)
    BY <1>2, <1>5, <1>6, MovesTo
  <1> QED BY <1>3, <1>7

(* A job is done. *)
LEMMA DoneMoves ==
    ASSUME windows \in [Windows -> WindowSet], NEW w \in Windows, IsOpen(w), windows[w].jobs # <<>>,
           NEW x \in WindowRecords,
           x.records = windows[w].records, x.jobs = windows[w].jobs, Done(w, x)
    PROVE  Moves(w, windows[w].records, x.cached, Tail(windows[w].jobs), "idle", Null, x.isLoaded)
  <1> DEFINE y == [x EXCEPT !.jobs = Tail(@), !.step = "idle", !.held = Null]
  <1>1. windows[w].jobs \in Seq(JobSet)
    BY WindowFacts
  <1>2. y \in WindowRecords
    <2>1. Tail(x.jobs) \in Seq(JobSet)
      BY <1>1
    <2> QED BY <2>1, TextFacts DEF WindowRecords, Steps
  <1>3. /\ y.records = x.records /\ y.cached = x.cached /\ y.step = "idle" /\ y.held = Null
        /\ y.jobs = Tail(windows[w].jobs) /\ y.isLoaded = x.isLoaded
    BY DEF WindowRecords
  <1>4. IsFormed(y)
    BY <1>3 DEF IsFormed, IsOpen
  <1>5. Becomes(w, y)
    BY DEF Done
  <1> HIDE DEF y
  <1>6. Moves(w, y.records, y.cached, y.jobs, y.step, y.held, y.isLoaded)
    BY <1>2, <1>4, <1>5, MovesTo
  <1> QED BY <1>3, <1>6

LEMMA OpensMoves ==
    ASSUME WebTypes, NEW w \in Windows, DatabaseOpens(w)
    PROVE  /\ local = Null => Moves(w, "database", windows[w].cached, windows[w].jobs, "idle", windows[w].held,
                                    windows[w].isLoaded)
           /\ local # Null => Moves(w, "unopened", windows[w].cached, windows[w].jobs, "copying", local,
                                    windows[w].isLoaded)
  <1>1. /\ windows \in [Windows -> WindowSet] /\ local \in StoreTexts /\ isLocated \in BOOLEAN
        /\ ~IsOpen(w) /\ IsIdle(w)
    BY DEF WebTypes, DatabaseOpens
  <1>2. windows[w] \in WindowRecords /\ IsFormed(windows[w])
    BY <1>1, WindowFacts
  <1>3. CASE local = Null
    <2> DEFINE y == [windows[w] EXCEPT !.records = "database"]
    <2>1. y \in WindowRecords
      BY <1>2 DEF WindowRecords
    <2>2. /\ y.records = "database" /\ y.cached = windows[w].cached /\ y.jobs = windows[w].jobs
          /\ y.step = "idle" /\ y.held = windows[w].held /\ y.isLoaded = windows[w].isLoaded
      BY <1>1, <1>2 DEF WindowRecords, IsIdle
    <2>3. IsFormed(y)
      BY <2>2 DEF IsFormed
    <2>4. Becomes(w, y)
      BY <1>3 DEF DatabaseOpens
    <2> HIDE DEF y
    <2>5. Moves(w, y.records, y.cached, y.jobs, y.step, y.held, y.isLoaded)
      BY <1>1, <2>1, <2>3, <2>4, MovesTo
    <2> QED BY <1>3, <2>2, <2>5
  <1>4. CASE local # Null
    <2> DEFINE y == [windows[w] EXCEPT !.step = "copying", !.held = local, !.usedDatabase = isLocated]
    <2>1. y \in WindowRecords
      BY <1>1, <1>2 DEF WindowRecords, Steps
    <2>2. /\ y.records = "unopened" /\ y.cached = windows[w].cached /\ y.jobs = windows[w].jobs
          /\ y.step = "copying" /\ y.held = local /\ y.isLoaded = windows[w].isLoaded
      BY <1>1, <1>2 DEF WindowRecords, IsOpen
    <2>3. IsFormed(y)
      BY <1>1, <1>2, <1>4, <2>2 DEF IsFormed, IsOpen
    <2>4. Becomes(w, y)
      BY <1>4 DEF DatabaseOpens
    <2> HIDE DEF y
    <2>5. Moves(w, y.records, y.cached, y.jobs, y.step, y.held, y.isLoaded)
      BY <1>1, <2>1, <2>3, <2>4, MovesTo
    <2> QED BY <1>4, <2>2, <2>5
  <1> QED BY <1>3, <1>4

LEMMA CopyLandsMoves ==
    ASSUME WebTypes, NEW w \in Windows, CopyLands(w)
    PROVE  Moves(w, "unopened", windows[w].cached, windows[w].jobs, "copied", windows[w].held,
                 windows[w].isLoaded)
  <1> DEFINE y == [windows[w] EXCEPT !.step = "copied"]
  <1>1. windows \in [Windows -> WindowSet] /\ windows[w].step = "copying" /\ Becomes(w, y)
    BY DEF WebTypes, CopyLands
  <1>2. windows[w] \in WindowRecords /\ IsFormed(windows[w])
    BY <1>1, WindowFacts
  <1>3. y \in WindowRecords
    BY <1>2 DEF WindowRecords, Steps
  <1>4. /\ y.records = windows[w].records /\ y.cached = windows[w].cached /\ y.jobs = windows[w].jobs
        /\ y.step = "copied" /\ y.held = windows[w].held /\ y.isLoaded = windows[w].isLoaded
    BY <1>2 DEF WindowRecords
  <1>5. IsFormed(y) /\ y.records = "unopened"
    BY <1>1, <1>2, <1>4 DEF IsFormed
  <1> HIDE DEF y
  <1>6. Moves(w, y.records, y.cached, y.jobs, y.step, y.held, y.isLoaded)
    BY <1>1, <1>3, <1>5, MovesTo
  <1> QED BY <1>4, <1>5, <1>6

LEMMA CopyIsReadMoves ==
    ASSUME WebTypes, NEW w \in Windows, CopyIsRead(w)
    PROVE  Moves(w, "database", windows[w].cached, windows[w].jobs, "idle", Null, windows[w].isLoaded)
  <1> DEFINE y == [windows[w] EXCEPT !.step = "idle", !.records = "database", !.held = Null]
  <1>1. windows \in [Windows -> WindowSet] /\ Becomes(w, y)
    BY DEF WebTypes, CopyIsRead
  <1>2. windows[w] \in WindowRecords
    BY <1>1, WindowFacts
  <1>3. y \in WindowRecords
    BY <1>2, TextFacts DEF WindowRecords, Steps
  <1>4. /\ y.records = "database" /\ y.cached = windows[w].cached /\ y.jobs = windows[w].jobs
        /\ y.step = "idle" /\ y.held = Null /\ y.isLoaded = windows[w].isLoaded
    BY <1>2 DEF WindowRecords
  <1>5. IsFormed(y)
    BY <1>4 DEF IsFormed
  <1> HIDE DEF y
  <1>6. Moves(w, y.records, y.cached, y.jobs, y.step, y.held, y.isLoaded)
    BY <1>1, <1>3, <1>5, MovesTo
  <1> QED BY <1>4, <1>6

LEMMA RefusesMoves ==
    ASSUME WebTypes, NEW w \in Windows, DatabaseRefuses(w)
    PROVE  \E records \in {"unopened", "local"} :
              /\ records = WithoutDatabase(IF IsIdle(w) THEN isLocated ELSE windows[w].usedDatabase)
              /\ Moves(w, records, windows[w].cached, windows[w].jobs, "idle", Null, windows[w].isLoaded)
  <1> DEFINE r == WithoutDatabase(IF IsIdle(w) THEN isLocated ELSE windows[w].usedDatabase)
             y == [windows[w] EXCEPT !.step = "idle", !.records = r, !.held = Null]
  <1>1. windows \in [Windows -> WindowSet] /\ ~IsOpen(w) /\ Becomes(w, y)
    BY DEF WebTypes, DatabaseRefuses
  <1>2. windows[w] \in WindowRecords /\ IsFormed(windows[w])
    BY <1>1, WindowFacts
  <1>3. r \in {"unopened", "local"}
    BY DEF WithoutDatabase
  <1> HIDE DEF r
  <1>4. y \in WindowRecords
    BY <1>2, <1>3, TextFacts DEF WindowRecords, Steps
  <1>5. /\ y.records = r /\ y.cached = windows[w].cached /\ y.jobs = windows[w].jobs
        /\ y.step = "idle" /\ y.held = Null /\ y.isLoaded = windows[w].isLoaded
    BY <1>2 DEF WindowRecords
  <1>6. IsFormed(y)
    BY <1>1, <1>2, <1>5 DEF IsFormed, IsOpen
  <1> HIDE DEF y
  <1>7. Moves(w, y.records, y.cached, y.jobs, y.step, y.held, y.isLoaded)
    BY <1>1, <1>4, <1>6, MovesTo
  <1> QED BY <1>3, <1>5, <1>7 DEF r

(* Whoever asks for anything but a load has loaded. *)
LEMMA AsksMoves ==
    ASSUME WebTypes, NEW w \in Windows,
           (\E f \in Fields : Save(w, f)) \/ Load(w) \/ Reset(w) \/ RestoreBackup(w)
    PROVE  /\ IsOpen(w) /\ storeBudget' \in BudgetSet
           /\ UNCHANGED <<inbox, database, local, isLocated, legacy, aside, snapshots, accepted, backups,
                          replaced, isExcused>>
           /\ \E job \in JobSet, loaded \in BOOLEAN :
                /\ job.kind # "load" => windows[w].isLoaded
                /\ loaded => windows[w].isLoaded
                /\ Moves(w, windows[w].records, windows[w].cached, Append(windows[w].jobs, job),
                         windows[w].step, windows[w].held, loaded)
  <1> DEFINE Fits(job, x) ==
        /\ Asks(w, job, x)
        /\ job.kind # "load" => windows[w].isLoaded
        /\ x.isLoaded => windows[w].isLoaded
        /\ x.isLoaded \in BOOLEAN
        /\ x.records = windows[w].records /\ x.cached = windows[w].cached
        /\ x.jobs = windows[w].jobs /\ x.step = windows[w].step /\ x.held = windows[w].held
  <1>1. /\ windows \in [Windows -> WindowSet] /\ storeBudget \in BudgetSet /\ storeBudget.saves \in Nat
        /\ snapshots \in Seq(StoreTexts)
    BY DEF WebTypes, BudgetSet
  <1>2. windows[w] \in WindowRecords /\ windows[w].isLoaded \in BOOLEAN
    BY <1>1, WindowFacts
  <1>3. ASSUME NEW f \in Fields, Save(w, f)
        PROVE  storeBudget' \in BudgetSet /\ \E job \in JobSet, x \in WindowRecords : Fits(job, x)
    <2>1. storeBudget' \in BudgetSet
      BY <1>1, <1>3, SpendsType DEF Save
    <2>2. [kind |-> "save", field |-> f, id |-> storeBudget.saves] \in JobSet
      BY <1>1, JobFacts
    <2> QED BY <1>2, <1>3, <2>1, <2>2 DEF Save
  <1>4. ASSUME Load(w)
        PROVE  storeBudget' \in BudgetSet /\ \E job \in JobSet, x \in WindowRecords : Fits(job, x)
    <2>1. storeBudget' \in BudgetSet
      BY <1>1, <1>4, SpendsType DEF Load
    <2>2. [kind |-> "load"] \in JobSet
      BY JobFacts
    <2> QED BY <1>2, <1>4, <2>1, <2>2 DEF Load
  <1>5. ASSUME Reset(w)
        PROVE  storeBudget' \in BudgetSet /\ \E job \in JobSet, x \in WindowRecords : Fits(job, x)
    <2> DEFINE z == [windows[w] EXCEPT !.isLoaded = FALSE]
    <2>1. storeBudget' \in BudgetSet
      BY <1>1, <1>5, SpendsType DEF Reset
    <2>2. [kind |-> "reset"] \in JobSet
      BY JobFacts
    <2>3. /\ z \in WindowRecords /\ ~z.isLoaded /\ z.isLoaded \in BOOLEAN
          /\ z.records = windows[w].records /\ z.cached = windows[w].cached
          /\ z.jobs = windows[w].jobs /\ z.step = windows[w].step /\ z.held = windows[w].held
      BY <1>2 DEF WindowRecords
    <2>4. Asks(w, [kind |-> "reset"], z) /\ windows[w].isLoaded
      BY <1>5 DEF Reset
    <2> HIDE DEF z
    <2> QED BY <2>1, <2>2, <2>3, <2>4
  <1>6. ASSUME RestoreBackup(w)
        PROVE  storeBudget' \in BudgetSet /\ \E job \in JobSet, x \in WindowRecords : Fits(job, x)
    <2> DEFINE z == [windows[w] EXCEPT !.isLoaded = FALSE, !.isRestoring = TRUE]
    <2>1. storeBudget' \in BudgetSet
      BY <1>1, <1>6, SpendsType DEF RestoreBackup
    <2>2. PICK i \in DOMAIN snapshots :
            IsDocument(snapshots[i]) /\ Asks(w, [kind |-> "restore", text |-> snapshots[i]], z)
      BY <1>6 DEF RestoreBackup
    <2>3. [kind |-> "restore", text |-> snapshots[i]] \in JobSet
      <3>1. snapshots[i] \in StoreTexts
        BY <1>1, <2>2
      <3> QED BY <2>2, <3>1, TextFacts, JobFacts
    <2>4. /\ z \in WindowRecords /\ ~z.isLoaded /\ z.isLoaded \in BOOLEAN
          /\ z.records = windows[w].records /\ z.cached = windows[w].cached
          /\ z.jobs = windows[w].jobs /\ z.step = windows[w].step /\ z.held = windows[w].held
      BY <1>2 DEF WindowRecords
    <2>5. windows[w].isLoaded
      BY <1>6 DEF RestoreBackup
    <2> HIDE DEF z
    <2> QED BY <2>1, <2>2, <2>3, <2>4, <2>5
  <1>7. storeBudget' \in BudgetSet
    BY <1>3, <1>4, <1>5, <1>6
  <1>8. PICK job \in JobSet, x \in WindowRecords : Fits(job, x)
    BY <1>3, <1>4, <1>5, <1>6
  <1>9. Moves(w, windows[w].records, windows[w].cached, Append(windows[w].jobs, job),
              windows[w].step, windows[w].held, x.isLoaded)
    BY <1>1, <1>8, AskedMoves DEF Asks
  <1> QED BY <1>7, <1>8, <1>9 DEF Asks

(* A window goes on with the job it is busy with. *)
LEMMA KeepMoves ==
    ASSUME windows \in [Windows -> WindowSet], NEW w \in Windows, IsOpen(w), windows[w].jobs # <<>>,
           NEW step \in {"writing", "written", "setting aside"}, NEW held \in StoreTexts,
           step = "setting aside" => Kind(w) = "load" /\ held = Damaged,
           step # "setting aside" => held \in Documents /\ Kind(w) \in {"save", "load", "restore"},
           step # "setting aside" /\ Kind(w) = "restore" =>
                held = Head(windows[w].jobs).text /\ windows[w].cached = Null,
           Becomes(w, [windows[w] EXCEPT !.step = step, !.held = held])
    PROVE  Moves(w, windows[w].records, windows[w].cached, windows[w].jobs, step, held, windows[w].isLoaded)
  <1> DEFINE y == [windows[w] EXCEPT !.step = step, !.held = held]
  <1>1. windows[w] \in WindowRecords
    BY WindowFacts
  <1>2. y \in WindowRecords
    BY <1>1 DEF WindowRecords, Steps
  <1>3. /\ y.records = windows[w].records /\ y.cached = windows[w].cached /\ y.jobs = windows[w].jobs
        /\ y.step = step /\ y.held = held /\ y.isLoaded = windows[w].isLoaded
    BY <1>1 DEF WindowRecords
  <1>4. IsFormed(y)
    BY <1>3 DEF IsFormed, IsOpen, Kind
  <1>5. Becomes(w, y)
    OBVIOUS
  <1> HIDE DEF y
  <1>6. Moves(w, y.records, y.cached, y.jobs, y.step, y.held, y.isLoaded)
    BY <1>2, <1>4, <1>5, MovesTo
  <1> QED BY <1>3, <1>6

(* What a save changes: the cached document, or the text it has read. *)
SaveBase(w) == IF IsDocument(windows[w].cached) THEN windows[w].cached ELSE TextFor(w)
SaveData(w) == Document([SaveBase(w).of EXCEPT ![Head(windows[w].jobs).field] = Head(windows[w].jobs).id])

LEMMA BeginSaveMoves ==
    ASSUME WebTypes, NEW w \in Windows, BeginSave(w)
    PROVE  /\ IsNext(w, "save") /\ SaveBase(w) \in StoreTexts /\ SaveData(w) \in Documents
           /\ SaveData(w).of = [SaveBase(w).of EXCEPT ![Head(windows[w].jobs).field] = Head(windows[w].jobs).id]
           /\ \/ /\ SaveBase(w) = Damaged
                 /\ Moves(w, windows[w].records, windows[w].cached, Tail(windows[w].jobs), "idle", Null,
                          windows[w].isLoaded)
              \/ /\ SaveBase(w) # Damaged
                 /\ Moves(w, windows[w].records,
                          IF IsDocument(windows[w].cached) THEN SaveData(w) ELSE windows[w].cached,
                          windows[w].jobs, "writing", SaveData(w), windows[w].isLoaded)
  <1> DEFINE job == Head(windows[w].jobs)
             cached == IF IsDocument(windows[w].cached) THEN SaveData(w) ELSE windows[w].cached
             y == [windows[w] EXCEPT !.step = "writing", !.held = SaveData(w), !.cached = cached]
  <1>1. windows \in [Windows -> WindowSet] /\ database \in StoreTexts /\ local \in StoreTexts
    BY DEF WebTypes
  <1>2. /\ windows[w] \in WindowRecords /\ windows[w].jobs \in Seq(JobSet) /\ windows[w].cached \in StoreTexts
    BY <1>1, WindowFacts
  <1>3. /\ IsNext(w, "save") /\ IsOpen(w) /\ windows[w].jobs # <<>> /\ job.kind = "save"
        /\ job.field \in Fields /\ job.id \in Nat
    <2>1. IsNext(w, "save") /\ IsOpen(w) /\ windows[w].jobs # <<>> /\ job.kind = "save"
      BY DEF BeginSave, IsNext
    <2>2. job \in JobSet
      BY <1>2, <2>1
    <2> QED BY <2>1, <2>2, JobFacts
  <1>4. SaveBase(w) \in StoreTexts
    BY <1>1, <1>2 DEF SaveBase, TextFor
  <1>5. SaveData(w) \in Documents /\ SaveData(w).of = [SaveBase(w).of EXCEPT ![job.field] = job.id]
    BY <1>3, <1>4, TextFacts DEF SaveData
  <1>6. CASE SaveBase(w) = Damaged
    <2>1. Done(w, windows[w])
      BY <1>6 DEF BeginSave, SaveBase
    <2> QED BY <1>1, <1>2, <1>3, <1>4, <1>5, <1>6, <2>1, DoneMoves
  <1>7. CASE SaveBase(w) # Damaged
    <2>1. Becomes(w, y)
      BY <1>7 DEF BeginSave, SaveBase, SaveData
    <2>2. cached \in StoreTexts
      BY <1>2, <1>5, TextFacts
    <2> HIDE DEF cached
    <2>3. y \in WindowRecords
      BY <1>2, <1>5, <2>2, TextFacts DEF WindowRecords, Steps
    <2>4. /\ y.records = windows[w].records /\ y.cached = cached /\ y.jobs = windows[w].jobs
          /\ y.step = "writing" /\ y.held = SaveData(w) /\ y.isLoaded = windows[w].isLoaded
      BY <1>2 DEF WindowRecords
    <2>5. IsFormed(y)
      BY <1>3, <1>5, <2>4 DEF IsFormed, IsOpen
    <2> HIDE DEF y
    <2>6. Moves(w, y.records, y.cached, y.jobs, y.step, y.held, y.isLoaded)
      BY <1>1, <2>1, <2>3, <2>5, MovesTo
    <2> QED BY <1>3, <1>4, <1>5, <1>7, <2>4, <2>6 DEF cached
  <1> QED BY <1>6, <1>7

LEMMA BeginLoadMoves ==
    ASSUME WebTypes, NEW w \in Windows, BeginLoad(w)
    PROVE  /\ IsNext(w, "load")
           /\ \/ /\ TextFor(w) = Null /\ legacy = Null /\ UNCHANGED <<snapshots, backups>>
                 /\ Moves(w, windows[w].records, windows[w].cached, Tail(windows[w].jobs), "idle", Null, TRUE)
              \/ /\ TextFor(w) = Null /\ legacy # Null /\ UNCHANGED <<snapshots, backups>>
                 /\ Moves(w, windows[w].records, windows[w].cached, windows[w].jobs, "writing", legacy,
                          windows[w].isLoaded)
              \/ /\ TextFor(w) = Damaged /\ UNCHANGED <<snapshots, backups>>
                 /\ Moves(w, windows[w].records, windows[w].cached, windows[w].jobs, "setting aside", Damaged,
                          windows[w].isLoaded)
              \/ /\ TextFor(w) \in Documents
                 /\ UNCHANGED <<snapshots, backups>> \/ (snapshots' = WithSnapshot(TextFor(w)) /\ backups' = backups + 1)
                 /\ Moves(w, windows[w].records, TextFor(w), Tail(windows[w].jobs), "idle", Null, TRUE)
  <1> DEFINE text == TextFor(w)
  <1>1. /\ windows \in [Windows -> WindowSet] /\ text \in StoreTexts /\ legacy \in {Null} \union Documents
    BY DEF WebTypes, TextFor
  <1>2. windows[w] \in WindowRecords /\ windows[w].jobs \in Seq(JobSet)
    BY <1>1, WindowFacts
  <1>3. IsNext(w, "load") /\ IsOpen(w) /\ windows[w].jobs # <<>> /\ Kind(w) = "load"
    BY DEF BeginLoad, IsNext, Kind
  <1>4. \/ /\ text = Null /\ legacy = Null /\ UNCHANGED <<snapshots, backups>>
           /\ Done(w, [windows[w] EXCEPT !.isLoaded = TRUE])
        \/ /\ text = Null /\ legacy # Null /\ UNCHANGED <<snapshots, backups>>
           /\ Becomes(w, [windows[w] EXCEPT !.step = "writing", !.held = legacy])
        \/ /\ text = Damaged /\ UNCHANGED <<snapshots, backups>>
           /\ Becomes(w, [windows[w] EXCEPT !.step = "setting aside", !.held = text])
        \/ /\ IsDocument(text)
           /\ UNCHANGED <<snapshots, backups>> \/ (snapshots' = WithSnapshot(text) /\ backups' = backups + 1)
           /\ Done(w, [windows[w] EXCEPT !.cached = text, !.isLoaded = TRUE])
    BY DEF BeginLoad
  <1> HIDE DEF text
  <1>5. ASSUME Done(w, [windows[w] EXCEPT !.isLoaded = TRUE])
        PROVE  Moves(w, windows[w].records, windows[w].cached, Tail(windows[w].jobs), "idle", Null, TRUE)
    <2> DEFINE x == [windows[w] EXCEPT !.isLoaded = TRUE]
    <2>1. /\ x \in WindowRecords /\ x.records = windows[w].records /\ x.jobs = windows[w].jobs
          /\ x.cached = windows[w].cached /\ x.isLoaded = TRUE
      BY <1>2 DEF WindowRecords
    <2>2. Done(w, x)
      BY <1>5
    <2> HIDE DEF x
    <2> QED BY <1>1, <1>3, <2>1, <2>2, DoneMoves
  <1>6. ASSUME Done(w, [windows[w] EXCEPT !.cached = text, !.isLoaded = TRUE])
        PROVE  Moves(w, windows[w].records, text, Tail(windows[w].jobs), "idle", Null, TRUE)
    <2> DEFINE x == [windows[w] EXCEPT !.cached = text, !.isLoaded = TRUE]
    <2>1. /\ x \in WindowRecords /\ x.records = windows[w].records /\ x.jobs = windows[w].jobs
          /\ x.cached = text /\ x.isLoaded = TRUE
      BY <1>1, <1>2 DEF WindowRecords
    <2>2. Done(w, x)
      BY <1>6
    <2> HIDE DEF x
    <2> QED BY <1>1, <1>3, <2>1, <2>2, DoneMoves
  <1>7. ASSUME legacy # Null, Becomes(w, [windows[w] EXCEPT !.step = "writing", !.held = legacy])
        PROVE  Moves(w, windows[w].records, windows[w].cached, windows[w].jobs, "writing", legacy,
                     windows[w].isLoaded)
    BY <1>1, <1>3, <1>7, TextFacts, KeepMoves
  <1>8. ASSUME text = Damaged, Becomes(w, [windows[w] EXCEPT !.step = "setting aside", !.held = text])
        PROVE  Moves(w, windows[w].records, windows[w].cached, windows[w].jobs, "setting aside", Damaged,
                     windows[w].isLoaded)
    BY <1>1, <1>3, <1>8, TextFacts, KeepMoves
  <1>9. IsDocument(text) => text \in Documents
    BY <1>1, TextFacts
  <1> QED BY <1>3, <1>4, <1>5, <1>6, <1>7, <1>8, <1>9 DEF text

LEMMA BeginRestoreMoves ==
    ASSUME WebTypes, NEW w \in Windows, BeginRestore(w)
    PROVE  /\ IsNext(w, "restore") /\ Head(windows[w].jobs).text \in Documents
           /\ Moves(w, windows[w].records, Null, windows[w].jobs, "writing", Head(windows[w].jobs).text,
                    windows[w].isLoaded)
  <1> DEFINE text == Head(windows[w].jobs).text
             y == [windows[w] EXCEPT !.step = "writing", !.held = text, !.cached = Null]
  <1>1. windows \in [Windows -> WindowSet] /\ Becomes(w, y)
    BY DEF WebTypes, BeginRestore
  <1>2. windows[w] \in WindowRecords /\ windows[w].jobs \in Seq(JobSet)
    BY <1>1, WindowFacts
  <1>3. IsNext(w, "restore") /\ IsOpen(w) /\ windows[w].jobs # <<>> /\ Head(windows[w].jobs).kind = "restore"
    BY DEF BeginRestore, IsNext
  <1>4. text \in Documents /\ text \in StoreTexts
    <2>1. Head(windows[w].jobs) \in JobSet
      BY <1>2, <1>3
    <2> QED BY <1>3, <2>1, JobFacts, TextFacts
  <1> HIDE DEF text
  <1>5. y \in WindowRecords
    BY <1>2, <1>4, TextFacts DEF WindowRecords, Steps
  <1>6. /\ y.records = windows[w].records /\ y.cached = Null /\ y.jobs = windows[w].jobs
        /\ y.step = "writing" /\ y.held = text /\ y.isLoaded = windows[w].isLoaded
    BY <1>2 DEF WindowRecords
  <1>7. IsFormed(y)
    BY <1>3, <1>4, <1>6 DEF IsFormed, IsOpen, text
  <1> HIDE DEF y
  <1>8. Moves(w, y.records, y.cached, y.jobs, y.step, y.held, y.isLoaded)
    BY <1>1, <1>5, <1>7, MovesTo
  <1> QED BY <1>3, <1>4, <1>6, <1>8 DEF text

(* A window that is busy with a change is open. *)
LEMMA BusyIsOpen ==
    ASSUME WebTypes, NEW w \in Windows, windows[w].step \in {"setting aside", "writing", "written"}
    PROVE  /\ IsOpen(w) /\ windows[w].jobs # <<>> /\ windows[w].jobs \in Seq(JobSet)
           /\ Head(windows[w].jobs) \in JobSet /\ Tail(windows[w].jobs) \in Seq(JobSet)
           /\ windows[w].step = "setting aside" => Kind(w) = "load" /\ windows[w].held = Damaged
           /\ windows[w].step # "setting aside" => 
                /\ windows[w].held \in Documents /\ Kind(w) \in {"save", "load", "restore"}
                /\ Kind(w) = "restore" => windows[w].held = Head(windows[w].jobs).text /\ windows[w].cached = Null
  <1>1. windows[w] \in WindowSet
    BY DEF WebTypes
  <1>2. IsFormed(windows[w]) /\ windows[w].jobs \in Seq(JobSet)
    BY <1>1, WindowFacts
  <1>3. windows[w].jobs # <<>> /\ IsOpen(w)
    BY <1>2 DEF IsFormed, IsOpen
  <1>4. Head(windows[w].jobs) \in JobSet /\ Tail(windows[w].jobs) \in Seq(JobSet)
    BY <1>2, <1>3, HeadTailProperties
  <1> QED BY <1>2, <1>3, <1>4 DEF IsFormed, Kind

LEMMA SetAsideMoves ==
    ASSUME WebTypes, NEW w \in Windows, SetAside(w)
    PROVE  Moves(w, windows[w].records, windows[w].cached, windows[w].jobs, "writing", Document(NoData),
                 windows[w].isLoaded)
  <1>1. /\ windows \in [Windows -> WindowSet] /\ windows[w].step = "setting aside"
        /\ Becomes(w, [windows[w] EXCEPT !.step = "writing", !.held = Document(NoData)])
    BY DEF WebTypes, SetAside
  <1>2. IsOpen(w) /\ windows[w].jobs # <<>> /\ Kind(w) = "load"
    BY <1>1, BusyIsOpen
  <1>3. Document(NoData) \in Documents /\ Document(NoData) \in StoreTexts
    BY TextFacts
  <1> QED BY <1>1, <1>2, <1>3, KeepMoves

LEMMA LandsMoves ==
    ASSUME WebTypes, NEW w \in Windows, WriteLands(w)
    PROVE  Moves(w, windows[w].records, windows[w].cached, windows[w].jobs, "written", windows[w].held,
                 windows[w].isLoaded)
  <1> DEFINE y == [windows[w] EXCEPT !.step = "written"]
  <1>1. windows \in [Windows -> WindowSet] /\ windows[w].step = "writing" /\ Becomes(w, y)
    BY DEF WebTypes, WriteLands
  <1>2. windows[w] \in WindowRecords /\ IsFormed(windows[w])
    BY <1>1, WindowFacts
  <1>3. y \in WindowRecords
    BY <1>2 DEF WindowRecords, Steps
  <1>4. /\ y.records = windows[w].records /\ y.cached = windows[w].cached /\ y.jobs = windows[w].jobs
        /\ y.step = "written" /\ y.held = windows[w].held /\ y.isLoaded = windows[w].isLoaded
    BY <1>2 DEF WindowRecords
  <1>5. IsFormed(y)
    BY <1>1, <1>2, <1>4 DEF IsFormed
  <1> HIDE DEF y
  <1>6. Moves(w, y.records, y.cached, y.jobs, y.step, y.held, y.isLoaded)
    BY <1>1, <1>3, <1>5, MovesTo
  <1> QED BY <1>4, <1>6

LEMMA FailsMoves ==
    ASSUME WebTypes, NEW w \in Windows, WriteFails(w)
    PROVE  Moves(w, windows[w].records, CachedAfterError(w), Tail(windows[w].jobs), "idle", Null,
                 windows[w].isLoaded)
  <1> DEFINE c == CachedAfterError(w)
             r == windows[w].isRestoring /\ Head(windows[w].jobs).kind # "restore"
             x == [windows[w] EXCEPT !.cached = c, !.isRestoring = r]
  <1>1. windows \in [Windows -> WindowSet] /\ windows[w].step \in {"writing", "setting aside"} 
    BY DEF WebTypes, WriteFails
  <1>2. windows[w] \in WindowRecords /\ windows[w].cached \in StoreTexts /\ IsOpen(w) /\ windows[w].jobs # <<>>
    BY <1>1, WindowFacts, BusyIsOpen
  <1>3. c \in StoreTexts
    BY <1>2, TextFacts DEF CachedAfterError
  <1>4. r \in BOOLEAN
    OBVIOUS
  <1>5. Done(w, x)
    BY DEF WriteFails
  <1> HIDE DEF c, r
  <1>6. x \in WindowRecords
    BY <1>2, <1>3, <1>4 DEF WindowRecords
  <1>7. /\ x.records = windows[w].records /\ x.jobs = windows[w].jobs
        /\ x.cached = c /\ x.isLoaded = windows[w].isLoaded
    BY <1>2 DEF WindowRecords
  <1> HIDE DEF x
  <1> QED BY <1>1, <1>2, <1>5, <1>6, <1>7, DoneMoves DEF c

LEMMA ResolvesMoves ==
    ASSUME WebTypes, NEW w \in Windows, WriteResolves(w)
    PROVE  Moves(w, windows[w].records, IF Kind(w) = "save" THEN windows[w].held ELSE windows[w].cached,
                 Tail(windows[w].jobs), "idle", Null, windows[w].isLoaded \/ Kind(w) = "load")
  <1> DEFINE c == IF Head(windows[w].jobs).kind = "save" THEN windows[w].held ELSE windows[w].cached
             l == windows[w].isLoaded \/ Head(windows[w].jobs).kind = "load"
             r == windows[w].isRestoring /\ Head(windows[w].jobs).kind # "restore"
             x == [windows[w] EXCEPT !.cached = c, !.isLoaded = l, !.isRestoring = r]
  <1>1. windows \in [Windows -> WindowSet] /\ windows[w].step = "written"
    BY DEF WebTypes, WriteResolves
  <1>2. /\ windows[w] \in WindowRecords /\ windows[w].cached \in StoreTexts /\ windows[w].held \in StoreTexts
        /\ IsOpen(w) /\ windows[w].jobs # <<>>
    BY <1>1, WindowFacts, BusyIsOpen
  <1>3. c \in StoreTexts
    BY <1>2
  <1>4. r \in BOOLEAN /\ l \in BOOLEAN
    OBVIOUS
  <1>5. Done(w, x)
    BY DEF WriteResolves
  <1> HIDE DEF c, r, l
  <1>6. x \in WindowRecords
    BY <1>2, <1>3, <1>4 DEF WindowRecords
  <1>7. /\ x.records = windows[w].records /\ x.jobs = windows[w].jobs
        /\ x.cached = c /\ x.isLoaded = l
    BY <1>2 DEF WindowRecords
  <1> HIDE DEF x
  <1>8. Moves(w, windows[w].records, c, Tail(windows[w].jobs), "idle", Null, l)
    BY <1>1, <1>2, <1>5, <1>6, <1>7, DoneMoves
  <1> QED BY <1>8 DEF c, l, Kind

LEMMA NewsMoves ==
    ASSUME WebTypes, NEW w \in Windows, ReceiveNews(w)
    PROVE  Moves(w, windows[w].records, Null, windows[w].jobs, windows[w].step, windows[w].held,
                 windows[w].isLoaded)
  <1> DEFINE y == [windows[w] EXCEPT !.cached = Null]
  <1>1. windows \in [Windows -> WindowSet] /\ Becomes(w, y)
    BY DEF WebTypes, ReceiveNews, ForgetDocument
  <1>2. windows[w] \in WindowRecords /\ IsFormed(windows[w])
    BY <1>1, WindowFacts
  <1>3. y \in WindowRecords
    BY <1>2, TextFacts DEF WindowRecords
  <1>4. /\ y.records = windows[w].records /\ y.cached = Null /\ y.jobs = windows[w].jobs
        /\ y.step = windows[w].step /\ y.held = windows[w].held /\ y.isLoaded = windows[w].isLoaded
    BY <1>2 DEF WindowRecords
  <1>5. IsFormed(y)
    BY <1>2, <1>4 DEF IsFormed
  <1> HIDE DEF y
  <1>6. Moves(w, y.records, y.cached, y.jobs, y.step, y.held, y.isLoaded)
    BY <1>1, <1>3, <1>5, MovesTo
  <1> QED BY <1>4, <1>6

LEMMA ClosedMoves ==
    ASSUME WebTypes, NEW w \in Windows, BeginReset(w) \/ WindowCloses(w)
    PROVE  Moves(w, "unopened", Null, <<>>, "idle", ClosedWindow.held, FALSE)
  <1>1. windows \in [Windows -> WindowSet] /\ Becomes(w, ClosedWindow)
    BY DEF WebTypes, BeginReset, WindowCloses, Becomes
  <1>2. ClosedWindow \in WindowRecords /\ IsFormed(ClosedWindow)
    BY ClosedIsFormed, WindowFacts
  <1>3. ClosedWindow.isLoaded = FALSE
    BY DEF ClosedWindow
  <1>4. Moves(w, ClosedWindow.records, ClosedWindow.cached, ClosedWindow.jobs, ClosedWindow.step,
              ClosedWindow.held, ClosedWindow.isLoaded)
    BY <1>1, <1>2, MovesTo
  <1> QED BY <1>3, <1>4, ClosedIsFormed

-----------------------------------------------------------------------------
(* Types.                                                                  *)

(* saveSnapshot puts a text before the others and keeps KeptSnapshots. *)
LEMMA SnapshotFacts ==
    ASSUME snapshots \in Seq(StoreTexts), NEW text \in StoreTexts
    PROVE  /\ WithSnapshot(text) \in Seq(StoreTexts)
           /\ Len(WithSnapshot(text)) <= KeptSnapshots
           /\ Len(WithSnapshot(text)) = (IF Len(snapshots) + 1 < KeptSnapshots THEN Len(snapshots) + 1 ELSE KeptSnapshots)
           /\ WithSnapshot(text) # <<>> /\ WithSnapshot(text)[1] = text
           /\ \A i \in 1..Len(snapshots) :
                i + 1 <= KeptSnapshots => WithSnapshot(text)[i + 1] = snapshots[i]
  <1> DEFINE all == <<text>> \o snapshots
             n == IF Len(all) < KeptSnapshots THEN Len(all) ELSE KeptSnapshots
  <1>1. KeptSnapshots \in Nat /\ KeptSnapshots >= 1
    BY WebStoreAssumption
  <1>2. <<text>> \in Seq(StoreTexts) /\ Len(<<text>>) = 1 /\ <<text>>[1] = text
    OBVIOUS
  <1>3. all \in Seq(StoreTexts) /\ Len(all) = Len(snapshots) + 1
    BY <1>2
  <1>4. all[1] = text /\ \A i \in 1..Len(snapshots) : all[i + 1] = snapshots[i]
    BY <1>2
  <1> HIDE DEF all
  <1>5. n \in 1..Len(all) /\ n <= KeptSnapshots
    BY <1>1, <1>3
  <1>6. WithSnapshot(text) = SubSeq(all, 1, n)
    BY DEF WithSnapshot, all
  <1>7. n = (IF Len(snapshots) + 1 < KeptSnapshots THEN Len(snapshots) + 1 ELSE KeptSnapshots)
    BY <1>3
  <1> HIDE DEF n
  <1>8. /\ SubSeq(all, 1, n) \in Seq(StoreTexts) /\ Len(SubSeq(all, 1, n)) = n
        /\ \A i \in 1..n : SubSeq(all, 1, n)[i] = all[i]
    BY <1>3, <1>5
  <1>9. \A i \in 1..Len(snapshots) : i + 1 <= KeptSnapshots => i + 1 \in 1..n
    BY <1>1, <1>3, <1>5, <1>7
  <1> QED BY <1>4, <1>5, <1>6, <1>7, <1>8, <1>9

LEMMA InitTypes == StoreInit => WebTypes
  <1> SUFFICES ASSUME StoreInit PROVE WebTypes
    OBVIOUS
  <1>1. PICK s \in StoreStarts :
          /\ database = s.database /\ local = s.local /\ isLocated = s.isLocated
          /\ legacy = s.legacy /\ storeBudget = s.budget /\ accepted = Effective.of
    BY DEF StoreInit
  <1>2. /\ database \in StoreTexts /\ local \in StoreTexts /\ isLocated \in BOOLEAN
        /\ legacy \in StoreTexts /\ legacy # Damaged /\ storeBudget \in BudgetSet
    BY <1>1, WebStoreAssumption DEF BudgetSet
  <1>3. legacy \in {Null} \union Documents
    BY <1>2, TextFacts
  <1>4. Effective \in StoreTexts
    BY <1>2, TextFacts DEF Effective
  <1>5. accepted \in Data
    BY <1>1, <1>4, TextFacts
  <1>6. windows \in [Windows -> WindowSet]
    BY ClosedIsFormed DEF StoreInit
  <1>7. snapshots \in Seq(StoreTexts) /\ Len(snapshots) <= KeptSnapshots
    BY WebStoreAssumption DEF StoreInit
  <1> QED BY <1>2, <1>3, <1>5, <1>6, <1>7 DEF StoreInit, WebTypes

(* Who takes a step. *)
StepOf(w) ==
    \/ DatabaseOpens(w) \/ CopyLands(w) \/ CopyIsRead(w) \/ DatabaseRefuses(w)
    \/ (\E f \in Fields : Save(w, f)) \/ Load(w) \/ Reset(w) \/ RestoreBackup(w)
    \/ BeginSave(w) \/ BeginLoad(w) \/ BeginRestore(w) \/ BeginReset(w)
    \/ SetAside(w) \/ WriteLands(w) \/ WriteFails(w) \/ WriteResolves(w)
    \/ ReceiveNews(w) \/ WindowCloses(w)

LEMMA WindowsStep ==
    ASSUME WebTypes, NEW w \in Windows, StepOf(w)
    PROVE  windows' \in [Windows -> WindowSet] /\ \A v \in Windows : v # w => windows'[v] = windows[v]
  <1>1. ASSUME NEW r, NEW c, NEW j, NEW s, NEW h, NEW l, Moves(w, r, c, j, s, h, l)
        PROVE  windows' \in [Windows -> WindowSet] /\ \A v \in Windows : v # w => windows'[v] = windows[v]
    BY <1>1 DEF Moves
  <1>2. CASE DatabaseOpens(w)
    BY <1>1, <1>2, OpensMoves
  <1>3. CASE CopyLands(w)
    BY <1>1, <1>3, CopyLandsMoves
  <1>4. CASE CopyIsRead(w)
    BY <1>1, <1>4, CopyIsReadMoves
  <1>5. CASE DatabaseRefuses(w)
    BY <1>1, <1>5, RefusesMoves
  <1>6. CASE (\E f \in Fields : Save(w, f)) \/ Load(w) \/ Reset(w) \/ RestoreBackup(w)
    BY <1>1, <1>6, AsksMoves
  <1>7. CASE BeginSave(w)
    BY <1>1, <1>7, BeginSaveMoves
  <1>8. CASE BeginLoad(w)
    BY <1>1, <1>8, BeginLoadMoves
  <1>9. CASE BeginRestore(w)
    BY <1>1, <1>9, BeginRestoreMoves
  <1>10. CASE BeginReset(w) \/ WindowCloses(w)
    BY <1>1, <1>10, ClosedMoves
  <1>11. CASE SetAside(w)
    BY <1>1, <1>11, SetAsideMoves
  <1>12. CASE WriteLands(w)
    BY <1>1, <1>12, LandsMoves
  <1>13. CASE WriteFails(w)
    BY <1>1, <1>13, FailsMoves
  <1>14. CASE WriteResolves(w)
    BY <1>1, <1>14, ResolvesMoves
  <1>15. CASE ReceiveNews(w)
    BY <1>1, <1>15, NewsMoves
  <1> QED BY <1>2, <1>3, <1>4, <1>5, <1>6, <1>7, <1>8, <1>9, <1>10, <1>11, <1>12, <1>13, <1>14, <1>15
          DEF StepOf

LEMMA StepKeepsTypes ==
    ASSUME WebTypes, NEW w \in Windows, StepOf(w)
    PROVE  WebTypes'
  <1>1. windows' \in [Windows -> WindowSet]
    BY WindowsStep
  <1>2. windows[w] \in WindowSet /\ windows[w].held \in StoreTexts
    BY WindowFacts DEF WebTypes
  <1>3. /\ TextFor(w) \in StoreTexts /\ database \in StoreTexts /\ local \in StoreTexts
        /\ isLocated \in BOOLEAN /\ legacy \in {Null} \union Documents /\ snapshots \in Seq(StoreTexts)
        /\ Len(snapshots) <= KeptSnapshots /\ storeBudget \in BudgetSet /\ accepted \in Data
        /\ backups \in Nat /\ isExcused \in BOOLEAN
    BY DEF WebTypes, TextFor
  <1>4. database' \in StoreTexts /\ local' \in StoreTexts
    <2>1. CASE UNCHANGED <<database, local>>
      BY <1>3, <2>1
    <2>2. CASE CopyLands(w)
      BY <1>2, <1>3, <2>2 DEF CopyLands
    <2>3. CASE CopyIsRead(w)
      BY <1>3, <2>3, TextFacts DEF CopyIsRead, LocalAfterCopy
    <2>4. CASE BeginReset(w)
      BY <1>3, <2>4, TextFacts DEF BeginReset
    <2>5. CASE WriteLands(w)
      BY <1>2, <1>3, <2>5 DEF WriteLands, Put
    <2>6. UNCHANGED <<database, local>> \/ CopyLands(w) \/ CopyIsRead(w) \/ BeginReset(w) \/ WriteLands(w)
      BY AsksMoves DEF StepOf, DatabaseOpens, DatabaseRefuses, BeginSave, BeginLoad, BeginRestore, SetAside,
                       WriteFails, WriteResolves, ReceiveNews, WindowCloses
    <2> QED BY <2>1, <2>2, <2>3, <2>4, <2>5, <2>6
  <1>5. isLocated' \in BOOLEAN
    <2>1. UNCHANGED isLocated \/ isLocated' = TRUE
      BY AsksMoves DEF StepOf, DatabaseOpens, CopyLands, CopyIsRead, RemembersDatabase, DatabaseRefuses,
                       BeginSave, BeginLoad, BeginRestore, BeginReset, SetAside, WriteLands, WriteFails,
                       WriteResolves, ReceiveNews, WindowCloses
    <2> QED BY <1>3, <2>1
  <1>6. legacy' \in {Null} \union Documents
    <2>1. UNCHANGED legacy \/ legacy' = Null
      BY AsksMoves DEF StepOf, DatabaseOpens, CopyLands, CopyIsRead, DatabaseRefuses,
                       BeginSave, BeginLoad, BeginRestore, BeginReset, SetAside, WriteLands, WriteFails,
                       WriteResolves, ReceiveNews, WindowCloses
    <2> QED BY <1>3, <2>1
  <1>7. /\ snapshots' \in Seq(StoreTexts) /\ Len(snapshots') <= KeptSnapshots /\ backups' \in Nat
    <2>1. CASE UNCHANGED <<snapshots, backups>>
      BY <1>3, <2>1
    <2>2. CASE snapshots' = WithSnapshot(TextFor(w)) /\ backups' = backups + 1
      BY <1>3, <2>2, SnapshotFacts
    <2>3. CASE snapshots' = <<>> /\ backups' = 0
      BY <1>3, <2>3, WebStoreAssumption
    <2>4. CASE BeginLoad(w)
      BY <2>1, <2>2, <2>4, BeginLoadMoves
    <2>5. CASE BeginRestore(w)
      BY <2>1, <2>2, <2>5 DEF BeginRestore, SnapshotsWith
    <2>6. UNCHANGED <<snapshots, backups>> \/ BeginLoad(w) \/ BeginRestore(w) \/ (snapshots' = <<>> /\ backups' = 0)
      BY AsksMoves DEF StepOf, DatabaseOpens, CopyLands, CopyIsRead, DatabaseRefuses,
                       BeginSave, BeginReset, SetAside, WriteLands, WriteFails,
                       WriteResolves, ReceiveNews, WindowCloses
    <2> QED BY <2>1, <2>3, <2>4, <2>5, <2>6
  <1>8. storeBudget' \in BudgetSet
    <2>1. CASE UNCHANGED storeBudget
      BY <1>3, <2>1
    <2>2. CASE Spends("refusals") \/ Spends("failures") \/ Spends("closes")
      BY <1>3, <2>2, SpendsType
    <2>3. CASE (\E f \in Fields : Save(w, f)) \/ Load(w) \/ Reset(w) \/ RestoreBackup(w)
      BY <2>3, AsksMoves
    <2> QED BY <2>1, <2>2, <2>3 DEF StepOf, DatabaseOpens, CopyLands, CopyIsRead, DatabaseRefuses,
                       BeginSave, BeginLoad, BeginRestore, BeginReset, SetAside, WriteLands, WriteFails,
                       WriteResolves, ReceiveNews, WindowCloses
  <1>9. accepted' \in Data
    <2>1. CASE UNCHANGED accepted \/ accepted' = NoData
      BY <1>3, <2>1, TextFacts
    <2>2. CASE WriteLands(w)
      <3> DEFINE job == Head(windows[w].jobs)
      <3>1. windows[w].step = "writing" /\ job \in JobSet /\ job.kind \in {"save", "load", "restore"}
        BY <2>2, BusyIsOpen DEF WriteLands, Kind
      <3>2. CASE job.kind = "save"
        <4>1. accepted' = [accepted EXCEPT ![job.field] = job.id]
          BY <2>2, <3>2 DEF WriteLands
        <4>2. job.field \in Fields /\ job.id \in Nat
          BY <3>1, <3>2, JobFacts
        <4> QED BY <1>3, <4>1, <4>2, TextFacts
      <3>3. CASE job.kind = "restore"
        <4>1. accepted' = job.text.of
          BY <2>2, <3>3 DEF WriteLands
        <4>2. job.text \in StoreTexts
          BY <3>1, <3>3, JobFacts, TextFacts
        <4> QED BY <4>1, <4>2, TextFacts
      <3>4. CASE job.kind = "load"
        BY <1>3, <2>2, <3>4 DEF WriteLands
      <3> QED BY <3>1, <3>2, <3>3, <3>4
    <2>3. UNCHANGED accepted \/ accepted' = NoData \/ WriteLands(w)
      BY AsksMoves DEF StepOf, DatabaseOpens, CopyLands, CopyIsRead, DatabaseRefuses,
                       BeginSave, BeginLoad, BeginRestore, BeginReset, SetAside, WriteFails,
                       WriteResolves, ReceiveNews, WindowCloses
    <2> QED BY <2>1, <2>2, <2>3
  <1>10. isExcused' \in BOOLEAN
    BY <1>3, AsksMoves DEF StepOf, DatabaseOpens, CopyLands, CopyIsRead, DatabaseRefuses,
                       BeginSave, BeginLoad, BeginRestore, BeginReset, SetAside, WriteLands, WriteFails,
                       WriteResolves, ReceiveNews, WindowCloses
  <1> QED BY <1>1, <1>4, <1>5, <1>6, <1>7, <1>8, <1>9, <1>10 DEF WebTypes

-----------------------------------------------------------------------------
(* The browser holds what was saved.  Each lemma takes a step that does    *)
(* not end in one of the excused cases.                                    *)

(* What an open window reads is what a window that opens would show. *)
LEMMA EffectiveIs ==
    ASSUME WebTypes, PlaceInv, NEW w \in Windows, IsOpen(w)
    PROVE  Effective = IF TextFor(w) # Null THEN TextFor(w) ELSE IF legacy # Null THEN legacy ELSE Document(NoData)
  <1>1. windows[w].records \in {"database", "local"}
    BY WindowFacts DEF WebTypes, IsOpen
  <1> QED BY <1>1 DEF PlaceInv, TextFor, Effective

(* A closed window keeps nothing. *)
LEMMA ClosedFacts ==
    ASSUME WebTypes, NEW w \in Windows, ~IsOpen(w)
    PROVE  /\ windows[w].cached = Null /\ ~IsDocument(windows[w].cached)
           /\ windows[w].jobs = <<>> /\ ~windows[w].isLoaded /\ ~MaySave(w)
           /\ windows[w].step \in {"idle", "copying", "copied"}
  <1>1. windows[w] \in WindowSet
    BY DEF WebTypes
  <1>2. IsFormed(windows[w])
    BY <1>1, WindowFacts
  <1>3. /\ windows[w].cached = Null /\ windows[w].jobs = <<>> /\ ~windows[w].isLoaded
        /\ windows[w].step \in {"idle", "copying", "copied"}
    BY <1>2 DEF IsFormed, IsOpen
  <1> QED BY <1>3, TextFacts DEF MaySave

LEMMA OpensKeeps ==
    ASSUME WebTypes, StoredInv, NEW w \in Windows, DatabaseOpens(w), ~isExcused'
    PROVE  StoredParts'
  <1>1. /\ StoredParts /\ ~IsOpen(w) /\ IsIdle(w) /\ \A v \in Windows : IsIdle(v)
        /\ \A v \in Windows : windows[v].records # "local"
        /\ local = Null => isLocated'
        /\ UNCHANGED <<inbox, database, local, legacy, accepted>> /\ (isLocated => isLocated')
    BY DEF StoredInv, DatabaseOpens, Mixes, IsOpen, Others, RemembersDatabase
  <1>2. PlaceInv /\ LoadedInv /\ CachedInv /\ Effective.of = accepted
    BY <1>1 DEF StoredParts
  <1>3. \A v \in Windows : ~IsOpen(v) => windows[v].cached = Null /\ windows[v].jobs = <<>> /\ ~windows[v].isLoaded
    BY ClosedFacts
  <1>4. (Effective.of = accepted)'
    BY <1>1, <1>2 DEF Effective
  <1>5. CASE local = Null
    <2>1. Moves(w, "database", Null, <<>>, "idle", windows[w].held, FALSE)
      BY <1>1, <1>3, <1>5, OpensMoves, ClosedFacts DEF Moves
    <2>2. \A v \in Windows : windows'[v].step = "idle"
      BY <1>1, <2>1 DEF Moves, IsIdle
    <2>3. OneIsBusy' /\ WritesInv'
      BY <2>2 DEF OneIsBusy, WritesInv, WritesTrue, IsIdle
    <2>4. PlaceInv'
      <3>1. \A v \in Windows : windows'[v].records \in {"unopened", "database"}
        <4>1. \A v \in Windows : windows[v].records \in {"unopened", "database"}
          BY <1>1, WindowFacts DEF WebTypes
        <4> QED BY <2>1, <4>1 DEF Moves
      <3> QED BY <1>1, <1>5, <2>2, <3>1 DEF PlaceInv, IsOpen
    <2>5. LoadedInv'
      BY <1>1, <1>2, <2>1 DEF LoadedInv, Moves, MaySave, IsOpen, TextFor
    <2>6. CachedInv'
      BY <1>1, <1>2, <2>1, <2>2, TextFacts DEF CachedInv, CachedTrue, Moves, TextFor, NewsAreDue, Kind, IsDocument, Others, IsIdle
    <2> QED BY <1>4, <2>3, <2>4, <2>5, <2>6 DEF StoredParts
  <1>6. CASE local # Null
    <2>1. Moves(w, "unopened", Null, <<>>, "copying", local, FALSE)
      BY <1>1, <1>3, <1>6, OpensMoves, ClosedFacts DEF Moves
    <2>2. \A v \in Windows : ~IsOpen(v)
      BY <1>1, <1>2, <1>6, WindowFacts DEF PlaceInv, IsOpen, WebTypes
    <2>3. \A v \in Windows : /\ windows'[v].records = "unopened" /\ windows'[v].jobs = <<>>
                             /\ windows'[v].cached = Null /\ ~windows'[v].isLoaded
      BY <1>3, <2>1, <2>2 DEF Moves, IsOpen
    <2>4. \A v \in Windows : v # w => windows'[v].step = "idle"
      BY <1>1, <2>1 DEF Moves, IsIdle
    <2>5. OneIsBusy'
      BY <2>4 DEF OneIsBusy, IsIdle
    <2>6. PlaceInv'
      BY <1>1, <1>2, <1>6, <2>1, <2>3, <2>4 DEF PlaceInv, Moves, IsOpen
    <2>7. LoadedInv' /\ CachedInv'
      BY <2>3, TextFacts DEF LoadedInv, CachedInv, CachedTrue, IsOpen, IsDocument
    <2>8. WritesInv'
      BY <2>1, <2>4 DEF WritesInv, WritesTrue, Moves
    <2> QED BY <1>4, <2>5, <2>6, <2>7, <2>8 DEF StoredParts
  <1> QED BY <1>5, <1>6

LEMMA CopyLandsKeeps ==
    ASSUME WebTypes, StoredInv, NEW w \in Windows, CopyLands(w), ~isExcused'
    PROVE  StoredParts'
  <1>1. /\ StoredParts /\ windows[w].step = "copying" /\ database' = windows[w].held
        /\ UNCHANGED <<inbox, local, isLocated, legacy, accepted>>
    BY DEF StoredInv, CopyLands
  <1>2. OneIsBusy /\ PlaceInv /\ Effective.of = accepted
    BY <1>1 DEF StoredParts
  <1>3. /\ \A v \in Windows : v # w => windows[v].step = "idle"
        /\ \A v \in Windows : ~IsOpen(v)
        /\ windows[w].held = local /\ local # Null
    <2>1. windows[w] \in WindowSet
      BY DEF WebTypes
    <2>2. windows[w].held # Null
      BY <1>1, <2>1, WindowFacts DEF IsFormed
    <2> QED BY <1>1, <1>2, <2>2 DEF OneIsBusy, PlaceInv, IsIdle
  <1>4. \A v \in Windows : windows[v].cached = Null /\ windows[v].jobs = <<>> /\ ~windows[v].isLoaded
    BY <1>3, ClosedFacts
  <1>5. Moves(w, "unopened", Null, <<>>, "copied", local, FALSE)
    BY <1>3, <1>4, CopyLandsMoves, ClosedFacts DEF Moves
  <1>6. \A v \in Windows : /\ windows'[v].records = "unopened" /\ windows'[v].jobs = <<>>
                           /\ windows'[v].cached = Null /\ ~windows'[v].isLoaded
    BY <1>3, <1>4, <1>5 DEF Moves, IsOpen
  <1>7. \A v \in Windows : v # w => windows'[v].step = "idle"
    BY <1>3, <1>5 DEF Moves
  <1>8. OneIsBusy'
    BY <1>7 DEF OneIsBusy, IsIdle
  <1>9. PlaceInv'
    BY <1>1, <1>3, <1>5, <1>6, <1>7 DEF PlaceInv, Moves, IsOpen
  <1>10. LoadedInv' /\ CachedInv'
    BY <1>6, TextFacts DEF LoadedInv, CachedInv, CachedTrue, IsOpen, IsDocument
  <1>11. WritesInv'
    BY <1>5, <1>7 DEF WritesInv, WritesTrue, Moves
  <1>12. (Effective.of = accepted)'
    BY <1>1, <1>2, <1>3 DEF Effective
  <1> QED BY <1>8, <1>9, <1>10, <1>11, <1>12 DEF StoredParts

LEMMA CopyIsReadKeeps ==
    ASSUME WebTypes, StoredInv, NEW w \in Windows, CopyIsRead(w), ~isExcused'
    PROVE  StoredParts'
  <1>1. /\ StoredParts /\ windows[w].step = "copied" /\ database = windows[w].held
        /\ isLocated' /\ local' = LocalAfterCopy(w)
        /\ UNCHANGED <<inbox, database, legacy, accepted>>
    BY DEF StoredInv, CopyIsRead
  <1>2. OneIsBusy /\ PlaceInv /\ Effective.of = accepted
    BY <1>1 DEF StoredParts
  <1>3. /\ \A v \in Windows : v # w => windows[v].step = "idle"
        /\ \A v \in Windows : ~IsOpen(v)
        /\ windows[w].held = local /\ local # Null
    <2>1. windows[w] \in WindowSet
      BY DEF WebTypes
    <2>2. windows[w].held # Null
      BY <1>1, <2>1, WindowFacts DEF IsFormed
    <2> QED BY <1>1, <1>2, <2>2 DEF OneIsBusy, PlaceInv, IsIdle
  <1>4. \A v \in Windows : windows[v].cached = Null /\ windows[v].jobs = <<>> /\ ~windows[v].isLoaded
    BY <1>3, ClosedFacts
  <1>5. Moves(w, "database", Null, <<>>, "idle", Null, FALSE)
    BY <1>3, <1>4, CopyIsReadMoves, ClosedFacts DEF Moves
  <1>6. \A v \in Windows : /\ windows'[v].jobs = <<>> /\ windows'[v].cached = Null /\ ~windows'[v].isLoaded
                           /\ windows'[v].step = "idle"
                           /\ v # w => windows'[v].records = "unopened"
    BY <1>3, <1>4, <1>5 DEF Moves, IsOpen
  <1>7. local' = Null
    BY <1>1, <1>3 DEF LocalAfterCopy
  <1>8. OneIsBusy'
    BY <1>6 DEF OneIsBusy, IsIdle
  <1>9. PlaceInv'
    BY <1>1, <1>5, <1>6, <1>7 DEF PlaceInv, Moves, IsOpen
  <1>10. LoadedInv' /\ CachedInv'
    BY <1>6, TextFacts DEF LoadedInv, CachedInv, CachedTrue, MaySave, IsDocument
  <1>11. WritesInv'
    BY <1>6 DEF WritesInv, WritesTrue
  <1>12. (Effective.of = accepted)'
    BY <1>1, <1>2, <1>3, <1>7 DEF Effective
  <1> QED BY <1>8, <1>9, <1>10, <1>11, <1>12 DEF StoredParts

LEMMA RefusesKeeps ==
    ASSUME WebTypes, StoredInv, NEW w \in Windows, DatabaseRefuses(w), ~isExcused'
    PROVE  StoredParts'
  <1>1. /\ StoredParts /\ ~IsOpen(w) /\ \A v \in Windows : v # w => IsIdle(v) /\ windows[v].records # "database"
        /\ UNCHANGED <<inbox, database, local, isLocated, legacy, accepted>>
    BY DEF StoredInv, DatabaseRefuses, Mixes, Others
  <1>2. PlaceInv /\ LoadedInv /\ CachedInv /\ Effective.of = accepted
    BY <1>1 DEF StoredParts
  <1>3. PICK r \in {"unopened", "local"} :
          /\ r = WithoutDatabase(IF IsIdle(w) THEN isLocated ELSE windows[w].usedDatabase)
          /\ Moves(w, r, Null, <<>>, "idle", Null, FALSE)
    BY <1>1, RefusesMoves, ClosedFacts DEF Moves
  <1>4. \A v \in Windows : windows'[v].step = "idle" /\ windows'[v].records \in {"unopened", "local"}
    <2>1. \A v \in Windows : v # w => windows[v].step = "idle" /\ windows[v].records \in {"unopened", "local"}
      BY <1>1, WindowFacts DEF IsIdle, WebTypes
    <2> QED BY <1>3, <2>1 DEF Moves
  <1>5. r = "local" /\ local = Null => database = Null
    <2>1. CASE IsIdle(w)
      BY <1>2, <1>3, <2>1 DEF PlaceInv, WithoutDatabase
    <2>2. CASE ~IsIdle(w)
      <3>1. windows[w] \in WindowSet
        BY DEF WebTypes
      <3>2. windows[w].step \in {"copying", "copied"} /\ windows[w].held # Null
        BY <1>1, <2>2, <3>1, WindowFacts, ClosedFacts DEF IsFormed, IsIdle
      <3> QED BY <1>2, <3>2 DEF PlaceInv
    <2> QED BY <2>1, <2>2
  <1>6. OneIsBusy' /\ WritesInv'
    BY <1>4 DEF OneIsBusy, WritesInv, WritesTrue, IsIdle
  <1>7. PlaceInv'
    BY <1>1, <1>2, <1>3, <1>4, <1>5 DEF PlaceInv, Moves, IsOpen
  <1>8. LoadedInv'
    BY <1>1, <1>2, <1>3 DEF LoadedInv, Moves, MaySave, IsOpen, TextFor
  <1>9. CachedInv'
    <2>1. \A v \in Windows : windows[v].step # "written" 
      BY <1>1, ClosedFacts DEF IsIdle
    <2>2. SUFFICES ASSUME NEW v \in Windows, IsDocument(windows'[v].cached)
                   PROVE  TextFor(v)' # Damaged /\ (windows'[v].cached.of = accepted' \/ v \in inbox')
      BY DEF CachedInv, CachedTrue, NewsAreDue
    <2>3. v # w /\ windows'[v] = windows[v] /\ IsIdle(v)
      BY <1>1, <1>3, <2>2, TextFacts DEF Moves, IsDocument
    <2> QED BY <1>1, <1>2, <2>1, <2>2, <2>3 DEF CachedInv, CachedTrue, NewsAreDue, TextFor, Others, IsIdle
  <1>10. (Effective.of = accepted)'
    BY <1>1, <1>2 DEF Effective
  <1> QED BY <1>6, <1>7, <1>8, <1>9, <1>10 DEF StoredParts

(* A step that moves no window and no text leaves the place as it is. *)
LEMMA PlaceStays ==
    ASSUME PlaceInv, UNCHANGED <<local, database, isLocated>>,
           \A v \in Windows :
              /\ windows'[v].records = windows[v].records
              /\ windows'[v].step \in {"copying", "copied"} =>
                    windows[v].step \in {"copying", "copied"} /\ windows'[v].held = windows[v].held
    PROVE  PlaceInv'
  BY DEF PlaceInv, IsOpen

LEMMA LoadedStays ==
    ASSUME LoadedInv, UNCHANGED <<local, database>>, legacy' = legacy \/ legacy' = Null,
           \A v \in Windows : windows'[v].records = windows[v].records /\ (MaySave(v)' => MaySave(v))
    PROVE  LoadedInv'
  BY DEF LoadedInv, IsOpen, TextFor

(* A job that is done does not let a window save. *)
LEMMA DoneMaySave ==
    ASSUME WebTypes, NEW w \in Windows, windows[w].jobs # <<>>, windows'[w].jobs = Tail(windows[w].jobs),
           windows'[w].isLoaded => windows[w].isLoaded, MaySave(w)'
    PROVE  MaySave(w)
  <1>1. windows[w].jobs \in Seq(JobSet)
    BY WindowFacts DEF WebTypes
  <1>2. CASE windows'[w].isLoaded
    BY <1>2 DEF MaySave
  <1>3. CASE ~windows'[w].isLoaded
    <2>1. PICK i \in DOMAIN Tail(windows[w].jobs) : Tail(windows[w].jobs)[i].kind # "load"
      BY <1>3 DEF MaySave
    <2>2. i + 1 \in DOMAIN windows[w].jobs /\ windows[w].jobs[i + 1] = Tail(windows[w].jobs)[i]
      BY <1>1, <2>1
    <2> QED BY <2>1, <2>2 DEF MaySave
  <1> QED BY <1>2, <1>3

LEMMA AsksKeep ==
    ASSUME WebTypes, StoredInv, NEW w \in Windows,
           (\E f \in Fields : Save(w, f)) \/ Load(w) \/ Reset(w) \/ RestoreBackup(w), ~isExcused'
    PROVE  StoredParts'
  <1>1. PICK job \in JobSet, loaded \in BOOLEAN :
          /\ job.kind # "load" => windows[w].isLoaded
          /\ loaded => windows[w].isLoaded
          /\ Moves(w, windows[w].records, windows[w].cached, Append(windows[w].jobs, job),
                   windows[w].step, windows[w].held, loaded)
    BY AsksMoves
  <1>2. IsOpen(w) /\ UNCHANGED <<inbox, database, local, isLocated, legacy, accepted, isExcused>>
    BY AsksMoves
  <1>3. OneIsBusy /\ PlaceInv /\ LoadedInv /\ WritesInv /\ CachedInv /\ Effective.of = accepted
    BY <1>2 DEF StoredInv, StoredParts
  <1>4. \A v \in Windows :
          /\ windows'[v].records = windows[v].records /\ windows'[v].cached = windows[v].cached
          /\ windows'[v].step = windows[v].step /\ windows'[v].held = windows[v].held
    BY <1>1 DEF Moves
  <1>5. \A v \in Windows : windows[v].step \in {"setting aside", "writing", "written"} =>
          Head(windows'[v].jobs) = Head(windows[v].jobs)
    <2>1. ASSUME windows[w].step \in {"setting aside", "writing", "written"}
          PROVE  Head(Append(windows[w].jobs, job)) = Head(windows[w].jobs)
      <3>1. windows[w].jobs \in Seq(JobSet) /\ windows[w].jobs # <<>>
        BY <2>1, BusyIsOpen
      <3> QED BY <3>1
    <2> QED BY <1>1, <2>1 DEF Moves
  <1>6. OneIsBusy'
    BY <1>3, <1>4 DEF OneIsBusy, IsIdle
  <1>7. PlaceInv'
    BY <1>2, <1>3, <1>4, PlaceStays
  <1>8. LoadedInv'
    <2>1. MaySave(w)' => MaySave(w)
      <3>1. windows[w].jobs \in Seq(JobSet)
        BY WindowFacts DEF WebTypes
      <3>2. \A i \in DOMAIN Append(windows[w].jobs, job) :
              \/ i \in DOMAIN windows[w].jobs /\ Append(windows[w].jobs, job)[i] = windows[w].jobs[i]
              \/ Append(windows[w].jobs, job)[i] = job
        BY <3>1
      <3> QED BY <1>1, <3>2 DEF MaySave, Moves
    <2>2. \A v \in Windows : MaySave(v)' => MaySave(v)
      BY <1>1, <2>1 DEF Moves, MaySave
    <2> QED BY <1>2, <1>3, <1>4, <2>2, LoadedStays
  <1>9. \A v \in Windows : TextFor(v)' = TextFor(v) /\ (NewsAreDue(v)' <=> NewsAreDue(v))
    BY <1>2, <1>4 DEF TextFor, NewsAreDue, Others
  <1>10. WritesInv' /\ CachedInv'
    <2> SUFFICES ASSUME NEW v \in Windows PROVE WritesTrue(v)' /\ CachedTrue(v)'
      BY DEF WritesInv, CachedInv
    <2>1. windows[v].step \in {"setting aside", "writing", "written"} =>
            Kind(v)' = Kind(v) /\ SavedData(v)' = SavedData(v)
      BY <1>2, <1>5 DEF Kind, SavedData
    <2>2. WritesTrue(v) /\ CachedTrue(v)
      BY <1>3 DEF WritesInv, CachedInv
    <2>3. WritesTrue(v)'
      BY <1>2, <1>4, <1>9, <2>1, <2>2 DEF WritesTrue
    <2>4. CachedTrue(v)'
      BY <1>2, <1>4, <1>9, <2>1, <2>2 DEF CachedTrue
    <2> QED BY <2>3, <2>4
  <1>11. (Effective.of = accepted)'
    BY <1>2, <1>3 DEF Effective
  <1> QED BY <1>6, <1>7, <1>8, <1>9, <1>10, <1>11 DEF StoredParts

(* A window goes on while no other is busy: only its own part of the       *)
(* invariant is at stake.                                                  *)
LEMMA OneWorks ==
    ASSUME WebTypes, StoredParts, NEW w \in Windows, \A v \in Windows : v # w => IsIdle(v),
           \A v \in Windows : v # w => windows'[v] = windows[v],
           windows'[w].records = windows[w].records, windows'[w].step \notin {"copying", "copied", "written"},
           UNCHANGED <<database, local, isLocated, accepted>>,
           legacy' = legacy \/ (legacy' = Null /\ TextFor(w) # Null),
           \A v \in Windows : v # w => (v \in inbox => v \in inbox'),
           windows[w].step = "written" => \A v \in Windows : v # w /\ IsOpen(v) => v \in inbox',
           MaySave(w)' => MaySave(w) \/ TextFor(w) # Null \/ legacy = Null,
           WritesTrue(w)', CachedTrue(w)'
    PROVE  StoredParts'
  <1>1. PlaceInv /\ LoadedInv /\ CachedInv /\ Effective.of = accepted
    BY DEF StoredParts
  <1>2. \A v \in Windows : windows'[v].records = windows[v].records /\ windows'[v].step \notin {"copying", "copied", "written"}
    BY DEF IsIdle
  <1>3. \A v \in Windows : v # w => windows'[v].step = "idle" /\ windows[v].step = "idle"
    BY DEF IsIdle
  <1>4. OneIsBusy'
    BY <1>3 DEF OneIsBusy, IsIdle
  <1>5. PlaceInv'
    BY <1>1, <1>2, PlaceStays
  <1>6. \A v \in Windows : TextFor(v)' = TextFor(v)
    BY <1>2 DEF TextFor
  <1>7. LoadedInv'
    <2>1. \A v \in Windows : v # w => (MaySave(v)' <=> MaySave(v)) /\ (IsOpen(v)' <=> IsOpen(v))
      BY DEF MaySave, IsOpen
    <2>2. IsOpen(w)' <=> IsOpen(w)
      BY DEF IsOpen
    <2> QED BY <1>1, <1>6, <2>1, <2>2 DEF LoadedInv
  <1>8. WritesInv'
    BY <1>3 DEF WritesInv, WritesTrue
  <1>9. CachedInv'
    <2> SUFFICES ASSUME NEW v \in Windows, v # w PROVE CachedTrue(v)'
      BY DEF CachedInv
    <2>1. CachedTrue(v) /\ windows'[v] = windows[v] /\ windows[v].step = "idle"
      BY <1>1, <1>3 DEF CachedInv
    <2>2. IsOpen(v) /\ NewsAreDue(v) => NewsAreDue(v)'
      BY <1>3 DEF NewsAreDue, Others
    <2>3. IsDocument(windows[v].cached) => IsOpen(v)
      BY ClosedFacts
    <2> QED BY <1>6, <2>1, <2>2, <2>3 DEF CachedTrue
  <1>10. (Effective.of = accepted)'
    BY <1>1 DEF Effective, TextFor
  <1> QED BY <1>4, <1>5, <1>7, <1>8, <1>9, <1>10 DEF StoredParts

(* It begins a job while none is busy. *)
LEMMA BeginKeeps ==
    ASSUME WebTypes, StoredParts, NEW w \in Windows, \A v \in Windows : IsIdle(v),
           \A v \in Windows : v # w => windows'[v] = windows[v],
           windows'[w].records = windows[w].records, windows'[w].step \notin {"copying", "copied", "written"},
           UNCHANGED <<inbox, database, local, isLocated, legacy, accepted>>,
           MaySave(w)' => MaySave(w) \/ TextFor(w) # Null \/ legacy = Null,
           WritesTrue(w)', CachedTrue(w)'
    PROVE  StoredParts'
  <1>1. windows[w].step # "written"
    BY DEF IsIdle
  <1> QED BY <1>1, OneWorks

LEMMA BeginSaveKeeps ==
    ASSUME WebTypes, StoredInv, NEW w \in Windows, BeginSave(w), ~isExcused'
    PROVE  StoredParts'
  <1>1. /\ StoredParts /\ IsNext(w, "save") /\ IsOpen(w) /\ IsIdle(w)
        /\ windows[w].jobs # <<>> /\ Kind(w) = "save"
        /\ \A v \in Windows : IsIdle(v)
        /\ UNCHANGED <<inbox, database, local, isLocated, legacy, accepted>>
        /\ IsDocument(windows[w].cached) => w \notin inbox
    BY DEF StoredInv, BeginSave, Mixes, Others, IsNext, Kind
  <1>2. PlaceInv /\ LoadedInv /\ CachedInv /\ Effective.of = accepted
    BY <1>1 DEF StoredParts
  <1>3. windows[w].jobs \in Seq(JobSet) /\ windows[w].cached \in StoreTexts /\ TextFor(w) \in StoreTexts
    BY WindowFacts DEF WebTypes, TextFor
  <1>4. ASSUME IsDocument(windows[w].cached)
        PROVE  windows[w].cached.of = accepted /\ TextFor(w) # Damaged
    BY <1>1, <1>2, <1>4 DEF CachedInv, CachedTrue, NewsAreDue, IsIdle, Others
  <1>5. SaveBase(w) # Damaged => SaveBase(w).of = accepted /\ TextFor(w) # Damaged
    <2>1. CASE IsDocument(windows[w].cached)
      BY <1>4, <2>1 DEF SaveBase
    <2>2. CASE ~IsDocument(windows[w].cached) /\ TextFor(w) # Null
      BY <1>1, <1>2, <2>2, EffectiveIs DEF SaveBase
    <2>3. CASE ~IsDocument(windows[w].cached) /\ TextFor(w) = Null
      <3>1. MaySave(w)
        <4>1. 1 \in DOMAIN windows[w].jobs /\ windows[w].jobs[1].kind = "save"
          BY <1>1, <1>3 DEF Kind
        <4> QED BY <4>1 DEF MaySave
      <3>2. legacy = Null
        BY <1>1, <1>2, <2>3, <3>1 DEF LoadedInv
      <3>3. Effective = Document(NoData)
        BY <1>1, <1>2, <2>3, <3>2, EffectiveIs
      <3> QED BY <1>2, <2>3, <3>3, TextFacts DEF SaveBase
    <2> QED BY <2>1, <2>2, <2>3
  <1>6. CASE /\ SaveBase(w) = Damaged
             /\ Moves(w, windows[w].records, windows[w].cached, Tail(windows[w].jobs), "idle", Null,
                      windows[w].isLoaded)
    <2>1. MaySave(w)' => MaySave(w)
      BY <1>1, <1>6, DoneMaySave DEF Moves
    <2>2. WritesTrue(w)'
      BY <1>6 DEF WritesTrue, Moves
    <2>3. CachedTrue(w)'
      <3>1. ~IsDocument(windows[w].cached)
        BY <1>3, <1>6, TextFacts DEF SaveBase
      <3> QED BY <1>6, <3>1 DEF CachedTrue, Moves, IsDocument
    <2> QED BY <1>1, <1>6, <2>1, <2>2, <2>3, BeginKeeps DEF Moves
  <1>7. CASE /\ SaveBase(w) # Damaged
             /\ Moves(w, windows[w].records,
                      IF IsDocument(windows[w].cached) THEN SaveData(w) ELSE windows[w].cached,
                      windows[w].jobs, "writing", SaveData(w), windows[w].isLoaded)
    <2>1. MaySave(w)' => MaySave(w)
      BY <1>7 DEF Moves, MaySave
    <2>2. /\ windows'[w].step = "writing" /\ Kind(w)' = "save" /\ windows'[w].held = SaveData(w)
          /\ IsDocument(windows'[w].cached) => windows'[w].cached = SaveData(w)
      BY <1>1, <1>7 DEF Moves, Kind, IsDocument
    <2>3. SaveData(w).of = SavedData(w)'
      BY <1>1, <1>5, <1>7, BeginSaveMoves DEF SavedData, Moves
    <2>4. TextFor(w)' # Damaged
      BY <1>1, <1>5, <1>7 DEF TextFor, Moves
    <2>5. WritesTrue(w)' /\ CachedTrue(w)'
      BY <2>2, <2>3, <2>4 DEF WritesTrue, CachedTrue
    <2> QED BY <1>1, <1>7, <2>1, <2>5, BeginKeeps DEF Moves
  <1> QED BY <1>6, <1>7, BeginSaveMoves

LEMMA BeginLoadKeeps ==
    ASSUME WebTypes, StoredInv, NEW w \in Windows, BeginLoad(w), ~isExcused'
    PROVE  StoredParts'
  <1>1. /\ StoredParts /\ IsNext(w, "load") /\ IsOpen(w) /\ IsIdle(w)
        /\ windows[w].jobs # <<>> /\ Kind(w) = "load"
        /\ \A v \in Windows : IsIdle(v)
        /\ UNCHANGED <<inbox, database, local, isLocated, legacy, accepted>>
    BY DEF StoredInv, BeginLoad, Mixes, Others, IsNext, Kind
  <1>2. PlaceInv /\ LoadedInv /\ CachedInv /\ Effective.of = accepted /\ CachedTrue(w)
    BY <1>1 DEF StoredParts, CachedInv
  <1>3. Effective = IF TextFor(w) # Null THEN TextFor(w) ELSE IF legacy # Null THEN legacy ELSE Document(NoData)
    BY <1>1, <1>2, EffectiveIs
  <1>4. windows'[w].records = windows[w].records => TextFor(w)' = TextFor(w)
    BY <1>1 DEF TextFor
  <1>5. NewsAreDue(w) => w \in inbox'
    BY <1>1 DEF NewsAreDue, Others, IsIdle
  <1>6. CASE /\ TextFor(w) = Null /\ legacy = Null
             /\ Moves(w, windows[w].records, windows[w].cached, Tail(windows[w].jobs), "idle", Null, TRUE)
    <2>1. WritesTrue(w)'
      BY <1>6 DEF WritesTrue, Moves
    <2>2. CachedTrue(w)'
      BY <1>1, <1>2, <1>4, <1>5, <1>6 DEF CachedTrue, Moves, IsDocument, NewsAreDue, IsIdle
    <2> QED BY <1>1, <1>6, <2>1, <2>2, BeginKeeps DEF Moves
  <1>7. CASE /\ TextFor(w) = Null /\ legacy # Null
             /\ Moves(w, windows[w].records, windows[w].cached, windows[w].jobs, "writing", legacy,
                      windows[w].isLoaded)
    <2>1. MaySave(w)' => MaySave(w)
      BY <1>7 DEF Moves, MaySave
    <2>2. WritesTrue(w)'
      BY <1>1, <1>2, <1>3, <1>7 DEF WritesTrue, Moves, Kind
    <2>3. CachedTrue(w)'
      BY <1>1, <1>2, <1>4, <1>5, <1>7 DEF CachedTrue, Moves, IsDocument, NewsAreDue, IsIdle
    <2> QED BY <1>1, <1>7, <2>1, <2>2, <2>3, BeginKeeps DEF Moves
  <1>8. CASE /\ TextFor(w) = Damaged
             /\ Moves(w, windows[w].records, windows[w].cached, windows[w].jobs, "setting aside", Damaged,
                      windows[w].isLoaded)
    <2>1. MaySave(w)' => MaySave(w)
      BY <1>8 DEF Moves, MaySave
    <2>2. WritesTrue(w)'
      BY <1>4, <1>8 DEF WritesTrue, Moves
    <2>3. CachedTrue(w)'
      BY <1>2, <1>8 DEF CachedTrue, Moves, IsDocument
    <2> QED BY <1>1, <1>8, <2>1, <2>2, <2>3, BeginKeeps DEF Moves
  <1>9. CASE /\ TextFor(w) \in Documents
             /\ Moves(w, windows[w].records, TextFor(w), Tail(windows[w].jobs), "idle", Null, TRUE)
    <2>1. TextFor(w) # Null /\ TextFor(w) # Damaged
      BY <1>9, TextFacts
    <2>2. WritesTrue(w)'
      BY <1>9 DEF WritesTrue, Moves
    <2>3. CachedTrue(w)'
      BY <1>1, <1>2, <1>3, <1>4, <1>9, <2>1 DEF CachedTrue, Moves
    <2> QED BY <1>1, <1>9, <2>1, <2>2, <2>3, BeginKeeps DEF Moves
  <1> QED BY <1>6, <1>7, <1>8, <1>9, BeginLoadMoves

LEMMA BeginRestoreKeeps ==
    ASSUME WebTypes, StoredInv, NEW w \in Windows, BeginRestore(w), ~isExcused'
    PROVE  StoredParts'
  <1>1. /\ StoredParts /\ IsNext(w, "restore") /\ Kind(w) = "restore"
        /\ \A v \in Windows : IsIdle(v)
        /\ UNCHANGED <<inbox, database, local, isLocated, legacy, accepted>>
    BY DEF StoredInv, BeginRestore, Mixes, Others, IsNext, Kind
  <1>2. Moves(w, windows[w].records, Null, windows[w].jobs, "writing", Head(windows[w].jobs).text,
              windows[w].isLoaded)
    BY BeginRestoreMoves
  <1>3. MaySave(w)' => MaySave(w)
    BY <1>2 DEF Moves, MaySave
  <1>4. WritesTrue(w)' /\ CachedTrue(w)'
    BY <1>1, <1>2, TextFacts DEF WritesTrue, CachedTrue, Moves, Kind, IsDocument
  <1> QED BY <1>1, <1>2, <1>3, <1>4, BeginKeeps DEF Moves

LEMMA BeginResetKeeps ==
    ASSUME WebTypes, StoredInv, NEW w \in Windows, BeginReset(w), ~isExcused'
    PROVE  StoredParts'
  <1>1. /\ StoredParts /\ IsOpen(w) /\ \A v \in Windows : v # w => IsIdle(v) /\ ~IsOpen(v)
        /\ legacy = Null /\ (windows[w].records = "local" => database = Null)
        /\ local' = Null /\ accepted' = NoData /\ UNCHANGED <<isLocated, legacy>>
        /\ database' = (IF windows[w].records = "database" THEN Null ELSE database)
    BY DEF StoredInv, BeginReset, Mixes, Others, IsNext, LeavesBehind
  <1>2. database' = Null
    <2>1. windows[w].records \in {"database", "local"}
      BY <1>1, WindowFacts DEF WebTypes, IsOpen
    <2> QED BY <1>1, <2>1
  <1>3. Moves(w, "unopened", Null, <<>>, "idle", ClosedWindow.held, FALSE)
    BY ClosedMoves
  <1>4. \A v \in Windows : windows'[v].records = "unopened" /\ windows'[v].step = "idle" /\ windows'[v].cached = Null
    <2>1. \A v \in Windows : v # w => windows[v].cached = Null
      BY <1>1, ClosedFacts
    <2> QED BY <1>1, <1>3, <2>1 DEF Moves, IsOpen, IsIdle
  <1>5. OneIsBusy' /\ WritesInv'
    BY <1>4 DEF OneIsBusy, IsIdle, WritesInv, WritesTrue
  <1>6. PlaceInv'
    BY <1>2, <1>4 DEF PlaceInv, IsOpen
  <1>7. LoadedInv' /\ CachedInv'
    BY <1>4, TextFacts DEF LoadedInv, CachedInv, CachedTrue, IsOpen, IsDocument
  <1>8. (Effective.of = accepted)'
    <2>1. Effective' = Document(NoData)
      BY <1>1, <1>2 DEF Effective
    <2> QED BY <1>1, <2>1, TextFacts
  <1> QED BY <1>5, <1>6, <1>7, <1>8 DEF StoredParts

(* Outside the excused cases a busy window is the only one. *)
LEMMA BusyIsAlone ==
    ASSUME OneIsBusy, NEW w \in Windows, ~IsIdle(w)
    PROVE  \A v \in Windows : v # w => IsIdle(v)
  BY DEF OneIsBusy

LEMMA SetAsideKeeps ==
    ASSUME WebTypes, StoredInv, NEW w \in Windows, SetAside(w), ~isExcused'
    PROVE  StoredParts'
  <1>1. /\ StoredParts /\ windows[w].step = "setting aside"
        /\ UNCHANGED <<inbox, database, local, isLocated, legacy, accepted>>
    BY DEF StoredInv, SetAside
  <1>2. /\ OneIsBusy /\ PlaceInv /\ WritesTrue(w) /\ CachedTrue(w) /\ Effective.of = accepted
    BY <1>1 DEF StoredParts, WritesInv, CachedInv
  <1>3. IsOpen(w) /\ Kind(w) = "load" /\ \A v \in Windows : v # w => IsIdle(v)
    BY <1>1, <1>2, BusyIsOpen, BusyIsAlone DEF IsIdle
  <1>4. Moves(w, windows[w].records, windows[w].cached, windows[w].jobs, "writing", Document(NoData),
              windows[w].isLoaded)
    BY SetAsideMoves
  <1>5. TextFor(w) = Damaged /\ ~IsDocument(windows[w].cached)
    BY <1>1, <1>2 DEF WritesTrue, CachedTrue
  <1>6. accepted = NoData
    BY <1>2, <1>3, <1>5, EffectiveIs, TextFacts
  <1>7. MaySave(w)' => MaySave(w)
    BY <1>4 DEF Moves, MaySave
  <1>8. WritesTrue(w)' /\ CachedTrue(w)'
    BY <1>1, <1>3, <1>4, <1>5, <1>6, TextFacts DEF WritesTrue, CachedTrue, Moves, Kind, IsDocument
  <1> QED BY <1>1, <1>3, <1>4, <1>7, <1>8, OneWorks DEF Moves

LEMMA FailsKeeps ==
    ASSUME WebTypes, StoredInv, NEW w \in Windows, WriteFails(w), ~isExcused'
    PROVE  StoredParts'
  <1>1. /\ StoredParts /\ windows[w].step \in {"writing", "setting aside"}
        /\ UNCHANGED <<inbox, database, local, isLocated, legacy, accepted>>
    BY DEF StoredInv, WriteFails
  <1>2. OneIsBusy /\ CachedTrue(w)
    BY <1>1 DEF StoredParts, CachedInv
  <1>3. windows[w].jobs # <<>> /\ \A v \in Windows : v # w => IsIdle(v)
    BY <1>1, <1>2, BusyIsOpen, BusyIsAlone DEF IsIdle
  <1>4. Moves(w, windows[w].records, CachedAfterError(w), Tail(windows[w].jobs), "idle", Null,
              windows[w].isLoaded)
    BY FailsMoves
  <1>5. MaySave(w)' => MaySave(w)
    BY <1>3, <1>4, DoneMaySave DEF Moves
  <1>6. WritesTrue(w)'
    BY <1>4 DEF WritesTrue, Moves
  <1>7. CachedTrue(w)'
    <2>1. NewsAreDue(w) => NewsAreDue(w)'
      BY <1>1, <1>3 DEF NewsAreDue, IsIdle, Others
    <2>2. TextFor(w)' = TextFor(w)
      BY <1>1, <1>4 DEF TextFor, Moves
    <2>3. CASE Kind(w) = "load"
      BY <1>1, <1>2, <1>4, <2>1, <2>2, <2>3 DEF CachedTrue, CachedAfterError, Moves, Kind, IsDocument
    <2>4. CASE Kind(w) # "load"
      BY <1>4, <2>4, TextFacts DEF CachedTrue, CachedAfterError, Moves, Kind, IsDocument
    <2> QED BY <2>3, <2>4
  <1> QED BY <1>1, <1>3, <1>4, <1>5, <1>6, <1>7, OneWorks DEF Moves

LEMMA ResolvesKeeps ==
    ASSUME WebTypes, StoredInv, NEW w \in Windows, WriteResolves(w), ~isExcused'
    PROVE  StoredParts'
  <1>1. /\ StoredParts /\ windows[w].step = "written"
        /\ inbox' = inbox \union {v \in Others(w) : IsOpen(v)}
        /\ legacy' = legacy \/ legacy' = Null
        /\ UNCHANGED <<database, local, isLocated, accepted>>
    BY DEF StoredInv, WriteResolves
  <1>2. OneIsBusy /\ WritesTrue(w) /\ CachedTrue(w)
    BY <1>1 DEF StoredParts, WritesInv, CachedInv
  <1>3. windows[w].held \in Documents /\ \A v \in Windows : v # w => IsIdle(v)
    BY <1>1, <1>2, BusyIsOpen, BusyIsAlone DEF IsIdle
  <1>4. Moves(w, windows[w].records, IF Kind(w) = "save" THEN windows[w].held ELSE windows[w].cached,
              Tail(windows[w].jobs), "idle", Null, windows[w].isLoaded \/ Kind(w) = "load")
    BY ResolvesMoves
  <1>5. TextFor(w) = windows[w].held /\ TextFor(w) # Null /\ TextFor(w) # Damaged /\ windows[w].held.of = accepted
    BY <1>1, <1>2, <1>3, TextFacts DEF WritesTrue
  <1>6. WritesTrue(w)'
    BY <1>4 DEF WritesTrue, Moves
  <1>7. CachedTrue(w)'
    <2>1. NewsAreDue(w) => NewsAreDue(w)'
      BY <1>1, <1>3 DEF NewsAreDue, IsIdle, Others
    <2>2. TextFor(w)' = TextFor(w)
      BY <1>1, <1>4 DEF TextFor, Moves
    <2>3. CASE Kind(w) = "save"
      BY <1>1, <1>4, <1>5, <2>2, <2>3 DEF CachedTrue, Moves
    <2>4. CASE Kind(w) # "save"
      BY <1>1, <1>2, <1>4, <1>5, <2>1, <2>2, <2>4 DEF CachedTrue, Moves, IsDocument
    <2> QED BY <2>3, <2>4
  <1>8. \A v \in Windows : v # w => (v \in inbox \/ IsOpen(v) => v \in inbox')
    BY <1>1 DEF Others
  <1> QED BY <1>1, <1>3, <1>4, <1>5, <1>6, <1>7, <1>8, OneWorks DEF Moves

LEMMA LandsKeeps ==
    ASSUME WebTypes, StoredInv, NEW w \in Windows, WriteLands(w), ~isExcused'
    PROVE  StoredParts'
  <1> DEFINE job == Head(windows[w].jobs)
             held == windows[w].held
  <1>1. /\ StoredParts /\ windows[w].step = "writing" /\ Put(w, held)
        /\ UNCHANGED <<inbox, isLocated, legacy>>
    BY DEF StoredInv, WriteLands
  <1>2. OneIsBusy /\ PlaceInv /\ WritesTrue(w) /\ CachedTrue(w)
    BY <1>1 DEF StoredParts, WritesInv, CachedInv
  <1>3. /\ IsOpen(w) /\ held \in Documents /\ held # Null /\ held # Damaged
        /\ job.kind \in {"save", "load", "restore"}
        /\ job.kind = "restore" => held = job.text /\ windows[w].cached = Null
        /\ \A v \in Windows : v # w => IsIdle(v)
    BY <1>1, <1>2, BusyIsOpen, BusyIsAlone, TextFacts DEF IsIdle, Kind
  <1>4. windows[w].records \in {"database", "local"}
    BY <1>3, WindowFacts DEF WebTypes, IsOpen
  <1>5. Moves(w, windows[w].records, windows[w].cached, windows[w].jobs, "written", held, windows[w].isLoaded)
    BY LandsMoves
  <1>6. held.of = accepted'
    <2>1. CASE job.kind = "save"
      BY <1>1, <1>2, <2>1 DEF WriteLands, WritesTrue, Kind, SavedData
    <2>2. CASE job.kind = "load"
      BY <1>1, <1>2, <2>2 DEF WriteLands, WritesTrue, Kind
    <2>3. CASE job.kind = "restore"
      BY <1>3, <2>3 DEF WriteLands
    <2> QED BY <1>3, <2>1, <2>2, <2>3
  <1>7. \A v \in Windows :
          /\ windows'[v].records = windows[v].records /\ windows'[v].cached = windows[v].cached
          /\ windows'[v].jobs = windows[v].jobs
          /\ v # w => windows'[v].step = "idle" /\ windows'[v] = windows[v]
    BY <1>3, <1>5 DEF Moves, IsIdle
  <1>8. \A v \in Windows : IsOpen(v) => TextFor(v)' = held
    BY <1>1, <1>2, <1>3, <1>7 DEF TextFor, Put, PlaceInv
  <1>9. windows'[w].step = "written"
    BY <1>5 DEF Moves
  <1> HIDE DEF held, job
  <1>10. OneIsBusy'
    BY <1>7 DEF OneIsBusy, IsIdle
  <1>11. PlaceInv'
    <2>1. \A v \in Windows : windows'[v].step \notin {"copying", "copied"}
      BY <1>7, <1>9
    <2>2. CASE windows[w].records = "database"
      <3>1. local = Null /\ isLocated /\ local' = Null /\ isLocated' /\ \A v \in Windows : windows[v].records # "local"
        BY <1>1, <1>2, <1>3, <2>2 DEF PlaceInv, Put, IsOpen
      <3> QED BY <1>2, <1>7, <2>1, <3>1 DEF PlaceInv, IsOpen
    <2>3. CASE windows[w].records = "local"
      <3>1. local' = held /\ \A v \in Windows : windows[v].records # "database"
        BY <1>1, <1>2, <1>3, <2>3 DEF PlaceInv, Put, IsOpen
      <3> QED BY <1>2, <1>3, <1>7, <2>1, <3>1 DEF PlaceInv, IsOpen
    <2> QED BY <1>4, <2>2, <2>3
  <1>12. LoadedInv'
    BY <1>3, <1>7, <1>8 DEF LoadedInv, IsOpen
  <1>13. WritesInv'
    <2>1. WritesTrue(w)'
      BY <1>3, <1>5, <1>6, <1>8 DEF WritesTrue, Moves
    <2> QED BY <1>7, <2>1 DEF WritesInv, WritesTrue
  <1>14. CachedInv'
    <2>1. \A v \in Windows : IsDocument(windows[v].cached) => IsOpen(v)
      BY ClosedFacts
    <2>2. \A v \in Windows : v # w => NewsAreDue(v)'
      BY <1>9 DEF NewsAreDue, Others
    <2>3. ASSUME NEW v \in Windows, v # w PROVE CachedTrue(v)'
      BY <1>3, <1>7, <1>8, <2>1, <2>2, <2>3 DEF CachedTrue
    <2>4. CachedTrue(w)'
      <3> SUFFICES ASSUME IsDocument(windows[w].cached)
                   PROVE  windows[w].cached.of = accepted' \/ w \in inbox'
        BY <1>3, <1>7, <1>8 DEF CachedTrue, NewsAreDue
      <3>1. CASE job.kind = "save"
        BY <1>1, <1>2, <1>6, <3>1 DEF WritesTrue, Kind, job, held
      <3>2. CASE job.kind = "load"
        <4>1. accepted' = accepted
          BY <3>2 DEF WriteLands, job
        <4>2. NewsAreDue(w) => w \in inbox'
          BY <1>1, <1>3 DEF NewsAreDue, Others, IsIdle
        <4> QED BY <1>2, <3>2, <4>1, <4>2 DEF CachedTrue, Kind, job
      <3>3. CASE job.kind = "restore"
        BY <1>3, <3>3, TextFacts
      <3> QED BY <1>3, <3>1, <3>2, <3>3
    <2> QED BY <2>3, <2>4 DEF CachedInv
  <1>15. (Effective.of = accepted)'
    <2>1. Effective' = held
      <3>1. CASE windows[w].records = "database"
        BY <1>1, <1>2, <1>3, <3>1 DEF PlaceInv, Put, Effective
      <3>2. CASE windows[w].records = "local"
        BY <1>1, <1>3, <3>2 DEF Put, Effective
      <3> QED BY <1>4, <3>1, <3>2
    <2> QED BY <1>6, <2>1
  <1> QED BY <1>10, <1>11, <1>12, <1>13, <1>14, <1>15 DEF StoredParts

LEMMA NewsKeeps ==
    ASSUME WebTypes, StoredInv, NEW w \in Windows, ReceiveNews(w), ~isExcused'
    PROVE  StoredParts'
  <1>1. /\ StoredParts /\ inbox' = inbox \ {w}
        /\ UNCHANGED <<database, local, isLocated, legacy, accepted>>
    BY DEF StoredInv, ReceiveNews
  <1>2. OneIsBusy /\ PlaceInv /\ LoadedInv /\ WritesInv /\ CachedInv /\ Effective.of = accepted
    BY <1>1 DEF StoredParts
  <1>3. \A v \in Windows :
          /\ windows'[v].records = windows[v].records /\ windows'[v].jobs = windows[v].jobs
          /\ windows'[v].step = windows[v].step /\ windows'[v].held = windows[v].held
          /\ windows'[v].isLoaded = windows[v].isLoaded
          /\ windows'[v].cached = IF v = w THEN Null ELSE windows[v].cached
    BY NewsMoves DEF Moves
  <1>4. OneIsBusy'
    BY <1>2, <1>3 DEF OneIsBusy, IsIdle
  <1>5. PlaceInv'
    BY <1>1, <1>2, <1>3, PlaceStays
  <1>6. LoadedInv'
    BY <1>1, <1>2, <1>3, LoadedStays DEF MaySave
  <1>7. \A v \in Windows : /\ TextFor(v)' = TextFor(v) /\ Kind(v)' = Kind(v) /\ SavedData(v)' = SavedData(v)
                           /\ v # w => (NewsAreDue(v)' <=> NewsAreDue(v))
    BY <1>1, <1>3 DEF TextFor, Kind, SavedData, NewsAreDue, Others
  <1>8. \A v \in Windows : IsDocument(windows'[v].cached) => v # w /\ windows'[v].cached = windows[v].cached
    BY <1>3, TextFacts
  <1>9. WritesInv'
    <2> SUFFICES ASSUME NEW v \in Windows PROVE WritesTrue(v)'
      BY DEF WritesInv
    <2>1. WritesTrue(v)
      BY <1>2 DEF WritesInv
    <2> QED BY <1>1, <1>3, <1>7, <1>8, <2>1 DEF WritesTrue
  <1>10. CachedInv'
    <2> SUFFICES ASSUME NEW v \in Windows PROVE CachedTrue(v)'
      BY DEF CachedInv
    <2>1. CachedTrue(v)
      BY <1>2 DEF CachedInv
    <2> QED BY <1>1, <1>3, <1>7, <1>8, <2>1 DEF CachedTrue
  <1>11. (Effective.of = accepted)'
    BY <1>1, <1>2 DEF Effective
  <1> QED BY <1>4, <1>5, <1>6, <1>9, <1>10, <1>11 DEF StoredParts

LEMMA ClosesKeeps ==
    ASSUME WebTypes, StoredInv, NEW w \in Windows, WindowCloses(w), ~isExcused'
    PROVE  StoredParts'
  <1>1. /\ StoredParts /\ inbox' = inbox \ {w}
        /\ windows[w].step = "written" => \A v \in Windows : v # w => ~IsOpen(v)
        /\ UNCHANGED <<database, local, isLocated, legacy, accepted>>
    BY DEF StoredInv, WindowCloses, Others
  <1>2. OneIsBusy /\ PlaceInv /\ LoadedInv /\ WritesInv /\ CachedInv /\ Effective.of = accepted
    BY <1>1 DEF StoredParts
  <1>3. /\ \A v \in Windows : v # w => windows'[v] = windows[v]
        /\ windows'[w].records = "unopened" /\ windows'[w].step = "idle" /\ windows'[w].cached = Null
    BY ClosedMoves DEF Moves
  <1>4. OneIsBusy'
    BY <1>2, <1>3 DEF OneIsBusy, IsIdle
  <1>5. PlaceInv'
    BY <1>1, <1>2, <1>3 DEF PlaceInv, IsOpen
  <1>6. \A v \in Windows : v # w =>
          /\ TextFor(v)' = TextFor(v) /\ Kind(v)' = Kind(v) /\ SavedData(v)' = SavedData(v)
          /\ MaySave(v)' <=> MaySave(v)
          /\ IsOpen(v)' <=> IsOpen(v)
          /\ IsOpen(v) /\ NewsAreDue(v) => NewsAreDue(v)'
    <2> SUFFICES ASSUME NEW v \in Windows, v # w
                 PROVE  /\ TextFor(v)' = TextFor(v) /\ Kind(v)' = Kind(v) /\ SavedData(v)' = SavedData(v)
                        /\ MaySave(v)' <=> MaySave(v)
                        /\ IsOpen(v)' <=> IsOpen(v)
                        /\ IsOpen(v) /\ NewsAreDue(v) => NewsAreDue(v)'
      OBVIOUS
    <2>1. windows'[v] = windows[v]
      BY <1>3
    <2>2. IsOpen(v) /\ NewsAreDue(v) => NewsAreDue(v)'
      BY <1>1, <1>3 DEF NewsAreDue, Others
    <2> QED BY <1>1, <2>1, <2>2 DEF TextFor, Kind, SavedData, MaySave, IsOpen
  <1>7. LoadedInv'
    BY <1>1, <1>2, <1>3, <1>6 DEF LoadedInv, IsOpen
  <1>8. WritesInv'
    <2> SUFFICES ASSUME NEW v \in Windows PROVE WritesTrue(v)'
      BY DEF WritesInv
    <2>1. WritesTrue(v)
      BY <1>2 DEF WritesInv
    <2> QED BY <1>1, <1>3, <1>6, <2>1 DEF WritesTrue
  <1>9. CachedInv'
    <2> SUFFICES ASSUME NEW v \in Windows PROVE CachedTrue(v)'
      BY DEF CachedInv
    <2>1. CachedTrue(v) /\ (IsDocument(windows[v].cached) => IsOpen(v))
      BY <1>2, ClosedFacts DEF CachedInv
    <2>2. CASE v = w
      BY <1>3, <2>2, TextFacts DEF CachedTrue
    <2>3. CASE v # w
      BY <1>1, <1>3, <1>6, <2>1, <2>3 DEF CachedTrue
    <2> QED BY <2>2, <2>3
  <1>10. (Effective.of = accepted)'
    BY <1>1, <1>2 DEF Effective
  <1> QED BY <1>4, <1>5, <1>7, <1>8, <1>9, <1>10 DEF StoredParts

LEMMA StepKeepsStored ==
    ASSUME WebTypes, StoredInv, NEW w \in Windows, StepOf(w)
    PROVE  StoredInv'
  <1> SUFFICES ASSUME ~isExcused' PROVE StoredParts'
    BY DEF StoredInv
  <1> QED BY OpensKeeps, CopyLandsKeeps, CopyIsReadKeeps, RefusesKeeps, AsksKeep, BeginSaveKeeps, BeginLoadKeeps,
             BeginRestoreKeeps, BeginResetKeeps, SetAsideKeeps, LandsKeeps, FailsKeeps, ResolvesKeeps,
             NewsKeeps, ClosesKeeps DEF StepOf

LEMMA InitStored == StoreInit => StoredInv /\ ReplacedInv
  <1> SUFFICES ASSUME StoreInit PROVE StoredParts /\ ReplacedInv
    BY DEF StoredInv
  <1>1. PICK s \in StoreStarts :
          database = s.database /\ local = s.local /\ isLocated = s.isLocated /\ accepted = Effective.of
    BY DEF StoreInit
  <1>2. local = Null /\ database # Null => isLocated
    BY <1>1, WebStoreAssumption
  <1>3. \A w \in Windows : windows[w].records = "unopened" /\ windows[w].step = "idle" /\ windows[w].cached = Null
    BY ClosedIsFormed DEF StoreInit
  <1>4. OneIsBusy /\ WritesInv
    BY <1>3 DEF OneIsBusy, IsIdle, WritesInv, WritesTrue
  <1>5. PlaceInv
    BY <1>2, <1>3 DEF PlaceInv, IsOpen
  <1>6. LoadedInv /\ CachedInv
    BY <1>3, TextFacts DEF LoadedInv, CachedInv, CachedTrue, IsOpen
  <1>7. ReplacedInv
    BY <1>3 DEF StoreInit, ReplacedInv, BackedUp
  <1> QED BY <1>1, <1>4, <1>5, <1>6, <1>7 DEF StoredParts

-----------------------------------------------------------------------------
(* What is replaced is kept.                                               *)

(* Another backup moves a text one place down. *)
LEMMA BackupKeeps ==
    ASSUME WebTypes, NEW text \in StoreTexts, NEW r, r.since \in Nat, r.since <= backups, IsKept(r),
           snapshots' = WithSnapshot(text), backups' = backups + 1, aside' = aside
    PROVE  IsKept(r)'
  <1>1. snapshots \in Seq(StoreTexts) /\ backups \in Nat /\ KeptSnapshots \in Nat
    BY WebStoreAssumption DEF WebTypes
  <1>2. CASE r.text \in aside \/ backups - r.since >= KeptSnapshots
    BY <1>1, <1>2 DEF IsKept
  <1>3. CASE /\ backups - r.since + 1 \in DOMAIN snapshots
             /\ snapshots[backups - r.since + 1] = r.text
    <2> DEFINE i == backups - r.since + 1
    <2>1. i \in 1..Len(snapshots) /\ snapshots[i] = r.text /\ backups' - r.since + 1 = i + 1 /\ i \in Nat
      BY <1>1, <1>3
    <2>2. CASE i + 1 <= KeptSnapshots
      <3>1. snapshots'[i + 1] = r.text
        BY <1>1, <2>1, <2>2, SnapshotFacts
      <3>2. i + 1 \in DOMAIN snapshots'
        <4>1. /\ snapshots' \in Seq(StoreTexts)
              /\ Len(snapshots') = (IF Len(snapshots) + 1 < KeptSnapshots THEN Len(snapshots) + 1 ELSE KeptSnapshots)
          BY <1>1, SnapshotFacts
        <4>2. Len(snapshots) \in Nat
          BY <1>1
        <4>3. i + 1 \in 1..Len(snapshots')
          BY <1>1, <2>1, <2>2, <4>1, <4>2, SMTT(20)
        <4> QED BY <4>1, <4>3
      <3> QED BY <2>1, <3>1, <3>2 DEF IsKept
    <2>3. CASE i + 1 > KeptSnapshots
      BY <1>1, <2>1, <2>3 DEF IsKept
    <2> QED BY <1>1, <2>1, <2>2, <2>3
  <1> QED BY <1>2, <1>3 DEF IsKept

(* A step that touches neither backups nor what is set aside. *)
LEMMA QuietKeeps ==
    ASSUME ReplacedInv, UNCHANGED <<aside, snapshots, backups, replaced>>, isExcused => isExcused',
           ~isExcused' => \A v \in Windows : windows'[v].step = "writing" =>
                \/ Kind(v)' = "save"
                \/ /\ windows[v].step = "writing" /\ TextFor(v)' = TextFor(v) /\ Kind(v)' = Kind(v)
    PROVE  ReplacedInv'
  <1>1. ASSUME ~isExcused', NEW v \in Windows PROVE BackedUp(v)'
    BY <1>1 DEF ReplacedInv, BackedUp
  <1> QED BY <1>1 DEF ReplacedInv, IsKept

LEMMA StepKeepsReplaced ==
    ASSUME WebTypes, StoredInv, ReplacedInv, NEW w \in Windows, StepOf(w)
    PROVE  ReplacedInv'
  <1>1. \A v \in Windows : v # w => windows'[v] = windows[v]
    BY WindowsStep
  <1>2. ~isExcused => OneIsBusy /\ PlaceInv
    BY DEF StoredInv, StoredParts
  <1>3. CASE DatabaseOpens(w)
    BY <1>1, <1>3, OpensMoves, QuietKeeps DEF DatabaseOpens, Moves, TextFor, Kind
  <1>4. CASE CopyLands(w) \/ CopyIsRead(w)
    <2>1. /\ UNCHANGED <<aside, snapshots, backups, replaced>> /\ (isExcused => isExcused')
          /\ windows[w].step \in {"copying", "copied"} /\ windows'[w].step # "writing"
      <3>1. CASE CopyLands(w)
        BY <3>1, CopyLandsMoves DEF CopyLands, Moves
      <3>2. CASE CopyIsRead(w)
        BY <3>2, CopyIsReadMoves DEF CopyIsRead, Moves
      <3> QED BY <1>4, <3>1, <3>2
    <2>2. ASSUME ~isExcused' PROVE \A v \in Windows : windows'[v].step # "writing"
      BY <1>1, <1>2, <2>1, <2>2, BusyIsAlone DEF IsIdle
    <2> QED BY <2>1, <2>2, QuietKeeps
  <1>5. CASE DatabaseRefuses(w)
    BY <1>1, <1>5, RefusesMoves, QuietKeeps DEF DatabaseRefuses, Moves, TextFor, Kind
  <1>6. CASE (\E f \in Fields : Save(w, f)) \/ Load(w) \/ Reset(w) \/ RestoreBackup(w)
    <2>1. PICK job \in JobSet, loaded \in BOOLEAN :
            Moves(w, windows[w].records, windows[w].cached, Append(windows[w].jobs, job),
                  windows[w].step, windows[w].held, loaded)
      BY <1>6, AsksMoves
    <2>2. UNCHANGED <<database, local, aside, snapshots, backups, replaced, isExcused>>
      BY <1>6, AsksMoves
    <2>3. windows[w].step = "writing" => Head(windows'[w].jobs) = Head(windows[w].jobs)
      <3>1. windows[w].step = "writing" => windows[w].jobs \in Seq(JobSet) /\ windows[w].jobs # <<>>
        BY BusyIsOpen
      <3> QED BY <2>1, <3>1 DEF Moves
    <2> QED BY <1>1, <2>1, <2>2, <2>3, QuietKeeps DEF Moves, TextFor, Kind
  <1>7. CASE BeginSave(w)
    <2>1. /\ UNCHANGED <<database, local, aside, snapshots, backups, replaced>> /\ (isExcused => isExcused')
          /\ windows'[w].step = "writing" => Kind(w)' = "save"
      BY <1>7, BeginSaveMoves DEF BeginSave, IsNext, Moves, Kind
    <2> QED BY <1>1, <2>1, QuietKeeps DEF TextFor, Kind
  <1>8. CASE BeginLoad(w)
    <2>1. /\ UNCHANGED <<database, local, aside, replaced>> /\ (isExcused => isExcused')
          /\ ~isExcused' => \A v \in Windows : IsIdle(v)
      BY <1>8, BeginLoadMoves DEF BeginLoad, Mixes, Others, IsNext
    <2>2. TextFor(w) \in StoreTexts /\ backups \in Nat
      BY DEF TextFor, WebTypes
    <2>3. /\ UNCHANGED <<snapshots, backups>> \/ (snapshots' = WithSnapshot(TextFor(w)) /\ backups' = backups + 1)
          /\ windows'[w].records = windows[w].records
          /\ windows'[w].step = "writing" => TextFor(w) = Null /\ windows'[w].jobs = windows[w].jobs
      BY <1>8, BeginLoadMoves DEF Moves
    <2>4. ASSUME ~isExcused', NEW v \in Windows PROVE BackedUp(v)'
      <3>1. CASE v # w
        BY <1>1, <2>1, <2>4, <3>1 DEF BackedUp, IsIdle
      <3>2. CASE v = w
        <4>1. TextFor(w)' = TextFor(w)
          BY <2>1, <2>3 DEF TextFor
        <4>2. IsNext(w, "load")
          BY <1>8, BeginLoadMoves
        <4> QED BY <2>3, <3>2, <4>1, <4>2, TextFacts DEF BackedUp, Kind, IsNext
      <3> QED BY <3>1, <3>2
    <2>5. ASSUME ~isExcused', NEW r \in replaced PROVE IsKept(r)'
      <3>1. IsKept(r) /\ r.since \in Nat /\ r.since <= backups
        BY <2>1, <2>5 DEF ReplacedInv
      <3>2. CASE UNCHANGED <<snapshots, backups>>
        BY <2>1, <3>1, <3>2 DEF IsKept
      <3>3. CASE snapshots' = WithSnapshot(TextFor(w)) /\ backups' = backups + 1
        BY <2>1, <2>2, <3>1, <3>3, BackupKeeps
      <3> QED BY <2>3, <3>2, <3>3
    <2>6. \A r \in replaced' : r.since \in Nat /\ r.since <= backups'
      BY <2>1, <2>2, <2>3 DEF ReplacedInv
    <2> QED BY <2>1, <2>4, <2>5, <2>6 DEF ReplacedInv
  <1>9. CASE BeginRestore(w)
    <2>1. /\ UNCHANGED <<database, local, aside, replaced>> /\ (isExcused => isExcused')
          /\ ~isExcused' => \A v \in Windows : IsIdle(v)
          /\ snapshots' = SnapshotsWith(TextFor(w))
          /\ backups' = IF TextFor(w) = Null THEN backups ELSE backups + 1
      BY <1>9 DEF BeginRestore, Mixes, Others, IsNext
    <2>2. TextFor(w) \in StoreTexts /\ backups \in Nat /\ snapshots \in Seq(StoreTexts)
      BY DEF TextFor, WebTypes
    <2>3. windows'[w].records = windows[w].records /\ Kind(w)' = "restore"
      BY <1>9, BeginRestoreMoves DEF Moves, Kind, IsNext
    <2>4. ASSUME ~isExcused', NEW v \in Windows PROVE BackedUp(v)'
      <3>1. CASE v # w
        BY <1>1, <2>1, <2>4, <3>1 DEF BackedUp, IsIdle
      <3>2. CASE v = w
        <4>1. TextFor(w)' = TextFor(w)
          BY <2>1, <2>3 DEF TextFor
        <4>2. TextFor(w) # Null => snapshots' # <<>> /\ snapshots'[1] = TextFor(w)
          BY <2>1, <2>2, SnapshotFacts DEF SnapshotsWith
        <4> QED BY <2>3, <3>2, <4>1, <4>2 DEF BackedUp
      <3> QED BY <3>1, <3>2
    <2>5. ASSUME ~isExcused', NEW r \in replaced PROVE IsKept(r)'
      <3>1. IsKept(r) /\ r.since \in Nat /\ r.since <= backups
        BY <2>1, <2>5 DEF ReplacedInv
      <3>2. CASE TextFor(w) = Null
        BY <2>1, <3>1, <3>2 DEF IsKept, SnapshotsWith
      <3>3. CASE TextFor(w) # Null
        <4>1. snapshots' = WithSnapshot(TextFor(w)) /\ backups' = backups + 1
          BY <2>1, <3>3 DEF SnapshotsWith
        <4> QED BY <2>1, <2>2, <3>1, <4>1, BackupKeeps
      <3> QED BY <3>2, <3>3
    <2>6. \A r \in replaced' : r.since \in Nat /\ r.since <= backups'
      BY <2>1, <2>2 DEF ReplacedInv
    <2> QED BY <2>1, <2>4, <2>5, <2>6 DEF ReplacedInv
  <1>10. CASE BeginReset(w)
    <2>1. /\ replaced' = {} /\ (~isExcused' => \A v \in Windows : IsIdle(v)) /\ windows'[w].step = "idle"
      BY <1>10, ClosedMoves DEF BeginReset, Mixes, Others, IsNext, Moves
    <2> QED BY <1>1, <2>1 DEF ReplacedInv, BackedUp, IsIdle
  <1>11. CASE SetAside(w)
    <2>1. /\ windows[w].step = "setting aside" /\ windows[w].held = Damaged /\ Kind(w) = "load"
          /\ aside' = aside \union {Damaged}
          /\ UNCHANGED <<snapshots, backups, replaced, isExcused>>
      BY <1>11, BusyIsOpen DEF SetAside
    <2>2. Kind(w)' = "load"
      BY <1>11, <2>1, SetAsideMoves DEF Moves, Kind
    <2>3. ASSUME ~isExcused', NEW v \in Windows PROVE BackedUp(v)'
      <3>1. CASE v # w
        BY <1>1, <1>2, <2>1, <2>3, <3>1, BusyIsAlone DEF BackedUp, IsIdle
      <3>2. CASE v = w
        BY <2>1, <2>2, <3>2 DEF BackedUp
      <3> QED BY <3>1, <3>2
    <2> QED BY <2>1, <2>3 DEF ReplacedInv, IsKept
  <1>12. CASE WriteLands(w)
    <2> DEFINE text == TextFor(w)
               job == Head(windows[w].jobs)
    <2>1. /\ windows[w].step = "writing" /\ windows'[w].step = "written" /\ job.kind \in {"save", "load", "restore"}
          /\ UNCHANGED <<aside, snapshots, backups, isExcused>>
          /\ replaced' = IF job.kind = "restore" \/ text = Damaged
                          THEN replaced \union {[text |-> t, since |-> backups] : t \in {text} \ {Null}}
                          ELSE replaced
      BY <1>12, LandsMoves, BusyIsOpen DEF WriteLands, Moves, Kind
    <2>2. backups \in Nat /\ snapshots \in Seq(StoreTexts)
      BY DEF WebTypes
    <2>3. ASSUME ~isExcused', NEW v \in Windows PROVE BackedUp(v)'
      BY <1>1, <1>2, <2>1, <2>3, BusyIsAlone DEF BackedUp, IsIdle
    <2>4. ASSUME NEW r \in replaced' PROVE r.since \in Nat /\ r.since <= backups'
      <3>1. r \in replaced \/ r.since = backups
        BY <2>1
      <3> QED BY <2>1, <2>2, <3>1 DEF ReplacedInv
    <2>5. ASSUME ~isExcused', NEW r \in replaced' PROVE IsKept(r)'
      <3>1. CASE r \in replaced
        BY <2>1, <2>5, <3>1 DEF ReplacedInv, IsKept
      <3>2. CASE r \notin replaced
        <4>1. /\ r.text = text /\ text # Null /\ r.since = backups
              /\ job.kind = "restore" \/ text = Damaged
          BY <2>1, <2>5, <3>2
        <4>2. BackedUp(w) /\ WritesTrue(w)
          BY <2>1, <2>5 DEF ReplacedInv, StoredInv, StoredParts, WritesInv
        <4>3. CASE job.kind = "restore"
          <5>1. snapshots # <<>> /\ snapshots[1] = text
            BY <2>1, <4>1, <4>2, <4>3 DEF BackedUp, Kind
          <5>2. 1 \in DOMAIN snapshots' /\ backups' - r.since + 1 = 1 /\ snapshots'[1] = r.text
            BY <2>1, <2>2, <4>1, <5>1
          <5> QED BY <5>2 DEF IsKept
        <4>4. CASE job.kind = "load"
          BY <2>1, <4>1, <4>2, <4>4 DEF BackedUp, Kind, IsKept
        <4>5. CASE job.kind = "save"
          BY <2>1, <4>1, <4>2, <4>5 DEF WritesTrue, Kind
        <4> QED BY <2>1, <4>3, <4>4, <4>5
      <3> QED BY <3>1, <3>2
    <2> QED BY <2>3, <2>4, <2>5 DEF ReplacedInv
  <1>13. CASE WriteFails(w) \/ WriteResolves(w) \/ WindowCloses(w)
    <2>1. /\ UNCHANGED <<database, local, aside, snapshots, backups, replaced>> /\ (isExcused => isExcused')
          /\ windows'[w].step = "idle"
      <3>1. CASE WriteFails(w)
        BY <3>1, FailsMoves DEF WriteFails, Moves
      <3>2. CASE WriteResolves(w)
        BY <3>2, ResolvesMoves DEF WriteResolves, Moves
      <3>3. CASE WindowCloses(w)
        BY <3>3, ClosedMoves DEF WindowCloses, Moves
      <3> QED BY <1>13, <3>1, <3>2, <3>3
    <2> QED BY <1>1, <2>1, QuietKeeps DEF TextFor, Kind
  <1>14. CASE ReceiveNews(w)
    BY <1>1, <1>14, NewsMoves, QuietKeeps DEF ReceiveNews, Moves, TextFor, Kind
  <1> QED BY <1>3, <1>4, <1>5, <1>6, <1>7, <1>8, <1>9, <1>10, <1>11, <1>12, <1>13, <1>14 DEF StepOf

-----------------------------------------------------------------------------

LEMMA StutterKeeps ==
    ASSUME WebInv, UNCHANGED webVars
    PROVE  WebInv'
  <1>1. WebTypes'
    BY DEF WebInv, WebTypes, webVars
  <1>2. StoredInv'
    <2> SUFFICES ASSUME StoredParts, UNCHANGED <<windows, inbox, database, local, isLocated, legacy, accepted>>
                 PROVE  StoredParts'
      BY DEF WebInv, StoredInv, webVars
    <2>1. OneIsBusy' /\ LoadedInv'
      BY DEF StoredParts, OneIsBusy, IsIdle, LoadedInv, IsOpen, MaySave, TextFor
    <2>2. PlaceInv'
      BY PlaceStays DEF StoredParts
    <2>3. WritesInv'
      BY DEF StoredParts, WritesInv, WritesTrue, TextFor, Kind, SavedData
    <2>4. CachedInv'
      BY DEF StoredParts, CachedInv, CachedTrue, TextFor, Kind, NewsAreDue, Others
    <2>5. (Effective.of = accepted)'
      BY DEF StoredParts, Effective
    <2> QED BY <2>1, <2>2, <2>3, <2>4, <2>5 DEF StoredParts
  <1>3. ReplacedInv'
    BY DEF WebInv, ReplacedInv, BackedUp, IsKept, TextFor, Kind, webVars
  <1> QED BY <1>1, <1>2, <1>3 DEF WebInv

LEMMA NextKeeps ==
    ASSUME WebInv, [StoreNext]_webVars
    PROVE  WebInv'
  <1>1. CASE StoreNext
    <2>1. PICK w \in Windows : StepOf(w)
      BY <1>1 DEF StoreNext, StepOf
    <2> QED BY <2>1, StepKeepsTypes, StepKeepsStored, StepKeepsReplaced DEF WebInv
  <1>2. CASE UNCHANGED webVars
    BY <1>2, StutterKeeps
  <1> QED BY <1>1, <1>2

(* Whatever order the windows of web.js take their steps in, a step that   *)
(* is not excused keeps all the parts of the invariant.                    *)
THEOREM InvariantHolds == StoreSpec => []WebInv
  <1>1. StoreInit => WebInv
    BY InitTypes, InitStored DEF WebInv
  <1>2. WebInv /\ [StoreNext]_webVars => WebInv'
    BY NextKeeps
  <1> QED BY <1>1, <1>2, PTL DEF StoreSpec

(* The variables of web.js keep their types, whatever windows do. *)
THEOREM TypesHold == StoreSpec => []WebTypes
  <1>1. WebInv => WebTypes
    BY DEF WebInv
  <1> QED BY <1>1, InvariantHolds, PTL

(* mutateData, readStoredData and replaceDocument keep the browser's       *)
(* document what the stored changes amount to, for any number of windows,  *)
(* changes, failures and closed windows.                                   *)
THEOREM SavedIsStored == StoreSpec => []StoredIsWhatWasSaved
  <1>1. WebInv => StoredIsWhatWasSaved
    BY DEF WebInv, StoredInv, StoredParts, StoredIsWhatWasSaved
  <1> QED BY <1>1, InvariantHolds, PTL

(* setAsideDamagedData and replaceDocument keep what they replace until    *)
(* KeptSnapshots later backups.                                            *)
THEOREM ReplacedIsHeld == StoreSpec => []ReplacedIsKept
  <1>1. WebInv => ReplacedIsKept
    BY DEF WebInv, ReplacedInv, IsKept, ReplacedIsKept
  <1> QED BY <1>1, InvariantHolds, PTL
=============================================================================
