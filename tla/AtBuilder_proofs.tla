-------------------------- MODULE AtBuilder_proofs --------------------------
(***************************************************************************)
(* Proofs about AtBuilder: the types, that the editor writes to the test   *)
(* that was opened, that the scripts follow the registry, and that the     *)
(* editor over the list implements AtDocument.                             *)
(***************************************************************************)
EXTENDS AtBuilder, AtEditor_proofs

-----------------------------------------------------------------------------
(* The invariant                                                            *)

Screens == {"off", "dashboard", "list", "script", "delete", "result"}

(* A test's script, if it has one, has the name its title gives.            *)
Cases ==
  {c \in [id : Nat, key : Nat, title : Titles, cmd : Text, desc : Text,
          path : Files \cup {None}, sel : BOOLEAN] :
     c.cmd # <<>> /\ c.desc # <<>> /\ c.path \in {None, FileOf[c.title]}}
Entries ==
  {r \in [path : Files, title : Titles, cmd : Text, desc : Text, sel : BOOLEAN] :
     r.cmd # <<>> /\ r.desc # <<>> /\ r.path = FileOf[r.title]}
Scripts == [id : Nat, cmd : Text]
Disks == [script : [Files -> Scripts], reg : Seq(Entries)]
Apps ==
  {a \in [cases : Seq(Cases), sel : Nat, filter : Filters \cup {None}, screen : Screens,
          fresh : BOOLEAN] :
     /\ Len(a.cases) <= MaxCases /\ a.sel >= 1
     /\ a.sel = 1 \/ a.sel <= Len(a.cases)
     /\ a.screen = "script" => a.cases # <<>>
     /\ a.screen = "off" => a.cases = <<>>}
Types ==
  /\ app \in Apps /\ disk \in Disks
  /\ regen \in [cases : Seq(Cases), done : Nat, failed : BOOLEAN]
  /\ loaded \in Nat /\ gone \in Nat /\ troubled \in BOOLEAN

(* Each test that has a script has one of its own, with its commands; and   *)
(* so has each line of the registry.                                        *)
Follow(cases, script) ==
  /\ \A i \in 1..Len(cases) : cases[i].path # None => script[cases[i].path].cmd = cases[i].cmd
  /\ \A i, j \in 1..Len(cases) : cases[i].path = cases[j].path /\ cases[i].path # None => i = j
Registered(reg, script) ==
  /\ \A i \in DOMAIN reg : script[reg[i].path].cmd = reg[i].cmd
  /\ OwnScripts(reg)

(* A repair goes through the registry, while the program is not running.    *)
Repairing ==
  /\ regen # Idle => app.screen = "off" /\ regen.cases = FromRegistry(disk.reg)
  /\ regen.done <= Len(regen.cases) /\ (regen.failed => troubled)
Agreed ==
  ~troubled => Registered(disk.reg, disk.script) /\ Follow(app.cases, disk.script)
Repaired ==
  ~regen.failed /\ OwnScripts(regen.cases) =>
    \A i \in 1..regen.done : disk.script[regen.cases[i].path].cmd = regen.cases[i].cmd

Inv == Types /\ Sound(ed) /\ Repairing /\ Agreed /\ Repaired

(* What a step does to the editor's screen. *)
Story ==
  \/ app.screen = "script" /\ app'.screen # "script"
  \/ app.screen # "script" /\ app'.screen # "script" /\ ed' = ed
  \/ /\ app.screen # "script" /\ app'.screen = "script" /\ ed'.undo = <<>>
     /\ app'.filter = None => Selected(app').key = loaded'
  \/ /\ app.screen = "script" /\ app'.screen = "script"
     /\ Edits(ed, ed') \/ Inserts(ed, ed')
     /\ app'.filter = app.filter /\ Selected(app').key = Selected(app).key /\ loaded' = loaded

-----------------------------------------------------------------------------
(* Lists of tests                                                           *)

LEMMA FunSeq ==
  ASSUME NEW S, NEW n \in Nat, NEW f, f \in [1..n -> S]
  PROVE  f \in Seq(S) /\ Len(f) = n /\ DOMAIN f = 1..n
OBVIOUS

LEMMA SeqIs ==
  ASSUME NEW S, NEW s \in Seq(S)
  PROVE  /\ Len(s) \in Nat /\ DOMAIN s = 1..Len(s) /\ \A i \in 1..Len(s) : s[i] \in S
         /\ s # <<>> <=> Len(s) > 0
OBVIOUS

LEMMA CaseIs ==
  ASSUME NEW c, c \in Cases
  PROVE  /\ c.id \in Nat /\ c.key \in Nat /\ c.title \in Titles /\ c.cmd \in Text /\ c.cmd # <<>>
         /\ c.desc \in Text /\ c.desc # <<>> /\ c.sel \in BOOLEAN
         /\ c.path \in {None, FileOf[c.title]} /\ FileOf[c.title] \in Files
BY DEF Cases, Files

LEMMA CaseMade ==
  ASSUME NEW cmd \in Text, cmd # <<>>, NEW desc \in Text, desc # <<>>,
         NEW title \in Titles, NEW path \in {None, FileOf[title]}, NEW sel \in BOOLEAN,
         NEW id \in Nat, NEW key \in Nat,
         NEW x, x = [id |-> id, key |-> key, title |-> title, cmd |-> cmd, desc |-> desc,
                     path |-> path, sel |-> sel]
  PROVE  x \in Cases
BY DEF Cases, Files

LEMMA CaseFields ==
  ASSUME NEW c \in Cases
  PROVE  c = [id |-> c.id, key |-> c.key, title |-> c.title, cmd |-> c.cmd, desc |-> c.desc,
              path |-> c.path, sel |-> c.sel]
BY DEF Cases

LEMMA FromRegistryIs ==
  ASSUME NEW reg \in Seq(Entries), NEW cases, cases = FromRegistry(reg)
  PROVE  /\ cases \in Seq(Cases) /\ Len(cases) <= MaxCases /\ Len(cases) <= Len(reg)
         /\ \A i \in 1..Len(cases) : /\ cases[i].path = reg[i].path /\ cases[i].cmd = reg[i].cmd
                                     /\ cases[i].path = FileOf[cases[i].title]
<1> DEFINE n == Least(Len(reg), MaxCases)
           C(i) == [id |-> i, key |-> i, title |-> reg[i].title, cmd |-> reg[i].cmd,
                    desc |-> reg[i].desc, path |-> reg[i].path, sel |-> reg[i].sel]
<1>1. n \in Nat /\ n <= Len(reg) /\ n <= MaxCases /\ Len(reg) \in Nat
  BY LeastIs, BuilderAssumption
<1> HIDE DEF n
<1>2. cases = [i \in 1..n |-> C(i)]
  BY DEF FromRegistry, n
<1>3. ASSUME NEW i \in 1..n PROVE C(i) \in Cases /\ C(i).path = FileOf[C(i).title]
  <2>1. reg[i] \in Entries /\ i \in Nat
    BY <1>1
  <2> QED
    BY <2>1 DEF Entries, Cases
<1>4. cases \in Seq(Cases) /\ Len(cases) = n
  <2>1. cases \in [1..n -> Cases]
    BY <1>2, <1>3
  <2> QED
    BY <1>1, <2>1, FunSeq
<1>5. ASSUME NEW i \in 1..n
      PROVE  /\ cases[i].path = reg[i].path /\ cases[i].cmd = reg[i].cmd
             /\ cases[i].path = FileOf[cases[i].title]
  <2>1. cases[i] = C(i)
    BY <1>2
  <2> QED
    BY <1>3, <2>1
<1> QED
  BY <1>1, <1>4, <1>5

(* The selection stays on a test, and where it is if nothing is hidden.     *)
LEMMA ClampSelectedIs ==
  ASSUME NEW a, NEW n \in Nat, n = Len(a.cases), a.sel \in Nat, a.sel >= 1, DOMAIN a.cases = 1..n
  PROVE  \E s \in Nat : /\ ClampSelected(a) = [a EXCEPT !.sel = s]
                        /\ s >= 1 /\ (s = 1 \/ s <= n)
                        /\ a.filter = None /\ a.sel <= n => s = a.sel
<1> DEFINE s0 == IF n = 0 THEN 1 ELSE Least(a.sel, n)
           s == IF n > 0 /\ s0 \notin Visible(a) /\ Visible(a) # {} THEN Min(Visible(a)) ELSE s0
<1>1. ClampSelected(a) = [a EXCEPT !.sel = s]
  BY DEF ClampSelected
<1>2. Visible(a) \in SUBSET (1..n)
  BY DEF Visible
<1>3. s0 \in Nat /\ s0 >= 1 /\ (s0 = 1 \/ s0 <= n) /\ (a.sel <= n => s0 = a.sel)
  BY DEF Least
<1>4. Visible(a) # {} => Min(Visible(a)) \in 1..n
  <2>1. Visible(a) \in SUBSET Nat
    BY <1>2
  <2> QED
    BY <1>2, <2>1, MinIn
<1> HIDE DEF s0
<1>5. s \in Nat /\ s >= 1 /\ (s = 1 \/ s <= n)
  BY <1>3, <1>4
<1>6. ASSUME a.filter = None, a.sel <= n PROVE s = a.sel
  <2>1. a.sel \in DOMAIN a.cases
    BY <1>6
  <2>2. a.sel \in Visible(a)
    BY <1>6, <2>1 DEF Visible, Matches
  <2> QED
    BY <1>3, <1>6, <2>2
<1> HIDE DEF s
<1> QED
  BY <1>1, <1>5, <1>6

LEMMA AppIs ==
  ASSUME NEW a \in Apps
  PROVE  /\ a.cases \in Seq(Cases) /\ Len(a.cases) \in Nat /\ Len(a.cases) <= MaxCases
         /\ DOMAIN a.cases = 1..Len(a.cases) /\ \A i \in 1..Len(a.cases) : a.cases[i] \in Cases
         /\ a.sel \in Nat /\ a.sel >= 1 /\ (a.cases # <<>> => a.sel \in 1..Len(a.cases))
         /\ a.filter \in Filters \cup {None} /\ a.screen \in Screens /\ a.fresh \in BOOLEAN
         /\ a.screen = "script" => a.cases # <<>>
         /\ a.screen = "off" => a.cases = <<>>
<1>1. /\ a.cases \in Seq(Cases) /\ Len(a.cases) <= MaxCases /\ a.sel \in Nat /\ a.sel >= 1
      /\ a.sel = 1 \/ a.sel <= Len(a.cases)
      /\ a.filter \in Filters \cup {None} /\ a.screen \in Screens /\ a.fresh \in BOOLEAN
      /\ a.screen = "script" => a.cases # <<>>
      /\ a.screen = "off" => a.cases = <<>>
  BY DEF Apps
<1>2. /\ Len(a.cases) \in Nat /\ DOMAIN a.cases = 1..Len(a.cases)
      /\ \A i \in 1..Len(a.cases) : a.cases[i] \in Cases
      /\ a.cases # <<>> <=> Len(a.cases) > 0
  BY <1>1, SeqIs
<1> QED
  BY <1>1, <1>2

(* An app, made of its fields. *)
LEMMA AppMade ==
  ASSUME NEW cases \in Seq(Cases), Len(cases) <= MaxCases, NEW s \in Nat, s >= 1,
         s = 1 \/ s <= Len(cases), NEW filter \in Filters \cup {None}, NEW screen \in Screens,
         screen = "script" => cases # <<>>, screen # "off", NEW fresh \in BOOLEAN,
         NEW a, a = [cases |-> cases, sel |-> s, filter |-> filter, screen |-> screen,
                     fresh |-> fresh]
  PROVE  a \in Apps
BY DEF Apps

(* An app whose selection may have to be moved. *)
Rough(a) ==
  /\ a \in [cases : Seq(Cases), sel : Nat, filter : Filters \cup {None}, screen : Screens,
            fresh : BOOLEAN]
  /\ Len(a.cases) <= MaxCases /\ a.sel >= 1
  /\ a.screen = "script" => a.cases # <<>>
  /\ a.screen # "off"

LEMMA RoughApp ==
  ASSUME NEW a, Rough(a), a.sel = 1 \/ a.sel <= Len(a.cases)
  PROVE  a \in Apps
BY DEF Rough, Apps

LEMMA RoughMade ==
  ASSUME NEW cases \in Seq(Cases), cases # <<>>, Len(cases) <= MaxCases, NEW s \in Nat, s >= 1,
         NEW filter \in Filters \cup {None}, NEW screen \in Screens, screen # "off",
         NEW fresh \in BOOLEAN,
         NEW a, a = [cases |-> cases, sel |-> s, filter |-> filter, screen |-> screen,
                     fresh |-> fresh]
  PROVE  /\ Rough(a) /\ a.cases = cases /\ a.sel = s /\ a.filter = filter
         /\ a.screen = screen /\ a.fresh = fresh
BY DEF Rough

LEMMA ClampedApp ==
  ASSUME NEW a, Rough(a), NEW x, x = ClampSelected(a)
  PROVE  /\ x \in Apps /\ x.cases = a.cases /\ x.filter = a.filter /\ x.screen = a.screen
         /\ x.fresh = a.fresh
         /\ a.filter = None /\ a.sel <= Len(a.cases) => x.sel = a.sel
<1> DEFINE n == Len(a.cases)
<1>1. /\ a.cases \in Seq(Cases) /\ a.sel \in Nat /\ a.sel >= 1 /\ n <= MaxCases
      /\ a.filter \in Filters \cup {None} /\ a.screen \in Screens /\ a.fresh \in BOOLEAN
      /\ a.screen = "script" => a.cases # <<>>
      /\ a.screen # "off"
      /\ a = [cases |-> a.cases, sel |-> a.sel, filter |-> a.filter, screen |-> a.screen,
              fresh |-> a.fresh]
  BY DEF Rough
<1>2. n \in Nat /\ n = Len(a.cases) /\ DOMAIN a.cases = 1..n
  BY <1>1, SeqIs
<1> HIDE DEF n
<1>3. PICK t \in Nat : /\ x = [a EXCEPT !.sel = t]
                       /\ t >= 1 /\ (t = 1 \/ t <= n)
                       /\ a.filter = None /\ a.sel <= n => t = a.sel
  BY <1>1, <1>2, ClampSelectedIs
<1>4. x = [cases |-> a.cases, sel |-> t, filter |-> a.filter, screen |-> a.screen,
           fresh |-> a.fresh]
  BY <1>1, <1>3
<1>5. x \in Apps
  <2>1. /\ x \in [cases : Seq(Cases), sel : Nat, filter : Filters \cup {None}, screen : Screens,
                  fresh : BOOLEAN]
        /\ x.cases = a.cases /\ x.sel = t /\ x.screen = a.screen
    BY <1>1, <1>3, <1>4
  <2>2. Rough(x)
    BY <1>1, <1>2, <1>3, <2>1 DEF Rough
  <2> QED
    BY <1>2, <1>3, <2>1, <2>2, RoughApp
<1> QED
  BY <1>2, <1>3, <1>4, <1>5

LEMMA AppFields ==
  ASSUME NEW a \in Apps
  PROVE  a = [cases |-> a.cases, sel |-> a.sel, filter |-> a.filter, screen |-> a.screen,
              fresh |-> a.fresh]
BY DEF Apps

LEMMA OffIs == Off \in Apps /\ Off.cases = <<>> /\ Off.screen = "off" /\ Off.filter = None
<1> DEFINE none == <<>>
<1>1. none \in Seq(Cases) /\ Len(none) = 0 /\ none = <<>>
  OBVIOUS
<1>2. Off = [cases |-> none, sel |-> 1, filter |-> None, screen |-> "off", fresh |-> FALSE]
  BY DEF Off
<1> HIDE DEF none
<1>3. "off" \in Screens /\ "off" # "script" /\ 0 <= MaxCases /\ 1 \in Nat /\ 1 >= 1
  BY BuilderAssumption DEF Screens
<1>4. Off \in Apps
  <2>1. Off \in [cases : Seq(Cases), sel : Nat, filter : Filters \cup {None}, screen : Screens,
                fresh : BOOLEAN]
    BY <1>1, <1>2, <1>3
  <2> QED
    BY <1>1, <1>2, <1>3, <2>1 DEF Apps
<1> QED
  BY <1>1, <1>2, <1>4

(* The keys of a list are bounded. *)
LEMMA KeysBounded ==
  ASSUME NEW cases \in Seq(Cases)
  PROVE  \E b \in Nat : \A i \in 1..Len(cases) : cases[i].key <= b
<1> DEFINE Bounded(n) == \E b \in Nat : \A i \in 1..n : cases[i].key <= b
<1> DEFINE S == {n \in Nat : n <= Len(cases) => Bounded(n)}
<1>1. \A i \in 1..Len(cases) : cases[i].key \in Nat
  BY SeqIs, CaseIs
<1>2. 0 \in S
  <2>1. Bounded(0)
    <3>1. 0 \in Nat /\ \A i \in 1..0 : cases[i].key <= 0
      OBVIOUS
    <3> QED
      BY <3>1
  <2> HIDE DEF Bounded
  <2> QED
    BY <2>1
<1>3. ASSUME NEW n \in Nat, n \in S PROVE n + 1 \in S
  <2>1. SUFFICES ASSUME n + 1 <= Len(cases) PROVE Bounded(n + 1)
    <3> HIDE DEF Bounded
    <3> QED
      OBVIOUS
  <2>2. n <= Len(cases) /\ n + 1 \in 1..Len(cases)
    BY <2>1
  <2>3. PICK b \in Nat : \A i \in 1..n : cases[i].key <= b
    <3> HIDE DEF Bounded
    <3>1. Bounded(n)
      BY <1>3, <2>2
    <3> QED
      BY <3>1 DEF Bounded
  <2> DEFINE m == cases[n + 1].key
  <2>4. m \in Nat
    BY <1>1, <2>2
  <2>5. \A i \in 1..(n + 1) : i \in 1..n \/ i = n + 1
    OBVIOUS
  <2>6. \A i \in 1..(n + 1) : cases[i].key <= b + m
    <3>1. \A i \in 1..n : cases[i].key \in Nat
      BY <1>1, <2>2
    <3> DEFINE K(i) == cases[i].key
    <3>2. \A i \in 1..n : K(i) \in Nat /\ K(i) <= b
      BY <2>3, <3>1
    <3>3. K(n + 1) = m
      OBVIOUS
    <3> HIDE DEF K, m
    <3>4. \A i \in 1..(n + 1) : K(i) <= b + m
      BY <2>4, <2>5, <3>2, <3>3
    <3> QED
      BY <3>4 DEF K
  <2> DEFINE c == b + m
  <2>7. c \in Nat /\ \A i \in 1..(n + 1) : cases[i].key <= c
    BY <2>4, <2>6
  <2> HIDE DEF c
  <2> QED
    BY <2>7
<1> HIDE DEF S, Bounded
<1>4. Len(cases) \in S
  BY <1>2, <1>3, NatSet
<1>5. Bounded(Len(cases))
  BY <1>4 DEF S
<1> QED
  BY <1>5 DEF Bounded

LEMMA NewKeyIs ==
  ASSUME NEW a \in Apps, loaded \in Nat, gone \in Nat
  PROVE  NewKey(a) \in Nat
<1> DEFINE S == {0, loaded, gone} \cup {a.cases[i].key : i \in DOMAIN a.cases}
<1>1. PICK b \in Nat : \A i \in 1..Len(a.cases) : a.cases[i].key <= b
  BY AppIs, KeysBounded
<1> DEFINE n == b + loaded + gone
<1>2. \A i \in DOMAIN a.cases : a.cases[i].key \in 0..b
  BY <1>1, AppIs, CaseIs
<1>3. S \in SUBSET (0..n) /\ S # {} /\ n \in Nat
  <2>1. 0..b \subseteq 0..n /\ loaded \in 0..n /\ gone \in 0..n /\ 0 \in 0..n /\ n \in Nat
    BY <1>1
  <2> HIDE DEF n
  <2> QED
    BY <1>2, <2>1
<1>4. NewKey(a) = 1 + Max(S)
  BY DEF NewKey
<1> HIDE DEF S, n
<1>5. Max(S) \in Nat
  <2>1. Max(S) \in S
    BY <1>3, MaxIn
  <2>2. \A i \in S : i \in Nat
    BY <1>3
  <2> QED
    BY <2>1, <2>2
<1> QED
  BY <1>4, <1>5

-----------------------------------------------------------------------------
(* The registry                                                             *)

(* One step of Scripted: the tests up to the n-th that have scripts.        *)
Prefix(cases, g, n) ==
  IF n = 0 THEN <<>>
  ELSE IF cases[n].path = None THEN g[n - 1] ELSE Append(g[n - 1], cases[n])

LEMMA ScriptedSteps ==
  ASSUME NEW cases \in Seq(Cases)
  PROVE  \E g : /\ Scripted(cases) = g[Len(cases)]
                /\ g = [n \in 0..Len(cases) |-> Prefix(cases, g, n)]
<1> DEFINE N == Len(cases)
           first[n \in 0..N] ==
             IF n = 0 THEN <<>>
             ELSE IF cases[n].path = None THEN first[n - 1] ELSE Append(first[n - 1], cases[n])
           Is(g, k) == g = [n \in 0..k |-> Prefix(cases, g, n)]
           S == {k \in Nat : \E g : Is(g, k)}
<1>1. Scripted(cases) = first[N]
  BY DEF Scripted
<1>2. first = CHOOSE g : Is(g, N)
  BY DEF Prefix
<1>3. 0 \in S
  <2> DEFINE g == [n \in 0..0 |-> <<>>]
  <2>1. g = [n \in 0..0 |-> Prefix(cases, g, n)]
    BY DEF Prefix
  <2> HIDE DEF g
  <2> QED
    BY <2>1
<1>4. ASSUME NEW k \in Nat, k \in S PROVE k + 1 \in S
  <2>1. PICK g : Is(g, k)
    BY <1>4
  <2> DEFINE h == [n \in 0..(k + 1) |-> IF n = k + 1 THEN Prefix(cases, g, k + 1) ELSE g[n]]
  <2>2. \A n \in 0..k : h[n] = g[n] /\ g[n] = Prefix(cases, g, n)
    BY <2>1, SMTT(20)
  <2>3. ASSUME NEW n \in 0..(k + 1) PROVE Prefix(cases, h, n) = Prefix(cases, g, n)
    <3>1. n = 0 \/ n - 1 \in 0..k
      OBVIOUS
    <3> HIDE DEF h
    <3> QED
      BY <2>2, <3>1 DEF Prefix
  <2>4. \A n \in 0..(k + 1) : h[n] = Prefix(cases, h, n)
    <3>1. h[k + 1] = Prefix(cases, g, k + 1)
      OBVIOUS
    <3>2. \A n \in 0..(k + 1) : n = k + 1 \/ n \in 0..k
      OBVIOUS
    <3> HIDE DEF h
    <3> QED
      BY <2>2, <2>3, <3>1, <3>2
  <2>5. h = [n \in 0..(k + 1) |-> h[n]]
    OBVIOUS
  <2> HIDE DEF h
  <2>6. Is(h, k + 1)
    BY <2>4, <2>5
  <2> QED
    BY <2>6
<1>5. N \in Nat
  BY SeqIs
<1> HIDE DEF S
<1>6. N \in S
  BY <1>3, <1>4, <1>5, NatSet
<1>7. \E g : Is(g, N)
  BY <1>6 DEF S
<1> HIDE DEF Is, first
<1>8. Is(first, N)
  BY <1>2, <1>7
<1> QED
  BY <1>1, <1>8 DEF Is

(* The tests that have scripts, in their order. *)
Sifted(cases, n, s) ==
  /\ s \in Seq(Cases)
  /\ \E f \in [1..Len(s) -> 1..n] :
       /\ \A i \in 1..Len(s) : s[i] = cases[f[i]] /\ s[i].path # None
       /\ \A i, j \in 1..Len(s) : f[i] = f[j] => i = j
  /\ (\A i \in 1..n : cases[i].path # None) => Len(s) = n /\ \A i \in 1..n : s[i] = cases[i]

LEMMA SiftedStep ==
  ASSUME NEW cases \in Seq(Cases), NEW n \in Nat, n + 1 <= Len(cases), NEW s, Sifted(cases, n, s),
         NEW t, t = IF cases[n + 1].path = None THEN s ELSE Append(s, cases[n + 1])
  PROVE  Sifted(cases, n + 1, t)
<1> DEFINE m == Len(s)
<1>1. /\ cases[n + 1] \in Cases /\ s \in Seq(Cases) /\ m \in Nat /\ n + 1 \in 1..(n + 1)
  BY SeqIs DEF Sifted
<1>2. PICK f \in [1..m -> 1..n] :
        /\ \A i \in 1..m : s[i] = cases[f[i]] /\ s[i].path # None
        /\ \A i, j \in 1..m : f[i] = f[j] => i = j
  BY DEF Sifted
<1>3. CASE cases[n + 1].path = None
  <2>1. f \in [1..m -> 1..(n + 1)]
    OBVIOUS
  <2>2. t = s /\ ~(\A i \in 1..(n + 1) : cases[i].path # None)
    BY <1>1, <1>3
  <2>3. \E h \in [1..Len(t) -> 1..(n + 1)] :
          /\ \A i \in 1..Len(t) : t[i] = cases[h[i]] /\ t[i].path # None
          /\ \A i, j \in 1..Len(t) : h[i] = h[j] => i = j
    BY <1>2, <2>1, <2>2
  <2> QED
    BY <1>1, <2>2, <2>3 DEF Sifted
<1>4. CASE cases[n + 1].path # None
  <2> DEFINE g == [i \in 1..(m + 1) |-> IF i = m + 1 THEN n + 1 ELSE f[i]]
  <2>1. /\ t \in Seq(Cases) /\ Len(t) = m + 1 /\ t[m + 1] = cases[n + 1]
        /\ \A i \in 1..m : t[i] = s[i]
    BY <1>1, <1>4
  <2>2. \A i \in 1..(m + 1) : i = m + 1 \/ i \in 1..m
    BY <1>1
  <2>3. g[m + 1] = n + 1 /\ \A i \in 1..m : g[i] = f[i] /\ f[i] # n + 1 /\ f[i] \in 1..(n + 1)
    BY <1>1, <1>2
  <2>4. g \in [1..(m + 1) -> 1..(n + 1)]
    <3>1. \A i \in 1..(m + 1) : (IF i = m + 1 THEN n + 1 ELSE f[i]) \in 1..(n + 1)
      BY <1>1, <2>2, <2>3
    <3> QED
      BY <3>1
  <2> HIDE DEF g
  <2>5. \A i \in 1..(m + 1) : t[i] = cases[g[i]] /\ t[i].path # None
    BY <1>2, <1>4, <2>1, <2>2, <2>3
  <2>6. \A i, j \in 1..(m + 1) : g[i] = g[j] => i = j
    BY <1>2, <2>2, <2>3
  <2>7. ASSUME \A i \in 1..(n + 1) : cases[i].path # None
        PROVE  Len(t) = n + 1 /\ \A i \in 1..(n + 1) : t[i] = cases[i]
    <3>1. m = n /\ \A i \in 1..n : s[i] = cases[i]
      BY <2>7 DEF Sifted
    <3> QED
      BY <2>1, <2>2, <3>1
  <2>8. \E h \in [1..Len(t) -> 1..(n + 1)] :
          /\ \A i \in 1..Len(t) : t[i] = cases[h[i]] /\ t[i].path # None
          /\ \A i, j \in 1..Len(t) : h[i] = h[j] => i = j
    BY <2>1, <2>4, <2>5, <2>6
  <2> QED
    BY <2>1, <2>7, <2>8 DEF Sifted
<1> QED
  BY <1>3, <1>4

LEMMA ScriptedIs ==
  ASSUME NEW cases \in Seq(Cases)
  PROVE  Sifted(cases, Len(cases), Scripted(cases))
<1> DEFINE N == Len(cases)
<1>1. PICK g : Scripted(cases) = g[N] /\ g = [n \in 0..N |-> Prefix(cases, g, n)]
  BY ScriptedSteps
<1> DEFINE S == {n \in Nat : n <= N => Sifted(cases, n, g[n])}
<1>2. N \in Nat
  BY SeqIs
<1>3. \A n \in 0..N : g[n] = Prefix(cases, g, n)
  BY <1>1
<1>4. 0 \in S
  <2> DEFINE none == <<>>
             f == [i \in 1..0 |-> 1]
  <2>1. none \in Seq(Cases) /\ Len(none) = 0
    OBVIOUS
  <2>2. g[0] = none
    BY <1>2, <1>3 DEF Prefix
  <2>3. f \in [1..0 -> 1..0] /\ \A i \in 1..0 : FALSE
    OBVIOUS
  <2> HIDE DEF f, none
  <2>4. Sifted(cases, 0, none)
    BY <2>1, <2>3 DEF Sifted
  <2> QED
    BY <2>2, <2>4
<1>5. ASSUME NEW n \in Nat, n \in S PROVE n + 1 \in S
  <2>1. SUFFICES ASSUME n + 1 <= N PROVE Sifted(cases, n + 1, g[n + 1])
    OBVIOUS
  <2>2. n + 1 \in 0..N /\ n + 1 # 0 /\ (n + 1) - 1 = n /\ n <= N
    BY <1>2, <2>1
  <2>3. g[n + 1] = IF cases[n + 1].path = None THEN g[n] ELSE Append(g[n], cases[n + 1])
    BY <1>3, <2>2 DEF Prefix
  <2>4. Sifted(cases, n, g[n])
    BY <1>5, <2>2
  <2> QED
    BY <2>1, <2>3, <2>4, SiftedStep
<1> HIDE DEF S
<1>6. N \in S
  BY <1>2, <1>4, <1>5, NatSet
<1> QED
  BY <1>1, <1>2, <1>6 DEF S

LEMMA EntryIs ==
  ASSUME NEW c \in Cases, c.path # None
  PROVE  /\ Entry(c) \in Entries /\ Entry(c).path = c.path /\ Entry(c).cmd = c.cmd
<1>1. c.path \in Files /\ c.path = FileOf[c.title]
  BY CaseIs
<1> QED
  BY <1>1, CaseIs DEF Entry, Entries

(* What a list of tests leaves in the registry. *)
Lines(cases) == [i \in DOMAIN Scripted(cases) |-> Entry(Scripted(cases)[i])]

LEMMA LinesIs ==
  ASSUME NEW cases \in Seq(Cases), NEW l, l = Lines(cases)
  PROVE  /\ l \in Seq(Entries)
         /\ \E f \in [1..Len(l) -> 1..Len(cases)] :
              /\ \A i \in 1..Len(l) : /\ l[i].path = cases[f[i]].path /\ l[i].cmd = cases[f[i]].cmd
                                      /\ l[i].path # None
              /\ \A i, j \in 1..Len(l) : f[i] = f[j] => i = j
         /\ (\A i \in 1..Len(cases) : cases[i].path # None) =>
              /\ Len(l) = Len(cases)
              /\ \A i \in 1..Len(cases) : l[i].path = cases[i].path
<1> DEFINE s == Scripted(cases)
<1>1. Sifted(cases, Len(cases), s)
  BY ScriptedIs
<1>2. l = [i \in DOMAIN s |-> Entry(s[i])]
  BY DEF Lines
<1> HIDE DEF s
<1>3. s \in Seq(Cases) /\ DOMAIN s = 1..Len(s) /\ Len(s) \in Nat /\ \A i \in 1..Len(s) : s[i] \in Cases
  BY <1>1, SeqIs DEF Sifted
<1>4. PICK f \in [1..Len(s) -> 1..Len(cases)] :
        /\ \A i \in 1..Len(s) : s[i] = cases[f[i]] /\ s[i].path # None
        /\ \A i, j \in 1..Len(s) : f[i] = f[j] => i = j
  BY <1>1 DEF Sifted
<1>5. \A i \in 1..Len(s) : l[i] \in Entries /\ l[i].path = s[i].path /\ l[i].cmd = s[i].cmd
  BY <1>2, <1>3, <1>4, EntryIs
<1>6. l \in Seq(Entries) /\ Len(l) = Len(s)
  <2>1. l \in [1..Len(s) -> Entries]
    BY <1>2, <1>3, <1>5
  <2> QED
    BY <1>3, <2>1, FunSeq
<1>7. \A i \in 1..Len(l) : /\ l[i].path = cases[f[i]].path /\ l[i].cmd = cases[f[i]].cmd
                           /\ l[i].path # None
  BY <1>4, <1>5, <1>6
<1>8. ASSUME \A i \in 1..Len(cases) : cases[i].path # None
      PROVE  Len(l) = Len(cases) /\ \A i \in 1..Len(cases) : l[i].path = cases[i].path
  <2>1. Len(s) = Len(cases) /\ \A i \in 1..Len(cases) : s[i] = cases[i]
    BY <1>1, <1>8 DEF Sifted
  <2> QED
    BY <1>5, <1>6, <2>1
<1>9. \E g \in [1..Len(l) -> 1..Len(cases)] :
        /\ \A i \in 1..Len(l) : /\ l[i].path = cases[g[i]].path /\ l[i].cmd = cases[g[i]].cmd
                                /\ l[i].path # None
        /\ \A i, j \in 1..Len(l) : g[i] = g[j] => i = j
  <2>1. f \in [1..Len(l) -> 1..Len(cases)] /\ \A i, j \in 1..Len(l) : f[i] = f[j] => i = j
    BY <1>4, <1>6
  <2> QED
    BY <1>7, <2>1
<1> QED
  BY <1>6, <1>8, <1>9

(* If every test has a script of its own, so has every line written.        *)
LEMMA FollowLines ==
  ASSUME NEW cases \in Seq(Cases), NEW script, Follow(cases, script)
  PROVE  Registered(Lines(cases), script)
<1> DEFINE l == Lines(cases)
<1>1. l \in Seq(Entries) /\ DOMAIN l = 1..Len(l)
  BY LinesIs, SeqIs
<1>2. PICK f \in [1..Len(l) -> 1..Len(cases)] :
        /\ \A i \in 1..Len(l) : /\ l[i].path = cases[f[i]].path /\ l[i].cmd = cases[f[i]].cmd
                                /\ l[i].path # None
        /\ \A i, j \in 1..Len(l) : f[i] = f[j] => i = j
  BY LinesIs
<1> HIDE DEF l
<1>3. \A i \in 1..Len(l) : script[l[i].path].cmd = l[i].cmd
  BY <1>2 DEF Follow
<1>4. ASSUME NEW i \in 1..Len(l), NEW j \in 1..Len(l), l[i].path = l[j].path PROVE i = j
  <2>1. f[i] = f[j]
    BY <1>2, <1>4 DEF Follow
  <2> QED
    BY <1>2, <2>1
<1> QED
  BY <1>1, <1>3, <1>4 DEF Registered, OwnScripts, l

-----------------------------------------------------------------------------
(* The writes                                                               *)

Writes(steps) == steps \in Seq(Disks) /\ steps # <<>>

LEMMA DiskIs ==
  ASSUME NEW d \in Disks
  PROVE  d = [script |-> d.script, reg |-> d.reg] /\ d.script \in [Files -> Scripts]
         /\ d.reg \in Seq(Entries)
BY DEF Disks

LEMMA LastOne ==
  ASSUME NEW S, NEW s \in Seq(S), s # <<>>
  PROVE  Last(s) = s[Len(s)] /\ Last(s) \in S
BY DEF Last

LEMMA RegistryWrites ==
  ASSUME NEW cases \in Seq(Cases), NEW d \in Disks, NEW w, w = RegistrySteps(cases, d)
  PROVE  Writes(w) /\ Last(w) = [script |-> d.script, reg |-> Lines(cases)]
<1> DEFINE l == Lines(cases)
           n == Len(l) + 1
<1>1. l \in Seq(Entries) /\ Len(l) \in Nat
  BY LinesIs, SeqIs
<1>2. w = [i \in 1..n |-> [d EXCEPT !.reg = Upto(l, i - 1)]]
  BY DEF RegistrySteps, Lines
<1> HIDE DEF l
<1>3. n \in Nat /\ n \in 1..n /\ n - 1 = Len(l)
  BY <1>1
<1>4. \A i \in 1..n : i - 1 \in 0..Len(l)
  BY <1>1
<1>5. \A i \in 1..n : Upto(l, i - 1) \in Seq(Entries)
  BY <1>1, <1>4, UptoIs
<1> HIDE DEF n
<1>6. \A i \in 1..n : [d EXCEPT !.reg = Upto(l, i - 1)] \in Disks
  BY <1>5 DEF Disks
<1>7. w \in Seq(Disks) /\ Len(w) = n
  <2>1. w \in [1..n -> Disks]
    BY <1>2, <1>6
  <2> QED
    BY <1>3, <2>1, FunSeq
<1>8. w # <<>> /\ Last(w) = w[n]
  <2>1. w # <<>>
    BY <1>3, <1>7
  <2> QED
    BY <1>7, <2>1, LastOne
<1>9. w[n] = [d EXCEPT !.reg = Upto(l, Len(l))]
  BY <1>2, <1>3
<1>10. Upto(l, Len(l)) = l
  BY <1>1 DEF Upto
<1>11. [d EXCEPT !.reg = l] = [script |-> d.script, reg |-> l]
  BY DEF Disks
<1> QED
  BY <1>7, <1>8, <1>9, <1>10, <1>11 DEF Writes, l

LEMMA WritesOne ==
  ASSUME NEW d \in Disks
  PROVE  Writes(<<d>>) /\ Last(<<d>>) = d
<1>1. <<d>> \in Seq(Disks) /\ <<d>> # <<>> /\ Len(<<d>>) = 1 /\ <<d>>[1] = d
  OBVIOUS
<1> QED
  BY <1>1, LastOne DEF Writes

LEMMA WritesBoth ==
  ASSUME NEW v, Writes(v), NEW w, Writes(w)
  PROVE  Writes(v \o w) /\ Last(v \o w) = Last(w)
<1> DEFINE b == v \o w
<1>1. /\ v \in Seq(Disks) /\ w \in Seq(Disks) /\ Len(v) \in Nat /\ Len(w) \in Nat /\ Len(w) > 0
  BY SeqIs DEF Writes
<1>2. /\ b \in Seq(Disks) /\ Len(b) = Len(v) + Len(w)
      /\ \A i \in 1..Len(w) : b[Len(v) + i] = w[i]
  BY <1>1
<1>3. Len(w) \in 1..Len(w)
  BY <1>1
<1> HIDE DEF b
<1>4. b # <<>> /\ b[Len(b)] = w[Len(w)]
  BY <1>1, <1>2, <1>3
<1> QED
  BY <1>1, <1>2, <1>4, LastOne DEF Writes, b

(* A script of c, whose path may still be that of an older title.           *)
LEMMA ScriptWrites ==
  ASSUME NEW c, c.id \in Nat, c.cmd \in Text, c.title \in Titles, c.path \in Files \cup {None},
         NEW d \in Disks, NEW w, w = ScriptSteps(c, d)
  PROVE  /\ Writes(w) /\ Last(w) \in Disks /\ Last(w).reg = d.reg
         /\ Last(w).script[FileOf[c.title]].cmd = c.cmd
         /\ \A p \in Files : p \notin {FileOf[c.title], c.path} => Last(w).script[p] = d.script[p]
<1> DEFINE path == FileOf[c.title]
           none == <<>>
           cut == [d EXCEPT !.script[path] = [id |-> c.id, cmd |-> none]]
           new == [d EXCEPT !.script[path] = [id |-> c.id, cmd |-> c.cmd]]
           old == [new EXCEPT !.script[c.path] = NoScript]
<1>1. path \in Files
  BY DEF Files
<1>2. none \in Text /\ [id |-> c.id, cmd |-> c.cmd] \in Scripts
  BY DEF Text, Scripts
<1>3. [id |-> c.id, cmd |-> none] \in Scripts
  <2> HIDE DEF none
  <2> QED
    BY <1>2 DEF Scripts
<1>a. NoScript \in Scripts
  <2>1. NoScript = [id |-> 0, cmd |-> none]
    BY DEF NoScript
  <2> HIDE DEF none
  <2> QED
    BY <1>2, <2>1 DEF Scripts
<1>4. w = <<cut, new>> \o (IF c.path \in {None, path} THEN <<>> ELSE <<old>>)
  BY DEF ScriptSteps
<1> HIDE DEF none
<1>5. cut \in Disks /\ new \in Disks
  BY <1>1, <1>2, <1>3 DEF Disks
<1>6. /\ new.reg = d.reg /\ new.script[path].cmd = c.cmd
      /\ \A p \in Files : p # path => new.script[p] = d.script[p]
  BY <1>1 DEF Disks
<1> HIDE DEF cut, new
<1>7. ASSUME c.path \notin {None, path}
      PROVE  /\ old \in Disks /\ old.reg = new.reg
             /\ \A p \in Files : p # c.path => old.script[p] = new.script[p]
  BY <1>5, <1>7, <1>a DEF Disks
<1> HIDE DEF old, path
<1> DEFINE pair == <<cut, new>>
<1>b. Writes(pair) /\ Last(pair) = new
  <2>1. pair \in Seq(Disks) /\ pair # <<>> /\ Len(pair) = 2 /\ pair[2] = new
    BY <1>5
  <2> HIDE DEF pair
  <2> QED
    BY <2>1, LastOne DEF Writes
<1>c. w = pair \o (IF c.path \in {None, path} THEN <<>> ELSE <<old>>)
  BY <1>4
<1> HIDE DEF pair
<1>8. CASE c.path \in {None, path}
  <2>1. w = pair
    <3>1. pair \in Seq(Disks) /\ w = pair \o <<>>
      BY <1>8, <1>b, <1>c DEF Writes
    <3> QED
      BY <3>1, ConcatEmptySeq
  <2> QED
    BY <1>5, <1>6, <1>b, <2>1 DEF path
<1>9. CASE c.path \notin {None, path}
  <2>1. w = pair \o <<old>>
    BY <1>9, <1>c
  <2>2. Writes(<<old>>) /\ Last(<<old>>) = old
    BY <1>7, <1>9, WritesOne
  <2>3. Writes(w) /\ Last(w) = old
    BY <1>b, <2>1, <2>2, WritesBoth
  <2>4. path \in Files /\ path # c.path
    BY <1>1, <1>9 DEF path
  <2> QED
    BY <1>6, <1>7, <1>9, <2>3, <2>4 DEF path
<1> QED
  BY <1>8, <1>9

-----------------------------------------------------------------------------
(* The invariant is kept                                                    *)

LEMMA IdleIs ==
  /\ Idle \in [cases : Seq(Cases), done : Nat, failed : BOOLEAN]
  /\ Idle.cases = <<>> /\ Idle.done = 0 /\ Len(Idle.cases) = 0 /\ Idle.failed = FALSE
<1> DEFINE none == <<>>
<1>1. none \in Seq(Cases) /\ Len(none) = 0 /\ none = <<>>
  OBVIOUS
<1>2. Idle = [cases |-> none, done |-> 0, failed |-> FALSE]
  BY DEF Idle
<1> HIDE DEF none
<1> QED
  BY <1>1, <1>2

LEMMA FollowNone == ASSUME NEW cases, cases = <<>>, NEW script PROVE Follow(cases, script)
<1>1. 1..Len(cases) = {}
  OBVIOUS
<1> QED
  BY <1>1 DEF Follow

LEMMA OffFollows == ASSUME NEW script PROVE Follow(Off.cases, script)
BY OffIs, FollowNone

(* Nothing is written. *)
LEMMA CalmInv ==
  ASSUME Inv, disk' = disk, regen' = regen, troubled' = troubled,
         app' \in Apps, regen = Idle \/ app' = app,
         troubled = FALSE => Follow(app'.cases, disk.script),
         Sound(ed'), loaded' \in Nat, gone' \in Nat
  PROVE  Inv'
<1>1. Types'
  BY DEF Inv, Types
<1>2. Repairing'
  BY DEF Inv, Repairing
<1>3. Agreed'
  BY DEF Inv, Agreed, Types
<1>4. Repaired'
  BY DEF Inv, Repaired
<1> QED
  BY <1>1, <1>2, <1>3, <1>4 DEF Inv

(* The writes are cut short. *)
LEMMA CutInv ==
  ASSUME Inv, NEW steps, Writes(steps), Cut(steps), Sound(ed'), loaded' \in Nat, gone' \in Nat
  PROVE  Inv' /\ app' = Off
<1>1. PICK i \in 1..(Len(steps) - 1) : disk' = steps[i]
  BY DEF Cut
<1>2. disk' \in Disks
  <2>1. Len(steps) \in Nat /\ \A j \in 1..Len(steps) : steps[j] \in Disks
    BY SeqIs DEF Writes
  <2>2. i \in 1..Len(steps)
    BY <2>1
  <2> QED
    BY <1>1, <2>1, <2>2
<1>3. app' = Off /\ regen' = Idle /\ troubled' = TRUE
  BY DEF Cut
<1>4. Types'
  BY <1>2, <1>3, OffIs, IdleIs DEF Types
<1>5. Repairing' /\ Agreed'
  BY <1>3, IdleIs DEF Repairing, Agreed
<1>6. Repaired'
  BY <1>3, IdleIs DEF Repaired
<1> QED
  BY <1>3, <1>4, <1>5, <1>6 DEF Inv

(* The writes are made, the registry last. *)
LEMMA WriteInv ==
  ASSUME Inv, regen = Idle, disk' \in Disks, app' \in Apps, disk'.reg = Lines(app'.cases),
         UNCHANGED <<regen, troubled>>,
         troubled = FALSE => Follow(app'.cases, disk'.script),
         Sound(ed'), loaded' \in Nat, gone' \in Nat
  PROVE  Inv'
<1>1. Types'
  BY DEF Inv, Types
<1>2. Repairing'
  BY IdleIs DEF Repairing
<1>3. Agreed'
  <2>1. SUFFICES ASSUME troubled = FALSE
                 PROVE  Registered(disk'.reg, disk'.script) /\ Follow(app'.cases, disk'.script)
    BY DEF Agreed, Inv, Types
  <2>2. app'.cases \in Seq(Cases)
    BY AppIs
  <2> QED
    BY <2>1, <2>2, FollowLines
<1>4. Repaired'
  BY IdleIs DEF Repaired
<1> QED
  BY <1>1, <1>2, <1>3, <1>4 DEF Inv

(* A write of one script failed, and nothing but the tests in memory is new. *)
LEMMA FailInv ==
  ASSUME Inv, regen = Idle, UNCHANGED <<disk, regen>>, troubled' = TRUE, app' \in Apps,
         Sound(ed'), loaded' \in Nat, gone' \in Nat
  PROVE  Inv'
<1>1. Types' /\ Agreed'
  BY DEF Inv, Types, Agreed
<1>2. Repairing' /\ Repaired'
  BY IdleIs DEF Repairing, Repaired
<1> QED
  BY <1>1, <1>2 DEF Inv

LEMMA CommitInv ==
  ASSUME Inv, regen = Idle, NEW cases \in Seq(Cases), NEW a \in Apps, a.cases = cases,
         NEW steps, Writes(steps), Last(steps) \in Disks, Last(steps).reg = Lines(cases),
         troubled = FALSE => Follow(cases, Last(steps).script),
         Commit(steps, a), Sound(ed'), loaded' \in Nat, gone' \in Nat
  PROVE  Inv' /\ (app' = a \/ app' = Off)
<1>1. CASE Cut(steps)
  BY <1>1, CutInv
<1>2. CASE ~Cut(steps)
  <2>1. disk' = Last(steps) /\ app' = a /\ UNCHANGED <<regen, mishaps, troubled>>
    BY <1>2 DEF Commit
  <2> QED
    BY <2>1, WriteInv
<1> QED
  BY <1>1, <1>2

(* The first state. *)
LEMMA InitInv == ASSUME Init PROVE Inv
<1> DEFINE K == 1..Len(Kept)
           Of(f) == CHOOSE j \in DOMAIN Kept : FileOf[Kept[j].title] = f
           S(f) == IF \E i \in DOMAIN Kept : FileOf[Kept[i].title] = f
                   THEN [id |-> Of(f), cmd |-> Kept[Of(f)].cmd]
                   ELSE NoScript
           R(i) == [path |-> FileOf[Kept[i].title], title |-> Kept[i].title, cmd |-> Kept[i].cmd,
                    desc |-> << <<>> >>, sel |-> Kept[i].sel]
<1>1. /\ disk = [script |-> [f \in Files |-> S(f)], reg |-> [i \in DOMAIN Kept |-> R(i)]]
      /\ app = Off /\ regen = Idle /\ loaded = 0 /\ gone = 0 /\ troubled = FALSE
      /\ ed = Loaded(<< <<>> >>, "command")
  BY DEF Init
<1>2. /\ Len(Kept) \in Nat /\ DOMAIN Kept = K
      /\ \A i \in K : /\ Kept[i].title \in Titles /\ Kept[i].cmd \in Text /\ Kept[i].cmd # <<>>
                      /\ Kept[i].sel \in BOOLEAN
      /\ \A i, j \in K : FileOf[Kept[i].title] = FileOf[Kept[j].title] => i = j
  <2> DEFINE T == [title : Titles, cmd : Text, sel : BOOLEAN]
  <2>1. /\ Kept \in Seq(T)
        /\ \A i, j \in DOMAIN Kept : FileOf[Kept[i].title] = FileOf[Kept[j].title] => i = j
        /\ \A i \in DOMAIN Kept : Kept[i].cmd # <<>>
    BY BuilderAssumption
  <2>2. \A t \in T : t.title \in Titles /\ t.cmd \in Text /\ t.sel \in BOOLEAN
    OBVIOUS
  <2> HIDE DEF T
  <2>3. Len(Kept) \in Nat /\ DOMAIN Kept = K /\ \A i \in K : Kept[i] \in T
    BY <2>1, SeqIs
  <2> QED
    BY <2>1, <2>2, <2>3
<1>3. << <<>> >> \in Text /\ << <<>> >> # <<>>
  <2>1. <<>> \in Line
    BY DEF Line
  <2>2. \A l \in Line : <<l>> \in Seq(Line) /\ <<l>> # <<>>
    OBVIOUS
  <2> QED
    BY <2>1, <2>2 DEF Text
<1>4. \A i \in K : Of(FileOf[Kept[i].title]) = i
  BY <1>2
<1>5. ASSUME NEW i \in K
      PROVE  /\ R(i) \in Entries /\ R(i).path \in Files /\ R(i).path = FileOf[Kept[i].title]
             /\ S(R(i).path).cmd = R(i).cmd
  <2> DEFINE d == << <<>> >>
  <2>1. d \in Text /\ d # <<>>
    BY <1>3
  <2> HIDE DEF d
  <2>2. R(i) = [path |-> FileOf[Kept[i].title], title |-> Kept[i].title, cmd |-> Kept[i].cmd,
                desc |-> d, sel |-> Kept[i].sel]
    BY DEF d
  <2> HIDE DEF R
  <2>3. R(i) \in Entries /\ R(i).path = FileOf[Kept[i].title] /\ R(i).path \in Files
        /\ R(i).cmd = Kept[i].cmd
    BY <1>2, <2>1, <2>2 DEF Entries, Files
  <2>4. S(R(i).path) = [id |-> i, cmd |-> Kept[i].cmd]
    <3>1. Of(R(i).path) = i
      BY <1>4, <2>3
    <3>2. \E j \in DOMAIN Kept : FileOf[Kept[j].title] = R(i).path
      BY <1>2, <2>3
    <3> HIDE DEF Of
    <3> QED
      BY <3>1, <3>2
  <2> HIDE DEF S
  <2> QED
    BY <2>3, <2>4
<1>6. ASSUME NEW f \in Files PROVE S(f) \in Scripts
  <2>1. CASE \E i \in DOMAIN Kept : FileOf[Kept[i].title] = f
    <3>1. Of(f) \in K
      BY <1>2, <2>1
    <3> HIDE DEF Of
    <3>2. Of(f) \in Nat /\ Kept[Of(f)].cmd \in Text
      BY <1>2, <3>1
    <3> QED
      BY <2>1, <3>2 DEF Scripts
  <2>2. CASE ~\E i \in DOMAIN Kept : FileOf[Kept[i].title] = f
    <3> DEFINE none == <<>>
    <3>1. none \in Text
      BY DEF Text
    <3>2. NoScript = [id |-> 0, cmd |-> none]
      BY DEF NoScript
    <3>3. S(f) = NoScript
      BY <2>2
    <3> HIDE DEF none, S
    <3> QED
      BY <3>1, <3>2, <3>3 DEF Scripts
  <2> QED
    BY <2>1, <2>2
<1> HIDE DEF S, R, Of
<1>7. /\ disk.script = [f \in Files |-> S(f)] /\ disk.reg = [i \in K |-> R(i)]
      /\ disk = [script |-> disk.script, reg |-> disk.reg]
  BY <1>1, <1>2
<1>8. disk.reg \in Seq(Entries) /\ Len(disk.reg) = Len(Kept) /\ DOMAIN disk.reg = K
  <2>1. disk.reg \in [K -> Entries]
    BY <1>5, <1>7
  <2> QED
    BY <1>2, <2>1, FunSeq
<1>9. disk \in Disks
  <2>1. disk.script \in [Files -> Scripts]
    BY <1>6, <1>7
  <2> QED
    BY <1>7, <1>8, <2>1 DEF Disks
<1>10. Registered(disk.reg, disk.script)
  <2>1. \A i \in K : disk.reg[i] = R(i) /\ disk.script[R(i).path] = S(R(i).path)
    BY <1>5, <1>7
  <2> QED
    BY <1>2, <1>5, <1>8, <2>1 DEF Registered, OwnScripts
<1>11. Types
  BY <1>1, <1>9, OffIs, IdleIs DEF Types
<1>12. Sound(ed)
  BY <1>1, <1>3, LoadedSound
<1>13. Repairing /\ Repaired
  BY <1>1, IdleIs DEF Repairing, Repaired
<1>14. Agreed
  BY <1>1, <1>10, OffFollows DEF Agreed
<1> QED
  BY <1>11, <1>12, <1>13, <1>14 DEF Inv

-----------------------------------------------------------------------------
(* The operations.  Each keeps the invariant, and its part of the story.    *)

Fit == Inv' /\ Story

LEMMA InvIs ==
  ASSUME Inv
  PROVE  /\ app \in Apps /\ disk \in Disks /\ Sound(ed) /\ loaded \in Nat /\ gone \in Nat
         /\ troubled \in BOOLEAN
         /\ app.cases \in Seq(Cases) /\ Len(app.cases) \in Nat /\ Len(app.cases) <= MaxCases
         /\ \A i \in 1..Len(app.cases) : app.cases[i] \in Cases
         /\ app.sel \in Nat /\ app.sel >= 1 /\ app.filter \in Filters \cup {None}
         /\ app.screen \in Screens /\ app.fresh \in BOOLEAN
         /\ app.cases # <<>> => app.sel \in 1..Len(app.cases) /\ Selected(app) \in Cases
         /\ app.screen # "off" => regen = Idle
         /\ troubled = FALSE => /\ Registered(disk.reg, disk.script)
                                /\ Follow(app.cases, disk.script)
         /\ DOMAIN app.cases = 1..Len(app.cases)
<1>1. Types /\ Sound(ed) /\ Repairing /\ Agreed
  BY DEF Inv
<1>2. app \in Apps /\ disk \in Disks /\ loaded \in Nat /\ gone \in Nat /\ troubled \in BOOLEAN
  BY <1>1 DEF Types
<1>3. app.screen # "off" => regen = Idle
  BY <1>1, OffIs DEF Repairing
<1>4. troubled = FALSE => Registered(disk.reg, disk.script) /\ Follow(app.cases, disk.script)
  BY <1>1 DEF Agreed
<1> QED
  BY <1>1, <1>2, <1>3, <1>4, AppIs DEF Selected

(* A new screen over the list as it is. *)
LEMMA ScreenFit ==
  ASSUME Inv, NEW screen \in Screens, screen # "script", screen # "off", app.screen # "script", regen = Idle,
         NEW s \in Nat, s >= 1, NEW filter \in Filters \cup {None}, NEW fresh \in BOOLEAN,
         NEW a, a = [cases |-> app.cases, sel |-> s, filter |-> filter, screen |-> screen,
                     fresh |-> fresh],
         \/ app' = ClampSelected(a)
         \/ app' = a /\ (s = 1 \/ s <= Len(app.cases)),
         Quietly, NotEditing
  PROVE  Fit
<1>1. app' \in Apps /\ app'.cases = app.cases /\ app'.screen = screen
  <2>0. Rough(a) /\ a.cases = app.cases /\ a.screen = screen
    BY InvIs DEF Rough
  <2>1. CASE app' = ClampSelected(a)
    BY <2>0, <2>1, ClampedApp
  <2>2. CASE app' = a /\ (s = 1 \/ s <= Len(app.cases))
    BY <2>2, InvIs, AppMade
  <2> QED
    BY <2>1, <2>2
<1>2. Inv'
  BY <1>1, InvIs, CalmInv DEF Quietly, NotEditing
<1> QED
  BY <1>1, <1>2 DEF Fit, Story, NotEditing

LEMMA LaunchFit == ASSUME Inv, Launch PROVE Fit
<1> DEFINE cases == FromRegistry(disk.reg)
<1>1. /\ cases \in Seq(Cases) /\ Len(cases) <= MaxCases /\ Len(cases) <= Len(disk.reg)
      /\ \A i \in 1..Len(cases) : /\ cases[i].path = disk.reg[i].path
                                  /\ cases[i].cmd = disk.reg[i].cmd
  BY InvIs, DiskIs, FromRegistryIs
<1>2. DOMAIN disk.reg = 1..Len(disk.reg) /\ Len(disk.reg) \in Nat /\ Len(cases) \in Nat
  BY <1>1, InvIs, DiskIs, SeqIs
<1>3. app' = [cases |-> cases, sel |-> 1, filter |-> None, screen |-> "dashboard", fresh |-> FALSE]
  BY DEF Launch, Off
<1>4. /\ regen = Idle /\ UNCHANGED <<disk, regen, troubled>> /\ loaded' = loaded /\ gone' = 0
      /\ ed' = ed /\ app.screen # "script"
  BY DEF Launch, Quietly
<1> HIDE DEF cases
<1>5. app' \in Apps
  <2>1. "dashboard" \in Screens /\ "dashboard" # "script" /\ 1 \in Nat /\ 1 >= 1
    BY DEF Screens
  <2> QED
    BY <1>1, <1>3, <2>1, AppMade
<1>6. ASSUME troubled = FALSE PROVE Follow(app'.cases, disk.script)
  <2>1. Registered(disk.reg, disk.script)
    BY <1>6, InvIs
  <2>2. \A i \in 1..Len(cases) : i \in DOMAIN disk.reg
    BY <1>1, <1>2
  <2>3. Follow(cases, disk.script)
    BY <1>1, <2>1, <2>2 DEF Follow, Registered, OwnScripts
  <2> QED
    BY <1>3, <2>3
<1>7. Inv'
  BY <1>4, <1>5, <1>6, InvIs, CalmInv
<1> QED
  BY <1>3, <1>4, <1>7 DEF Fit, Story

LEMMA ExitFit == ASSUME Inv, Exit PROVE Fit
<1>1. app.screen = "dashboard" /\ app' = Off /\ Quietly /\ NotEditing
  BY DEF Exit, On
<1>2. Inv'
  BY <1>1, InvIs, OffIs, OffFollows, CalmInv DEF Quietly, NotEditing
<1> QED
  BY <1>1, <1>2, OffIs DEF Fit, Story, NotEditing

LEMMA NavigateFit == ASSUME Inv, Navigate PROVE Fit
<1>1. PICK screen \in {"list", "dashboard"} : app' = ClampSelected([app EXCEPT !.screen = screen])
  BY DEF Navigate
<1>2. /\ app.screen \in {"dashboard", "list", "result"} /\ Quietly /\ NotEditing
  BY DEF Navigate, On
<1>3. [app EXCEPT !.screen = screen] = [cases |-> app.cases, sel |-> app.sel,
         filter |-> app.filter, screen |-> screen, fresh |-> app.fresh]
  BY InvIs, AppFields
<1>4. screen \in Screens /\ screen # "script" /\ screen # "off" /\ app.screen # "script" /\ app.screen # "off"
  BY <1>2 DEF Screens
<1> QED
  BY <1>1, <1>2, <1>3, <1>4, InvIs, ScreenFit

LEMMA StepFit == ASSUME Inv, NEW direction \in {-1, 1}, Step(direction) PROVE Fit
<1> DEFINE n == Len(app.cases)
           RowAt(step) == ((app.sel - 1 + direction * step) % n) + 1
           S == {s \in 1..n : RowAt(s) \in Visible(app)}
           t == IF app.sel \in Visible(app) THEN RowAt(Min(S)) ELSE Min(Visible(app))
<1>1. /\ app.screen = "list" /\ app.cases # <<>> /\ Visible(app) # {}
      /\ app' = [app EXCEPT !.sel = t] /\ Quietly /\ NotEditing
  BY DEF Step, On
<1>2. n \in Nat /\ n > 0 /\ Visible(app) \in SUBSET (1..n) /\ Visible(app) \in SUBSET Nat
      /\ app.sel \in 1..n
  BY <1>1, InvIs DEF Visible
<1>3. \A s \in Nat : RowAt(s) \in 1..n
  BY <1>2
<1>4. app.sel \in Visible(app) => S # {}
  <2>1. n \in 1..n /\ RowAt(n) = app.sel
    <3>1. CASE direction = 1
      <4>1. \A m \in Nat : \A k \in 1..m : ((k - 1 + 1 * m) % m) + 1 = k
        OBVIOUS
      <4>2. n \in Nat /\ n \in 1..n /\ app.sel \in 1..n
        BY <1>2
      <4> HIDE DEF n
      <4> QED
        BY <3>1, <4>1, <4>2
    <3>2. CASE direction = -1
      <4>1. \A m \in Nat : \A k \in 1..m : ((k - 1 + (-1) * m) % m) + 1 = k
        OBVIOUS
      <4>2. n \in Nat /\ n \in 1..n /\ app.sel \in 1..n
        BY <1>2
      <4> HIDE DEF n
      <4> QED
        BY <3>2, <4>1, <4>2
    <3> QED
      BY <3>1, <3>2
  <2> HIDE DEF RowAt
  <2> QED
    BY <2>1
<1>5. S \in SUBSET Nat
  OBVIOUS
<1> HIDE DEF S, RowAt
<1>6. t \in 1..n
  <2>1. CASE app.sel \in Visible(app)
    <3>1. Min(S) \in S
      BY <1>4, <1>5, <2>1, MinIn
    <3>2. Min(S) \in Nat
      BY <1>5, <3>1
    <3> QED
      BY <1>3, <2>1, <3>2
  <2>2. CASE app.sel \notin Visible(app)
    <3>1. Min(Visible(app)) \in Visible(app)
      BY <1>1, <1>2, MinIn
    <3> QED
      BY <1>2, <2>2, <3>1
  <2> QED
    BY <2>1, <2>2
<1> HIDE DEF t
<1>7. /\ app' = [cases |-> app.cases, sel |-> t, filter |-> app.filter, screen |-> "list",
                 fresh |-> app.fresh]
      /\ t \in Nat /\ t >= 1 /\ t <= n
  <2>1. app = [cases |-> app.cases, sel |-> app.sel, filter |-> app.filter, screen |-> app.screen,
               fresh |-> app.fresh]
    BY InvIs, AppFields
  <2> QED
    BY <1>1, <1>2, <1>6, <2>1
<1>8. "list" \in Screens /\ app.screen # "script" /\ regen = Idle
  BY <1>1, InvIs DEF Screens
<1> HIDE DEF n
<1> QED
  BY <1>1, <1>7, <1>8, InvIs, ScreenFit DEF n

LEMMA SetFilterFit == ASSUME Inv, NEW f \in Filters \cup {None}, SetFilter(f) PROVE Fit
<1> DEFINE b == [app EXCEPT !.filter = f]
           a == ClampSelected(b)
<1>1. /\ app.screen = "list" /\ Quietly /\ NotEditing
      /\ app' = IF f # None /\ Visible(a) # {} THEN [a EXCEPT !.sel = Min(Visible(a))] ELSE a
  BY DEF SetFilter, On
<1>2. b = [cases |-> app.cases, sel |-> app.sel, filter |-> f, screen |-> "list", fresh |-> app.fresh]
  BY <1>1, InvIs, AppFields
<1>3. "list" \in Screens /\ "list" # "script" /\ app.screen # "script" /\ regen = Idle
  BY <1>1, InvIs DEF Screens
<1>4. a \in Apps /\ a.cases = app.cases /\ a.filter = f /\ a.screen = "list" /\ a.fresh = app.fresh
  <2>1. Rough(b) /\ b.cases = app.cases /\ b.filter = f /\ b.screen = "list" /\ b.fresh = app.fresh
    BY <1>2, <1>3, InvIs DEF Rough
  <2> HIDE DEF b
  <2> QED
    BY <2>1, ClampedApp
<1>5. CASE app' = a
  BY <1>1, <1>2, <1>3, <1>5, InvIs, ScreenFit
<1>6. CASE Visible(a) # {} /\ app' = [a EXCEPT !.sel = Min(Visible(a))]
  <2> HIDE DEF a
  <2> DEFINE t == Min(Visible(a))
  <2>1. Visible(a) \in SUBSET (1..Len(app.cases)) /\ Visible(a) \in SUBSET Nat
    BY <1>4, InvIs DEF Visible
  <2>2. t \in Nat /\ t >= 1 /\ t <= Len(app.cases)
    BY <1>6, <2>1, InvIs, MinIn
  <2> HIDE DEF t
  <2>3. app' = [cases |-> app.cases, sel |-> t, filter |-> f, screen |-> "list", fresh |-> app.fresh]
    <3>1. a = [cases |-> a.cases, sel |-> a.sel, filter |-> a.filter, screen |-> a.screen,
               fresh |-> a.fresh]
      BY <1>4, AppFields
    <3> QED
      BY <1>4, <1>6, <3>1 DEF t
  <2> QED
    BY <1>1, <1>3, <2>2, <2>3, InvIs, ScreenFit
<1> QED
  BY <1>1, <1>5, <1>6

-----------------------------------------------------------------------------
(* Opening the editor, and typing                                           *)

LEMMA FollowAppend ==
  ASSUME NEW cases \in Seq(Cases), NEW c \in Cases, NEW script, NEW new, Follow(cases, script),
         c.path # None => new[c.path].cmd = c.cmd,
         \A j \in 1..Len(cases) : cases[j].path # None =>
           cases[j].path # c.path /\ new[cases[j].path] = script[cases[j].path]
  PROVE  Follow(Append(cases, c), new)
<1> DEFINE n == Len(cases)
           all == Append(cases, c)
<1>1. /\ n \in Nat /\ Len(all) = n + 1 /\ all[n + 1] = c /\ \A j \in 1..n : all[j] = cases[j]
      /\ \A j \in 1..(n + 1) : j = n + 1 \/ j \in 1..n
  BY SeqIs
<1> HIDE DEF all, n
<1>2. \A j \in 1..(n + 1) : all[j].path # None => new[all[j].path].cmd = all[j].cmd
  BY <1>1 DEF Follow, n
<1>3. ASSUME NEW i \in 1..(n + 1), NEW j \in 1..(n + 1), all[i].path = all[j].path, all[i].path # None
      PROVE  i = j
  <2>1. CASE i \in 1..n /\ j \in 1..n
    BY <1>1, <1>3, <2>1 DEF Follow, n
  <2>2. CASE i = n + 1 /\ j \in 1..n
    BY <1>1, <1>3, <2>2 DEF n
  <2>3. CASE i \in 1..n /\ j = n + 1
    BY <1>1, <1>3, <2>3 DEF n
  <2> QED
    BY <1>1, <2>1, <2>2, <2>3
<1> QED
  BY <1>1, <1>2, <1>3 DEF Follow, all

LEMMA OpensFit ==
  ASSUME Inv, app.screen \notin {"script", "off"}, NEW b \in Apps, b.cases # <<>>,
         troubled = FALSE => Follow(b.cases, disk.script),
         NEW text \in Text, text # <<>>, NEW target \in {"command", "description"},
         OpensEditor(b, text, target), Quietly
  PROVE  Fit
<1> DEFINE a == [b EXCEPT !.screen = "script"]
<1>1. /\ Sound(ed') /\ ed'.undo = <<>> /\ loaded' = Selected(b).key /\ gone' = gone
      /\ app' = ClampSelected(a)
  BY LoadedSound DEF OpensEditor
<1>2. /\ b.sel \in 1..Len(b.cases) /\ Selected(b) \in Cases /\ b.sel <= Len(b.cases)
  BY AppIs DEF Selected
<1>3. Rough(a) /\ a.cases = b.cases /\ a.filter = b.filter /\ a.screen = "script" /\ a.sel = b.sel
  <2>1. /\ b.cases \in Seq(Cases) /\ Len(b.cases) <= MaxCases /\ b.sel \in Nat /\ b.sel >= 1
        /\ b.filter \in Filters \cup {None} /\ b.fresh \in BOOLEAN /\ "script" \in Screens
    BY AppIs DEF Screens
  <2>2. a = [cases |-> b.cases, sel |-> b.sel, filter |-> b.filter, screen |-> "script",
             fresh |-> b.fresh]
    BY AppFields
  <2> HIDE DEF a
  <2> QED
    BY <2>1, <2>2 DEF Rough
<1> HIDE DEF a
<1>4. /\ app' \in Apps /\ app'.cases = b.cases /\ app'.filter = b.filter
      /\ app'.screen = "script"
      /\ app'.filter = None => app'.sel = b.sel
  BY <1>1, <1>2, <1>3, ClampedApp
<1>5. app'.filter = None => Selected(app').key = loaded'
  BY <1>1, <1>4 DEF Selected
<1>6. Inv'
  <2>1. loaded' \in Nat /\ gone' \in Nat /\ regen = Idle
    BY <1>1, <1>2, CaseIs, InvIs
  <2> QED
    BY <1>1, <1>4, <2>1, CalmInv DEF Quietly
<1> QED
  BY <1>1, <1>4, <1>5, <1>6 DEF Fit, Story

LEMMA OpenFit == ASSUME Inv, NEW target \in {"command", "description"}, Open(target) PROVE Fit
<1> DEFINE fresh == IF target = "command" THEN FALSE ELSE app.fresh
           b == [app EXCEPT !.fresh = fresh]
           text == IF target = "command" THEN Selected(app).cmd ELSE Selected(app).desc
<1>1. /\ app.screen = "list" /\ Visible(app) # {} /\ OpensEditor(b, text, target) /\ Quietly
  BY DEF Open, On
<1>2. app.cases # <<>> /\ Selected(app) \in Cases
  <2>1. PICK i \in DOMAIN app.cases : TRUE
    BY <1>1 DEF Visible
  <2>2. app.cases # <<>>
    BY <2>1
  <2> QED
    BY <2>2, InvIs
<1>3. text \in Text /\ text # <<>>
  BY <1>2, CaseIs
<1>4. b \in Apps /\ b.cases = app.cases
  <2>1. fresh \in BOOLEAN
    BY InvIs
  <2> HIDE DEF fresh
  <2> QED
    BY <2>1, InvIs DEF Apps
<1> HIDE DEF b, text
<1> QED
  BY <1>1, <1>2, <1>3, <1>4, InvIs, OpensFit

LEMMA OneLine == ASSUME NEW g \in Glyphs PROVE <<g>> \in Line
BY DEF Line

LEMMA NewCaseIs ==
  ASSUME Inv, NEW title \in Titles, NEW c, c = NewCase(title)
  PROVE  /\ c \in Cases /\ c.path = None
<1> DEFINE cmd == << <<"b">> >>
           desc == << <<>> >>
<1>1. cmd \in Text /\ cmd # <<>>
  <2>1. "b" \in Glyphs
    BY DEF Glyphs, Letters
  <2>2. <<"b">> \in Line
    BY <2>1, OneLine
  <2>3. \A l \in Line : <<l>> \in Seq(Line) /\ <<l>> # <<>>
    OBVIOUS
  <2> QED
    BY <2>2, <2>3 DEF Text
<1>2. desc \in Text /\ desc # <<>>
  <2>1. <<>> \in Line
    BY DEF Line
  <2>2. \A l \in Line : <<l>> \in Seq(Line) /\ <<l>> # <<>>
    OBVIOUS
  <2> QED
    BY <2>1, <2>2 DEF Text
<1>3. Len(app.cases) + 1 \in Nat /\ NewKey(app) \in Nat
  BY InvIs, NewKeyIs
<1>4. c = [id |-> Len(app.cases) + 1, key |-> NewKey(app), title |-> title, cmd |-> cmd,
           desc |-> desc, path |-> None, sel |-> TRUE]
  BY DEF NewCase
<1> HIDE DEF cmd, desc
<1>5. c.path = None /\ c.path \in Files \cup {None} /\ c.path \in {None, FileOf[c.title]}
  BY <1>4
<1>6. c \in [id : Nat, key : Nat, title : Titles, cmd : Text, desc : Text,
            path : Files \cup {None}, sel : BOOLEAN]
  BY <1>1, <1>2, <1>3, <1>4
<1> QED
  BY <1>1, <1>2, <1>4, <1>5, <1>6 DEF Cases

LEMMA AppNewly ==
  ASSUME NEW a \in Apps, NEW cases, NEW s, NEW fresh, NEW b,
         b = [a EXCEPT !.cases = cases, !.sel = s, !.fresh = fresh]
  PROVE  b = [cases |-> cases, sel |-> s, filter |-> a.filter, screen |-> a.screen,
              fresh |-> fresh]
BY DEF Apps

LEMMA AddCaseFit == ASSUME Inv, NEW title \in Titles, AddCase(title) PROVE Fit
<1> DEFINE c == NewCase(title)
           n == Len(app.cases) + 1
           all == Append(app.cases, c)
           yes == TRUE
           b == [app EXCEPT !.cases = all, !.sel = n, !.fresh = yes]
<1>0. yes \in BOOLEAN
  OBVIOUS
<1>1. /\ app.screen = "dashboard" /\ Len(app.cases) < MaxCases
      /\ OpensEditor(b, c.cmd, "command") /\ Quietly
  BY DEF AddCase, On
<1>2. c \in Cases /\ c.path = None /\ c.cmd \in Text /\ c.cmd # <<>>
  BY NewCaseIs, CaseIs
<1> HIDE DEF c
<1>3. all \in Seq(Cases) /\ Len(all) = n /\ n \in Nat /\ n >= 1 /\ n <= MaxCases
  <2>1. all \in Seq(Cases) /\ Len(all) = n /\ Len(app.cases) \in Nat /\ MaxCases \in Nat
    BY <1>2, InvIs, AppendIs, BuilderAssumption
  <2> QED
    BY <1>1, <2>1
<1>4. troubled = FALSE => Follow(all, disk.script)
  BY <1>2, InvIs, FollowAppend
<1> HIDE DEF all, n, yes
<1>5. b = [cases |-> all, sel |-> n, filter |-> app.filter, screen |-> app.screen, fresh |-> yes]
  BY InvIs, AppNewly, ZenonT(40)
<1>6. all # <<>>
  BY <1>3
<1> HIDE DEF b
<1>7. b \in Apps /\ b.cases = all
  <2>1. /\ app.filter \in Filters \cup {None} /\ app.screen \in Screens
    BY InvIs
  <2>2. Rough(b) /\ b.sel = n /\ b.cases = all
    <3>1. /\ b \in [cases : Seq(Cases), sel : Nat, filter : Filters \cup {None},
                    screen : Screens, fresh : BOOLEAN]
          /\ b.sel = n /\ b.cases = all /\ b.screen = app.screen
      BY <1>0, <1>3, <1>5, <2>1
    <3> QED
      BY <1>1, <1>3, <1>6, <3>1 DEF Rough
  <2> QED
    BY <1>3, <2>2, RoughApp
<1> QED
  BY <1>1, <1>2, <1>4, <1>6, <1>7, InvIs, OpensFit

LEMMA EditingFit == ASSUME Inv, NEW k, Editing(k) PROVE Fit
<1>1. /\ app.screen = "script" /\ ed' \in Keyed(ed, k)
      /\ UNCHANGED <<app, loaded, gone>> /\ Quietly
  BY DEF Editing
<1>2. Sound(ed') /\ (Edits(ed, ed') \/ Inserts(ed, ed'))
  BY <1>1, InvIs, KeysAreSound
<1>3. Inv'
  BY <1>1, <1>2, InvIs, CalmInv DEF Quietly
<1> QED
  BY <1>1, <1>2, <1>3 DEF Fit, Story

-----------------------------------------------------------------------------
(* Replacing a test, and writing its script and the registry                *)

LEMMA PutIs ==
  ASSUME NEW cases \in Seq(Cases), NEW i \in 1..Len(cases), NEW c \in Cases,
         NEW all, all = [cases EXCEPT ![i] = c]
  PROVE  /\ all \in Seq(Cases) /\ Len(all) = Len(cases) /\ all[i] = c
         /\ \A j \in 1..Len(cases) : j # i => all[j] = cases[j]
OBVIOUS

(* The script of c is written, and that of no test but the i-th is touched. *)
Alone(cases, i, path) ==
  \A j \in 1..Len(cases) : j # i /\ cases[j].path # None => cases[j].path # path
Untouched(cases, i, script, new) ==
  \A j \in 1..Len(cases) : j # i /\ cases[j].path # None =>
    new[cases[j].path] = script[cases[j].path]
Holds(c, script) == c.path # None => script[c.path].cmd = c.cmd

LEMMA FollowPut ==
  ASSUME NEW cases \in Seq(Cases), NEW i \in 1..Len(cases), NEW c \in Cases,
         NEW all, all = [cases EXCEPT ![i] = c], NEW script, NEW new, Follow(cases, script),
         Holds(c, new), Alone(cases, i, c.path), Untouched(cases, i, script, new)
  PROVE  Follow(all, new)
<1>1. /\ Len(all) = Len(cases) /\ all[i] = c
      /\ \A j \in 1..Len(cases) : j # i => all[j] = cases[j]
  BY PutIs
<1>2. \A j \in 1..Len(cases) : all[j].path # None => new[all[j].path].cmd = all[j].cmd
  BY <1>1 DEF Follow, Holds, Alone, Untouched
<1>3. \A j, k \in 1..Len(cases) : all[j].path = all[k].path /\ all[j].path # None => j = k
  BY <1>1 DEF Follow, Alone
<1> QED
  BY <1>1, <1>2, <1>3 DEF Follow

LEMMA PutFields ==
  ASSUME NEW a \in Apps, NEW c
  PROVE  [a EXCEPT !.cases[a.sel] = c] =
           [cases |-> [a.cases EXCEPT ![a.sel] = c], sel |-> a.sel, filter |-> a.filter,
            screen |-> a.screen, fresh |-> a.fresh]
<1>1. a = [cases |-> a.cases, sel |-> a.sel, filter |-> a.filter, screen |-> a.screen,
           fresh |-> a.fresh]
  BY AppFields
<1> QED
  BY <1>1

(* The selected test is replaced. *)
LEMMA PutApp ==
  ASSUME NEW a \in Apps, a.cases # <<>>, NEW c \in Cases, NEW screen \in Screens,
         screen # "off", NEW fresh \in BOOLEAN, NEW all, all = [a.cases EXCEPT ![a.sel] = c], NEW b,
         b = [cases |-> all, sel |-> a.sel, filter |-> a.filter, screen |-> screen,
              fresh |-> fresh]
  PROVE  /\ b \in Apps /\ b.cases = all /\ Selected(b) = c /\ Rough(b)
         /\ b.sel = a.sel /\ b.filter = a.filter /\ b.screen = screen
<1>1. /\ a.cases \in Seq(Cases) /\ a.sel \in 1..Len(a.cases) /\ Len(a.cases) \in Nat
  BY AppIs
<1>2. all \in Seq(Cases) /\ Len(all) = Len(a.cases) /\ all[a.sel] = c
  BY <1>1, PutIs
<1>3. /\ all # <<>> /\ Len(all) <= MaxCases /\ a.sel <= Len(all) /\ a.sel \in Nat /\ a.sel >= 1
      /\ a.filter \in Filters \cup {None}
  BY <1>1, <1>2, AppIs
<1>4. /\ Rough(b) /\ b.cases = all /\ b.sel = a.sel /\ b.filter = a.filter
      /\ b.screen = screen
  <2>1. b.cases = all
    OBVIOUS
  <2>2. b.sel = a.sel /\ b.filter = a.filter /\ b.screen = screen /\ b.fresh = fresh
    OBVIOUS
  <2>3. b \in [cases : Seq(Cases), sel : Nat, filter : Filters \cup {None},
              screen : Screens, fresh : BOOLEAN]
    BY <1>2, <1>3
  <2> QED
    BY <1>2, <1>3, <2>1, <2>2, <2>3 DEF Rough
<1>5. b \in Apps
  BY <1>3, <1>4, RoughApp
<1> QED
  BY <1>2, <1>4, <1>5 DEF Selected

(* A test that may have a script of an older title. *)
Draft(c) ==
  /\ c \in [id : Nat, key : Nat, title : Titles, cmd : Text, desc : Text,
            path : Files \cup {None}, sel : BOOLEAN]
  /\ c.cmd # <<>> /\ c.desc # <<>>

LEMMA CaseDraft == ASSUME NEW c \in Cases PROVE Draft(c)
BY DEF Cases, Draft

LEMMA WrittenIs ==
  ASSUME NEW c, Draft(c), NEW x, x = Written(c)
  PROVE  /\ x \in Cases /\ x.path = FileOf[c.title] /\ x.path \in Files /\ x.path # None
         /\ x.cmd = c.cmd /\ x.key = c.key
<1>1. FileOf[c.title] \in Files
  BY DEF Draft, Files
<1>2. x \in [id : Nat, key : Nat, title : Titles, cmd : Text, desc : Text,
            path : Files \cup {None}, sel : BOOLEAN]
  BY <1>1 DEF Written, Draft
<1>3. /\ x.path = FileOf[c.title] /\ x.cmd = c.cmd /\ x.key = c.key /\ x.title = c.title
      /\ x.desc = c.desc
  BY DEF Written, Draft
<1>4. x.path \in Files /\ x.path # None
  BY <1>1, <1>3, BuilderAssumption
<1>5. x \in Cases
  BY <1>2, <1>3 DEF Cases, Draft
<1> QED
  BY <1>3, <1>4, <1>5

LEMMA DraftWrites ==
  ASSUME NEW c, Draft(c), NEW w, w = ScriptSteps(c, disk), disk \in Disks
  PROVE  /\ Writes(w) /\ Last(w) \in Disks /\ Last(w).reg = disk.reg
         /\ Last(w).script[FileOf[c.title]].cmd = c.cmd
         /\ \A p \in Files : p \notin {FileOf[c.title], c.path} =>
              Last(w).script[p] = disk.script[p]
<1>1. c.id \in Nat /\ c.cmd \in Text /\ c.title \in Titles /\ c.path \in Files \cup {None}
  BY DEF Draft
<1> QED
  BY <1>1, ScriptWrites

(* A free name is no other test's. *)
LEMMA Apart ==
  ASSUME NEW cases \in Seq(Cases), NEW d \in Disks, Follow(cases, d.script), NEW i,
         NEW c, ~Conflicts(c, c.title, d), Alone(cases, i, c.path),
         NEW j \in 1..Len(cases), j # i, cases[j].path # None
  PROVE  cases[j].path \in Files /\ cases[j].path \notin {FileOf[c.title], c.path}
<1>1. cases[j] \in Cases
  BY SeqIs
<1>2. cases[j].path \in Files /\ cases[j].cmd # <<>>
  BY <1>1, CaseIs
<1>3. d.script[cases[j].path].cmd # <<>>
  BY <1>2 DEF Follow
<1>4. NoScript.cmd = <<>>
  BY DEF NoScript
<1>5. cases[j].path # c.path
  BY DEF Alone
<1>6. cases[j].path # FileOf[c.title]
  BY <1>3, <1>4, <1>5 DEF Conflicts
<1> QED
  BY <1>2, <1>5, <1>6

(* The i-th test's script is written, or that of a new one. *)
LEMMA ScriptApart ==
  ASSUME NEW cases \in Seq(Cases), NEW d \in Disks, Follow(cases, d.script), NEW i,
         NEW c, Draft(c), ~Conflicts(c, c.title, d), Alone(cases, i, c.path),
         NEW x, x = Written(c), NEW w, w = ScriptSteps(c, d),
         NEW new, new = Last(w).script
  PROVE  Holds(x, new) /\ Alone(cases, i, x.path) /\ Untouched(cases, i, d.script, new)
<1>1. x.path = FileOf[c.title] /\ x.cmd = c.cmd
  BY WrittenIs
<1>2. /\ new[FileOf[c.title]].cmd = c.cmd
      /\ \A p \in Files : p \notin {FileOf[c.title], c.path} => new[p] = d.script[p]
  <2>1. c.id \in Nat /\ c.cmd \in Text /\ c.title \in Titles /\ c.path \in Files \cup {None}
    BY DEF Draft
  <2> QED
    BY <2>1, ScriptWrites
<1>3. ASSUME NEW j \in 1..Len(cases), j # i, cases[j].path # None
      PROVE  cases[j].path # x.path /\ new[cases[j].path] = d.script[cases[j].path]
  <2>1. cases[j].path \in Files /\ cases[j].path \notin {FileOf[c.title], c.path}
    BY <1>3, Apart
  <2> QED
    BY <1>1, <1>2, <2>1
<1> QED
  BY <1>1, <1>2, <1>3 DEF Holds, Alone, Untouched

(* The script of the test at hand is written. *)
LEMMA ScriptFollows ==
  ASSUME Inv, app.cases # <<>>, NEW c, Draft(c), c.path = Selected(app).path,
         ~Conflicts(c, c.title, disk), troubled = FALSE,
         NEW w, w = ScriptSteps(c, disk),
         NEW all, all = [app.cases EXCEPT ![app.sel] = Written(c)]
  PROVE  Follow(all, Last(w).script)
<1> DEFINE x == Written(c)
           i == app.sel
           new == Last(w).script
<1>1. /\ disk \in Disks /\ app.cases \in Seq(Cases) /\ i \in 1..Len(app.cases)
      /\ Follow(app.cases, disk.script) /\ app.cases[i].path = c.path
  BY InvIs DEF Selected
<1>2. x \in Cases
  BY WrittenIs
<1>3. Alone(app.cases, i, c.path)
  BY <1>1 DEF Follow, Alone
<1> HIDE DEF i
<1>4. Holds(x, new) /\ Alone(app.cases, i, x.path) /\ Untouched(app.cases, i, disk.script, new)
  BY <1>1, <1>3, ScriptApart
<1>5. all = [app.cases EXCEPT ![i] = x]
  BY DEF i
<1> HIDE DEF x, new
<1>6. Follow(all, new)
  BY <1>1, <1>2, <1>4, <1>5, FollowPut
<1> QED
  BY <1>6 DEF new

-----------------------------------------------------------------------------
(* Saving                                                                   *)

LEMMA SavedSound ==
  ASSUME NEW e, Sound(e), NEW x,
         \/ x = [e EXCEPT !.dirty = FALSE]
         \/ x = [e EXCEPT !.dirty = FALSE, !.mode = IF @ = "line" THEN "normal" ELSE @]
  PROVE  Sound(x) /\ Keeps(e, x) /\ Edits(e, x)
<1> DEFINE no == FALSE
           modes == {"normal", "insert", "line", "search", "help"}
<1>1. Held(e) /\ e \in Editors /\ e.mode \in modes /\ no \in BOOLEAN
  <2>1. Held(e) /\ e \in Editors
    BY SoundHeld
  <2>2. e.mode \in modes
    BY <2>1 DEF Editors
  <2> QED
    BY <2>1, <2>2
<1>2. PICK m \in modes : /\ x = [e EXCEPT !.dirty = no, !.mode = m]
                         /\ m = e.mode \/ e.mode = "line"
  <2>1. e = [e EXCEPT !.mode = e.mode]
    BY <1>1 DEF Editors
  <2>2. CASE x = [e EXCEPT !.dirty = FALSE]
    <3>1. x = [e EXCEPT !.dirty = no, !.mode = e.mode]
      BY <1>1, <2>2 DEF Editors
    <3> QED
      BY <1>1, <3>1
  <2>3. CASE x = [e EXCEPT !.dirty = FALSE, !.mode = IF @ = "line" THEN "normal" ELSE @]
    <3>1. CASE e.mode = "line"
      BY <2>3, <3>1
    <3>2. CASE e.mode # "line"
      BY <1>1, <2>3, <3>2
    <3> QED
      BY <3>1, <3>2
  <2> QED
    BY <2>2, <2>3
<1> HIDE DEF no
<1>3. x \in Editors
  BY <1>1, <1>2 DEF Editors
<1>4. /\ x.lines = e.lines /\ x.row = e.row /\ x.col = e.col /\ x.undo = e.undo /\ x.pend = e.pend
      /\ x.list = e.list /\ x.mode = m /\ x.vis = e.vis /\ x.ar = e.ar /\ x.ac = e.ac
      /\ x.op = e.op /\ x.anchor = e.anchor
  BY <1>1, <1>2 DEF Editors
<1>5. Len(x.pend) < PendSize /\ (x.list # {} => x.mode = "insert")
  BY <1>1, <1>2, <1>4 DEF Held
<1>6. Held(x) /\ Keeps(e, x)
  BY <1>1, <1>3, <1>4, <1>5, FieldsHold
<1>7. Anchored(x)
  <2>1. Anchored(e) /\ (e.mode = "normal" => x.mode = "normal") /\ Rows(x) = Rows(e)
    BY <1>2, <1>4 DEF Sound, Rows
  <2> QED
    BY <1>4, <2>1 DEF Anchored
<1> QED
  BY <1>6, <1>7 DEF Sound, Edits

LEMMA SoundText == ASSUME NEW e, Sound(e) PROVE e.lines \in Text /\ e.lines # <<>>
<1>1. e \in Editors /\ OnText(e)
  BY SoundHeld DEF Held
<1> QED
  BY <1>1, HeldLines DEF OnText

(* What is taken over from the editor. *)
LEMMA TakenIs ==
  ASSUME Inv, app.cases # <<>>, NEW c, c = Taken
  PROVE  /\ c \in Cases /\ c.path = Selected(app).path /\ c.key = Selected(app).key
         /\ ed.target # "command" => c.cmd = Selected(app).cmd
<1> DEFINE o == Selected(app)
           M == {m \in 1..Rows(ed) : Bytes(ed.lines, m) + 1 < DescSize}
           n == Cardinality(M)
           rest == IF n = Rows(ed) THEN <<>> ELSE << <<>> >>
           desc == Upto(ed.lines, n) \o rest
<1>1. o \in Cases /\ Sound(ed)
  BY InvIs
<1>2. ed.lines \in Text /\ ed.lines # <<>> /\ Rows(ed) \in Nat /\ Rows(ed) = Len(ed.lines) /\ Rows(ed) > 0
  <2>1. ed.lines \in Seq(Line) /\ ed.lines # <<>>
    BY <1>1, SoundText DEF Text
  <2> QED
    BY <2>1, SeqIs DEF Rows, Text
<1>3. n \in 0..Rows(ed)
  <2>1. M \in SUBSET (1..Rows(ed))
    OBVIOUS
  <2>2. IsFiniteSet(1..Rows(ed)) /\ Cardinality(1..Rows(ed)) = Rows(ed)
    <3>1. 1 \in Int /\ Rows(ed) \in Int /\ ~(1 > Rows(ed)) /\ Rows(ed) - 1 + 1 = Rows(ed)
      BY <1>2
    <3> QED
      BY <3>1, FS_Interval
  <2> HIDE DEF M
  <2>3. Cardinality(M) \in Nat /\ Cardinality(M) <= Rows(ed)
    BY <2>1, <2>2, FS_Subset, FS_CardinalityType
  <2> QED
    BY <1>2, <2>3
<1> HIDE DEF M, n
<1>4. desc \in Text /\ desc # <<>>
  <2>1. Upto(ed.lines, n) \in Text /\ Len(Upto(ed.lines, n)) = n
    BY <1>2, <1>3, UptoIs DEF Text
  <2> DEFINE more == << <<>> >>
             none == <<>>
  <2>2. more \in Text /\ Len(more) = 1 /\ none \in Text /\ Len(none) = 0
    <3>1. <<>> \in Line
      BY DEF Line
    <3>2. \A l \in Line : <<l>> \in Seq(Line) /\ Len(<<l>>) = 1
      OBVIOUS
    <3> QED
      BY <3>1, <3>2 DEF Text
  <2>3. rest = IF n = Rows(ed) THEN none ELSE more
    OBVIOUS
  <2> HIDE DEF more, none, rest
  <2>4. rest \in Seq(Line) /\ Len(rest) \in Nat /\ (n = Rows(ed) \/ Len(rest) = 1)
    BY <2>2, <2>3 DEF Text
  <2>5. \A s, t \in Seq(Line) : s \o t \in Seq(Line) /\ Len(s \o t) = Len(s) + Len(t)
    OBVIOUS
  <2>6. desc \in Text /\ Len(desc) = n + Len(rest)
    BY <2>1, <2>4, <2>5 DEF Text
  <2> HIDE DEF desc
  <2>7. Len(desc) > 0
    <3>1. \A r, i, k \in Nat : r > 0 /\ i <= r /\ (i = r \/ k = 1) => i + k > 0
      OBVIOUS
    <3>2. n \in Nat /\ n <= Rows(ed)
      BY <1>2, <1>3
    <3> HIDE DEF rest
    <3> QED
      BY <1>2, <2>4, <2>6, <3>1, <3>2
  <2> QED
    BY <2>6, <2>7, SeqIs DEF Text
<1>5. c = IF ed.target = "command" THEN [o EXCEPT !.cmd = ed.lines] ELSE [o EXCEPT !.desc = desc]
  BY DEF Taken, M, n
<1> HIDE DEF desc, o
<1>6. CASE ed.target = "command"
  BY <1>1, <1>2, <1>5, <1>6 DEF Cases, o
<1>7. CASE ed.target # "command"
  BY <1>1, <1>4, <1>5, <1>7 DEF Cases, o
<1> QED
  BY <1>6, <1>7

(* The registry after the script. *)
Both(v, cases) == v \o RegistrySteps(cases, Last(v))

LEMMA BothWrites ==
  ASSUME NEW v, Writes(v), NEW cases \in Seq(Cases)
  PROVE  /\ Writes(Both(v, cases)) /\ Last(Both(v, cases)) \in Disks
         /\ Last(Both(v, cases)).reg = Lines(cases)
         /\ Last(Both(v, cases)).script = Last(v).script
<1> DEFINE w == RegistrySteps(cases, Last(v))
           all == Both(v, cases)
<1>1. Last(v) \in Disks
  BY LastOne DEF Writes
<1>2. Writes(w) /\ Last(w) = [script |-> Last(v).script, reg |-> Lines(cases)]
  BY <1>1, RegistryWrites
<1>3. all = v \o w
  BY DEF Both
<1> HIDE DEF w, all
<1>4. Writes(all) /\ Last(all) = Last(w)
  BY <1>2, <1>3, WritesBoth
<1>5. Last(all) \in Disks
  BY <1>4, LastOne DEF Writes
<1> QED
  BY <1>2, <1>4, <1>5 DEF all

Followed(cases, script) == troubled = FALSE => Follow(cases, script)

(* A script is written, and then the registry. *)
LEMMA BothInv ==
  ASSUME Inv, regen = Idle, NEW v, Writes(v), NEW a \in Apps,
         NEW b, b = a.cases, Followed(b, Last(v).script),
         NEW all, all = Both(v, b),
         Commit(all, a), Sound(ed'), loaded' \in Nat, gone' \in Nat
  PROVE  Inv' /\ (app' = a \/ app' = Off)
<1>1. b \in Seq(Cases)
  BY AppIs
<1>2. /\ Writes(all) /\ Last(all) \in Disks /\ Last(all).reg = Lines(b)
      /\ Last(all).script = Last(v).script
  BY <1>1, BothWrites
<1>3. troubled = FALSE => Follow(b, Last(all).script)
  BY <1>2 DEF Followed
<1> QED
  BY <1>1, <1>2, <1>3, CommitInv

LEMMA BackFields ==
  Inv => Back = [cases |-> app.cases, sel |-> app.sel, filter |-> app.filter, screen |-> "list",
                 fresh |-> app.fresh]
<1>1. SUFFICES ASSUME Inv
               PROVE  Back = [cases |-> app.cases, sel |-> app.sel, filter |-> app.filter,
                              screen |-> "list", fresh |-> app.fresh]
  OBVIOUS
<1>2. app = [cases |-> app.cases, sel |-> app.sel, filter |-> app.filter, screen |-> app.screen,
             fresh |-> app.fresh]
  BY <1>1, InvIs, AppFields
<1> QED
  BY <1>2 DEF Back

(* What :w and :wq make of the app. *)
LEMMA DoneFields ==
  ASSUME Inv, app.screen # "off", NEW base \in {Back, app}, NEW c, NEW put, put = [base EXCEPT !.cases[app.sel] = c]
  PROVE  \E screen \in Screens :
           /\ screen # "script" \/ screen = app.screen
           /\ screen # "off"
           /\ put = [cases |-> [app.cases EXCEPT ![app.sel] = c], sel |-> app.sel,
                     filter |-> app.filter, screen |-> screen, fresh |-> app.fresh]
<1> DEFINE screen == IF base = app THEN app.screen ELSE "list"
<1>1. screen \in Screens /\ (screen # "script" \/ screen = app.screen) /\ screen # "off"
  BY InvIs DEF Screens
<1>2. app = [cases |-> app.cases, sel |-> app.sel, filter |-> app.filter, screen |-> app.screen,
             fresh |-> app.fresh]
  BY InvIs, AppFields
<1>3. base = [cases |-> app.cases, sel |-> app.sel, filter |-> app.filter, screen |-> screen,
              fresh |-> app.fresh]
  BY <1>2, BackFields
<1> HIDE DEF screen
<1>4. put = [cases |-> [app.cases EXCEPT ![app.sel] = c], sel |-> app.sel, filter |-> app.filter,
             screen |-> screen, fresh |-> app.fresh]
  BY <1>3
<1> QED
  BY <1>1, <1>4

LEMMA SaveFit == ASSUME Inv, NEW leave \in BOOLEAN, Save(leave) PROVE Fit
<1> DEFINE c == Taken
           stuck == [app EXCEPT !.cases[app.sel] = c]
           x == IF c.path = None /\ ed.target # "command" THEN c ELSE Written(c)
           base == IF leave THEN Back ELSE app
           put == [base EXCEPT !.cases[app.sel] = x]
           fresh == IF ed.target = "command" THEN FALSE ELSE put.fresh
           done == [put EXCEPT !.fresh = fresh]
           writes == IF ed.target = "command" \/ c.path # None THEN ScriptSteps(c, disk) ELSE <<disk>>
           all == Both(writes, done.cases)
           blocked == ed.target = "command" /\ Conflicts(c, c.title, disk)
           saved == [ed EXCEPT !.dirty = FALSE, !.mode = IF @ = "line" THEN "normal" ELSE @]
<1>1. /\ app.screen = "script" /\ app.cases # <<>> /\ loaded' = loaded /\ gone' = gone
      /\ \/ blocked /\ app' = stuck /\ Quietly /\ ed' = ed
         \/ ~blocked /\ Commit(all, done) /\ ed' = saved
         \/ ~blocked /\ Fails(stuck) /\ ed' = ed
  BY DEF Save, CanLeave, AndThen, Both
<1>2. /\ c \in Cases /\ Draft(c) /\ c.path = Selected(app).path /\ c.key = Selected(app).key
      /\ ed.target # "command" => c.cmd = Selected(app).cmd
  BY <1>1, TakenIs, CaseDraft
<1>3. /\ stuck \in Apps /\ stuck.cases = [app.cases EXCEPT ![app.sel] = c]
      /\ Selected(stuck) = c /\ stuck.filter = app.filter /\ stuck.screen = app.screen
  <2>1. app \in Apps /\ app.screen \in Screens /\ app.fresh \in BOOLEAN
    BY InvIs
  <2>2. stuck = [cases |-> [app.cases EXCEPT ![app.sel] = c], sel |-> app.sel,
                 filter |-> app.filter, screen |-> app.screen, fresh |-> app.fresh]
    BY <2>1, PutFields
  <2> HIDE DEF stuck, c
  <2> QED
    BY <1>1, <1>2, <2>1, <2>2, PutApp
<1>4. x \in Cases /\ x.key = c.key
  BY <1>2, WrittenIs
<1>5. base \in {Back, app}
  OBVIOUS
<1> HIDE DEF c, stuck, x, base
<1>6. PICK screen \in Screens :
        /\ screen # "script" \/ screen = app.screen
        /\ screen # "off"
        /\ put = [cases |-> [app.cases EXCEPT ![app.sel] = x], sel |-> app.sel,
                  filter |-> app.filter, screen |-> screen, fresh |-> app.fresh]
  BY <1>1, <1>5, DoneFields
<1> HIDE DEF put
<1>c. fresh \in BOOLEAN
  <2>1. put.fresh = app.fresh
    BY <1>6
  <2> QED
    BY <2>1, InvIs
<1> HIDE DEF fresh
<1>a. done = [cases |-> [app.cases EXCEPT ![app.sel] = x], sel |-> app.sel,
              filter |-> app.filter, screen |-> screen, fresh |-> fresh]
  BY <1>6
<1> HIDE DEF done, saved
<1>b. /\ done \in Apps /\ done.cases = [app.cases EXCEPT ![app.sel] = x] /\ Selected(done) = x
      /\ done.filter = app.filter /\ (done.screen # "script" \/ done.screen = app.screen)
  <2>1. app \in Apps /\ app.cases # <<>>
    BY <1>1, InvIs
  <2> QED
    BY <1>4, <1>6, <1>a, <1>c, <2>1, PutApp
<1>7. Sound(ed) /\ loaded \in Nat /\ gone \in Nat /\ regen = Idle /\ Edits(ed, ed)
  BY <1>1, InvIs, EditsItself
<1>8. CASE blocked /\ app' = stuck /\ Quietly /\ ed' = ed
  <2>1. c.path = None
    BY <1>2, <1>8, CaseIs DEF Conflicts
  <2>2. troubled = FALSE => Follow(stuck.cases, disk.script)
    <3>1. SUFFICES ASSUME troubled = FALSE PROVE Follow(stuck.cases, disk.script)
      OBVIOUS
    <3>2. Follow(app.cases, disk.script) /\ app.cases \in Seq(Cases) /\ app.sel \in 1..Len(app.cases)
      BY <1>1, <3>1, InvIs
    <3>3. /\ Holds(c, disk.script) /\ Alone(app.cases, app.sel, c.path)
          /\ Untouched(app.cases, app.sel, disk.script, disk.script)
      BY <2>1 DEF Holds, Alone, Untouched
    <3> QED
      BY <1>2, <1>3, <3>2, <3>3, FollowPut
  <2>3. Inv'
    BY <1>1, <1>3, <1>7, <1>8, <2>2, CalmInv DEF Quietly
  <2> QED
    BY <1>1, <1>2, <1>3, <1>7, <1>8, <2>3 DEF Fit, Story
<1>9. CASE ~blocked /\ Commit(all, done) /\ ed' = saved
  <2>1. Sound(ed') /\ Edits(ed, ed')
    BY <1>7, <1>9, SavedSound DEF saved
  <2>2. ASSUME ed.target = "command" \/ c.path # None
        PROVE  Inv' /\ (app' = done \/ app' = Off)
    <3>1. writes = ScriptSteps(c, disk) /\ x = Written(c) /\ ~Conflicts(c, c.title, disk)
      <4>1. ~Conflicts(c, c.title, disk)
        BY <1>2, <1>9, <2>2, CaseIs DEF Conflicts
      <4> QED
        BY <2>2, <4>1 DEF x
    <3> HIDE DEF writes
    <3>2. Writes(writes)
      BY <1>2, <3>1, InvIs, DraftWrites
    <3>3. ASSUME troubled = FALSE PROVE Follow(done.cases, Last(writes).script)
      <4>1. app.cases # <<>> /\ done.cases = [app.cases EXCEPT ![app.sel] = Written(c)]
        BY <1>1, <1>b, <3>1
      <4> QED
        BY <1>2, <3>1, <3>3, <4>1, ScriptFollows
    <3>4. Followed(done.cases, Last(writes).script)
      BY <3>3 DEF Followed
    <3> QED
      BY <1>1, <1>b, <1>7, <1>9, <2>1, <3>2, <3>4, BothInv
  <2>3. ASSUME ed.target # "command", c.path = None
        PROVE  Inv' /\ (app' = done \/ app' = Off)
    <3>1. writes = <<disk>> /\ x = c
      BY <2>3 DEF x
    <3> HIDE DEF writes
    <3>2. Writes(writes) /\ Last(writes) = disk
      BY <3>1, InvIs, WritesOne
    <3>3. ASSUME troubled = FALSE PROVE Follow(done.cases, Last(writes).script)
      <4>1. Follow(app.cases, disk.script) /\ app.cases \in Seq(Cases) /\ app.sel \in 1..Len(app.cases)
        BY <1>1, <3>3, InvIs
      <4>2. /\ Holds(c, disk.script) /\ Alone(app.cases, app.sel, c.path)
            /\ Untouched(app.cases, app.sel, disk.script, disk.script)
        BY <2>3 DEF Holds, Alone, Untouched
      <4> QED
        BY <1>2, <1>b, <3>1, <3>2, <4>1, <4>2, FollowPut
    <3>4. Followed(done.cases, Last(writes).script)
      BY <3>3 DEF Followed
    <3> QED
      BY <1>1, <1>b, <1>7, <1>9, <2>1, <3>2, <3>4, BothInv
  <2>4. Inv' /\ (app' = done \/ app' = Off)
    BY <2>2, <2>3
  <2>5. CASE app' = Off
    BY <1>1, <2>4, <2>5, OffIs DEF Fit, Story
  <2>6. CASE app' = done
    BY <1>1, <1>2, <1>4, <1>b, <2>1, <2>4, <2>6 DEF Fit, Story
  <2> QED
    BY <2>4, <2>5, <2>6
<1>10. CASE ~blocked /\ Fails(stuck) /\ ed' = ed
  <2>1. Inv'
    BY <1>1, <1>3, <1>7, <1>10, FailInv DEF Fails
  <2>2. app' = stuck
    BY <1>10 DEF Fails
  <2> QED
    BY <1>1, <1>2, <1>3, <1>7, <1>10, <2>1, <2>2 DEF Fit, Story
<1> QED
  BY <1>1, <1>8, <1>9, <1>10

-----------------------------------------------------------------------------
(* Leaving the editor, and taking a test out                                *)

LEMMA BackIs ==
  ASSUME Inv
  PROVE  /\ Back \in Apps /\ Back.cases = app.cases /\ Back.screen = "list"
         /\ Back.filter = app.filter /\ Back.sel = app.sel
<1>1. Back = [cases |-> app.cases, sel |-> app.sel, filter |-> app.filter, screen |-> "list",
              fresh |-> app.fresh]
  BY BackFields
<1>2. /\ app \in Apps /\ "list" \in Screens /\ "list" # "script"
  BY InvIs DEF Screens
<1>3. Back \in Apps
  BY <1>1, <1>2 DEF Apps
<1> QED
  BY <1>1, <1>3

LEMMA QuitFit == ASSUME Inv, Quit PROVE Fit
<1>1. app.screen = "script" /\ app' = Back /\ UNCHANGED <<ed, loaded, gone>> /\ Quietly
  BY DEF Quit, CanLeave
<1>2. Inv'
  BY <1>1, BackIs, InvIs, CalmInv DEF Quietly
<1> QED
  BY <1>1, <1>2, BackIs DEF Fit, Story

LEMMA RemoveIs ==
  ASSUME NEW cases \in Seq(Cases), NEW i \in 1..Len(cases), NEW r, r = RemoveAt(cases, i)
  PROVE  /\ r \in Seq(Cases) /\ Len(r) = Len(cases) - 1
         /\ \A j \in 1..Len(r) : r[j] = cases[IF j < i THEN j ELSE j + 1]
<1>1. r = SubSeq(cases, 1, i - 1) \o SubSeq(cases, i + 1, Len(cases))
  BY DEF RemoveAt
<1> DEFINE a == SubSeq(cases, 1, i - 1)
           b == SubSeq(cases, i + 1, Len(cases))
           n == Len(cases)
<1>2. n \in Nat /\ i \in Nat /\ i >= 1 /\ i <= n
  BY SeqIs
<1>3. a \in Seq(Cases) /\ Len(a) = i - 1 /\ \A j \in 1..(i - 1) : a[j] = cases[j]
  BY <1>2
<1>4. b \in Seq(Cases) /\ Len(b) = n - i /\ \A j \in 1..(n - i) : b[j] = cases[i + j]
  BY <1>2
<1> HIDE DEF a, b
<1>5. r = a \o b
  BY <1>1 DEF a, b
<1>6. /\ r \in Seq(Cases) /\ Len(r) = (i - 1) + (n - i)
      /\ \A j \in 1..(i - 1) : r[j] = a[j]
      /\ \A j \in 1..(n - i) : r[(i - 1) + j] = b[j]
  <2>1. \A s, t \in Seq(Cases) :
          /\ s \o t \in Seq(Cases) /\ Len(s \o t) = Len(s) + Len(t)
          /\ \A j \in 1..Len(s) : (s \o t)[j] = s[j]
          /\ \A j \in 1..Len(t) : (s \o t)[Len(s) + j] = t[j]
    OBVIOUS
  <2>2. /\ a \o b \in Seq(Cases) /\ Len(a \o b) = Len(a) + Len(b)
        /\ \A j \in 1..Len(a) : (a \o b)[j] = a[j]
        /\ \A j \in 1..Len(b) : (a \o b)[Len(a) + j] = b[j]
    BY <1>3, <1>4, <2>1
  <2> QED
    BY <1>3, <1>4, <1>5, <2>2
<1>7. Len(r) = n - 1
  BY <1>2, <1>6
<1>8. ASSUME NEW j \in 1..(n - 1) PROVE r[j] = cases[IF j < i THEN j ELSE j + 1]
  <2>1. CASE j < i
    BY <1>2, <1>3, <1>6, <2>1
  <2>2. CASE ~(j < i)
    <3> DEFINE k == j - (i - 1)
    <3>1. k \in 1..(n - i) /\ j = (i - 1) + k /\ i + k = j + 1
      BY <1>2, <2>2
    <3> HIDE DEF k
    <3>2. r[j] = cases[i + k]
      BY <1>4, <1>6, <3>1
    <3> QED
      BY <2>2, <3>1, <3>2
  <2> QED
    BY <2>1, <2>2
<1> QED
  BY <1>6, <1>7, <1>8

LEMMA FollowRemove ==
  ASSUME NEW cases \in Seq(Cases), NEW i \in 1..Len(cases), NEW r, r = RemoveAt(cases, i),
         NEW script, NEW new, Follow(cases, script), Untouched(cases, i, script, new)
  PROVE  Follow(r, new)
<1> DEFINE At1(j) == IF j < i THEN j ELSE j + 1
<1>1. /\ Len(cases) \in Nat /\ Len(r) = Len(cases) - 1
      /\ \A j \in 1..Len(r) : r[j] = cases[At1(j)]
  BY RemoveIs, SeqIs
<1>2. \A j \in 1..Len(r) : At1(j) \in 1..Len(cases) /\ At1(j) # i
  BY <1>1
<1>3. \A j, k \in 1..Len(r) : At1(j) = At1(k) => j = k
  OBVIOUS
<1> HIDE DEF At1
<1>4. \A j \in 1..Len(r) : r[j].path # None => new[r[j].path].cmd = r[j].cmd
  BY <1>1, <1>2 DEF Follow, Untouched
<1>5. \A j, k \in 1..Len(r) : r[j].path = r[k].path /\ r[j].path # None => j = k
  BY <1>1, <1>2, <1>3, SMTT(20) DEF Follow
<1> QED
  BY <1>4, <1>5 DEF Follow

LEMMA AppRenewed ==
  ASSUME NEW a \in Apps, NEW cases, NEW fresh, NEW b,
         b = [a EXCEPT !.cases = cases, !.fresh = fresh]
  PROVE  b = [cases |-> cases, sel |-> a.sel, filter |-> a.filter, screen |-> a.screen,
              fresh |-> fresh]
BY DEF Apps

LEMMA DiscardFit == ASSUME Inv, Discard PROVE Fit
<1> DEFINE rest == RemoveAt(app.cases, app.sel)
           no == FALSE
           new == app.fresh /\ ed.target = "command" /\ app.cases # <<>>
           b == [Back EXCEPT !.cases = rest, !.fresh = no]
<1>1. /\ app.screen = "script" /\ Quietly /\ loaded' = loaded
      /\ app' = ClampSelected(b) \/ app' = Back
      /\ gone' \in {loaded, gone} /\ ed' = [ed EXCEPT !.dirty = FALSE]
  BY BackIs DEF Discard, CanLeave
<1>2. /\ app.cases \in Seq(Cases) /\ app.sel \in 1..Len(app.cases) /\ regen = Idle
      /\ app.cases # <<>> /\ Len(app.cases) \in Nat
  <2>1. app.cases # <<>>
    BY <1>1, InvIs, AppIs
  <2> QED
    BY <1>1, <2>1, InvIs
<1>3. rest \in Seq(Cases) /\ Len(rest) <= MaxCases
  <2>1. rest \in Seq(Cases) /\ Len(rest) = Len(app.cases) - 1
    BY <1>2, RemoveIs
  <2> QED
    BY <1>2, <2>1, InvIs, BuilderAssumption
<1>4. troubled = FALSE => Follow(rest, disk.script)
  <2>1. Untouched(app.cases, app.sel, disk.script, disk.script)
    BY DEF Untouched
  <2> QED
    BY <1>2, <2>1, InvIs, FollowRemove, ZenonT(40)
<1>5. no \in BOOLEAN
  OBVIOUS
<1> HIDE DEF rest, no
<1>6. b = [cases |-> rest, sel |-> app.sel, filter |-> app.filter, screen |-> "list", fresh |-> no]
  <2>1. b = [Back EXCEPT !.cases = rest, !.fresh = no]
    OBVIOUS
  <2> HIDE DEF b
  <2>2. b = [cases |-> rest, sel |-> Back.sel, filter |-> Back.filter, screen |-> Back.screen,
             fresh |-> no]
    BY <2>1, BackIs, AppRenewed
  <2> QED
    BY <2>2, BackIs
<1> HIDE DEF b
<1>7. /\ app' \in Apps /\ app'.screen = "list"
      /\ troubled = FALSE => Follow(app'.cases, disk.script)
  <2>1. CASE app' = ClampSelected(b)
    <3>1. "list" \in Screens /\ "list" # "script" /\ app.sel \in Nat /\ app.sel >= 1
          /\ app.filter \in Filters \cup {None}
      BY InvIs DEF Screens
    <3>2. Rough(b) /\ b.cases = rest /\ b.screen = "list"
      BY <1>3, <1>5, <1>6, <3>1 DEF Rough
    <3> QED
      BY <1>4, <2>1, <3>2, ClampedApp
  <2>2. CASE app' = Back
    BY <2>2, BackIs, InvIs
  <2> QED
    BY <1>1, <2>1, <2>2
<1>8. Sound(ed')
  BY <1>1, InvIs, SavedSound
<1>9. Inv'
  BY <1>1, <1>2, <1>7, <1>8, InvIs, CalmInv DEF Quietly
<1> QED
  BY <1>1, <1>7, <1>9 DEF Fit, Story

-----------------------------------------------------------------------------
(* Other operations on the list                                             *)

(* A test is in sight. *)
LEMMA InSight ==
  ASSUME Inv, Visible(app) # {}
  PROVE  /\ app.cases # <<>> /\ app.sel \in 1..Len(app.cases) /\ Selected(app) \in Cases
         /\ app.cases \in Seq(Cases)
<1>1. PICK i \in DOMAIN app.cases : TRUE
  BY DEF Visible
<1>2. app.cases # <<>>
  BY <1>1
<1> QED
  BY <1>2, InvIs

(* Everything is on the disk, or the program was killed. *)
LEMMA DoneFit ==
  ASSUME Inv, app.screen # "script", NotEditing, NEW a, app' = a \/ app' = Off,
         a.screen # "script", Inv'
  PROVE  Fit
BY OffIs DEF Fit, Story, NotEditing

LEMMA RenameFit == ASSUME Inv, NEW title \in Titles, Rename(title) PROVE Fit
<1> DEFINE c == [Selected(app) EXCEPT !.title = title]
           x == Written(c)
           b == [app EXCEPT !.cases[app.sel] = x]
           a == ClampSelected(b)
           writes == ScriptSteps(c, disk)
           all == Both(writes, a.cases)
<1>1. /\ app.screen = "list" /\ Visible(app) # {} /\ ~Conflicts(c, title, disk) /\ NotEditing
      /\ Commit(all, a) \/ Fails(app)
  BY DEF Rename, On, AndThen, Both
<1>2. /\ app.cases # <<>> /\ Selected(app) \in Cases /\ app \in Apps
  BY <1>1, InSight, InvIs
<1>3. Draft(c) /\ c.path = Selected(app).path /\ c.title = title
  BY <1>2 DEF Cases, Draft
<1> HIDE DEF c
<1>4. x \in Cases
  BY <1>3, WrittenIs
<1>5. b = [cases |-> [app.cases EXCEPT ![app.sel] = x], sel |-> app.sel, filter |-> app.filter,
           screen |-> app.screen, fresh |-> app.fresh]
  BY <1>2, PutFields
<1> HIDE DEF b, x
<1>6. Rough(b) /\ b.cases = [app.cases EXCEPT ![app.sel] = x] /\ b.screen = app.screen
  <2>1. app.screen \in Screens /\ app.fresh \in BOOLEAN
    BY InvIs
  <2> QED
    BY <1>1, <1>2, <1>4, <1>5, <2>1, PutApp
<1>7. a \in Apps /\ a.cases = [app.cases EXCEPT ![app.sel] = x] /\ a.screen = "list"
  BY <1>1, <1>6, ClampedApp
<1> HIDE DEF a
<1>8. regen = Idle /\ Sound(ed') /\ loaded' \in Nat /\ gone' \in Nat /\ disk \in Disks
  BY <1>1, InvIs DEF NotEditing
<1>9. CASE Commit(all, a)
  <2>1. Writes(writes)
    BY <1>3, <1>8, DraftWrites
  <2>2. ASSUME troubled = FALSE PROVE Follow(a.cases, Last(writes).script)
    <3>1. ~Conflicts(c, c.title, disk) /\ a.cases = [app.cases EXCEPT ![app.sel] = Written(c)]
      BY <1>1, <1>3, <1>7 DEF x
    <3> QED
      BY <1>2, <1>3, <2>2, <3>1, ScriptFollows
  <2> HIDE DEF writes
  <2>3. Followed(a.cases, Last(writes).script)
    BY <2>2 DEF Followed
  <2>4. Inv' /\ (app' = a \/ app' = Off)
    BY <1>7, <1>8, <1>9, <2>1, <2>3, BothInv
  <2> QED
    BY <1>1, <1>7, <2>4, DoneFit
<1>10. CASE Fails(app)
  <2>1. Inv' /\ app' = app
    BY <1>2, <1>8, <1>10, FailInv DEF Fails
  <2> QED
    BY <1>1, <2>1, DoneFit
<1> QED
  BY <1>1, <1>9, <1>10

LEMMA ToggleFit == ASSUME Inv, Toggle PROVE Fit
<1> DEFINE x == [Selected(app) EXCEPT !.sel = ~@]
           a == [app EXCEPT !.cases[app.sel].sel = ~@]
           w == RegistrySteps(a.cases, disk)
<1>1. app.screen = "list" /\ Visible(app) # {} /\ Commit(w, a) /\ NotEditing
  BY DEF Toggle, On
<1>2. /\ app.cases # <<>> /\ Selected(app) \in Cases /\ app \in Apps /\ app.cases \in Seq(Cases)
      /\ app.sel \in 1..Len(app.cases)
  BY <1>1, InSight, InvIs
<1>3. x \in Cases /\ x.path = Selected(app).path /\ x.cmd = Selected(app).cmd
  <2> DEFINE s == ~Selected(app).sel
  <2>1. s \in BOOLEAN
    OBVIOUS
  <2>2. x = [Selected(app) EXCEPT !.sel = s]
    OBVIOUS
  <2> HIDE DEF s, x
  <2> QED
    BY <1>2, <2>1, <2>2 DEF Cases
<1>4. a = [app EXCEPT !.cases[app.sel] = x]
  BY DEF Selected
<1> HIDE DEF a, x
<1>5. a = [cases |-> [app.cases EXCEPT ![app.sel] = x], sel |-> app.sel, filter |-> app.filter,
           screen |-> app.screen, fresh |-> app.fresh]
  BY <1>2, <1>4, PutFields
<1>6. /\ a \in Apps /\ a.cases = [app.cases EXCEPT ![app.sel] = x] /\ a.screen = "list"
  <2>1. app.screen \in Screens /\ app.fresh \in BOOLEAN
    BY InvIs
  <2> QED
    BY <1>1, <1>2, <1>3, <1>5, <2>1, PutApp, SMTT(20)
<1>7. regen = Idle /\ Sound(ed') /\ loaded' \in Nat /\ gone' \in Nat /\ disk \in Disks
  BY <1>1, InvIs DEF NotEditing
<1>8. a.cases \in Seq(Cases)
  BY <1>6, AppIs
<1>9. Writes(w) /\ Last(w) \in Disks /\ Last(w).reg = Lines(a.cases) /\ Last(w).script = disk.script
  <2>1. Writes(w) /\ Last(w) = [script |-> disk.script, reg |-> Lines(a.cases)]
    BY <1>7, <1>8, RegistryWrites
  <2> HIDE DEF w
  <2> QED
    BY <2>1, LastOne DEF Writes
<1>10. ASSUME troubled = FALSE PROVE Follow(a.cases, disk.script)
  <2>1. Follow(app.cases, disk.script)
    BY <1>10, InvIs
  <2>2. app.cases[app.sel] = Selected(app)
    BY DEF Selected
  <2>3. /\ Holds(x, disk.script) /\ Alone(app.cases, app.sel, x.path)
        /\ Untouched(app.cases, app.sel, disk.script, disk.script)
    BY <1>2, <1>3, <2>1, <2>2 DEF Holds, Alone, Untouched, Follow
  <2> QED
    BY <1>2, <1>3, <1>6, <2>1, <2>3, FollowPut
<1> HIDE DEF w
<1>11. Inv' /\ (app' = a \/ app' = Off)
  <2>1. Followed(a.cases, Last(w).script)
    BY <1>9, <1>10 DEF Followed
  <2> QED
    BY <1>1, <1>6, <1>7, <1>8, <1>9, <2>1, CommitInv DEF Followed
<1> QED
  BY <1>1, <1>6, <1>11, DoneFit

(* One step of Prepared. *)
Preparing(missed, g, n) ==
  IF n = 0 THEN [cases |-> app.cases, steps |-> <<disk>>] ELSE Prepare(g[n - 1], n, missed)

LEMMA PreparedSteps ==
  ASSUME app.cases \in Seq(Cases), NEW missed
  PROVE  \E g : /\ Prepared(missed) = g[Len(app.cases)]
                /\ g = [n \in 0..Len(app.cases) |-> Preparing(missed, g, n)]
<1> DEFINE N == Len(app.cases)
           upto[n \in 0..N] ==
             IF n = 0 THEN [cases |-> app.cases, steps |-> <<disk>>]
             ELSE Prepare(upto[n - 1], n, missed)
           Is(g, k) == g = [n \in 0..k |-> Preparing(missed, g, n)]
           S == {k \in Nat : \E g : Is(g, k)}
<1>1. Prepared(missed) = upto[N]
  BY DEF Prepared
<1>2. upto = CHOOSE g : Is(g, N)
  BY DEF Preparing
<1>3. 0 \in S
  <2> DEFINE g == [n \in 0..0 |-> [cases |-> app.cases, steps |-> <<disk>>]]
  <2>1. g = [n \in 0..0 |-> Preparing(missed, g, n)]
    BY DEF Preparing
  <2> HIDE DEF g
  <2> QED
    BY <2>1
<1>4. ASSUME NEW k \in Nat, k \in S PROVE k + 1 \in S
  <2>1. PICK g : Is(g, k)
    BY <1>4
  <2> DEFINE h == [n \in 0..(k + 1) |-> IF n = k + 1 THEN Preparing(missed, g, k + 1) ELSE g[n]]
  <2>2. \A n \in 0..k : h[n] = g[n] /\ g[n] = Preparing(missed, g, n)
    BY <2>1, SMTT(20)
  <2>3. ASSUME NEW n \in 0..(k + 1) PROVE Preparing(missed, h, n) = Preparing(missed, g, n)
    <3>1. n = 0 \/ n - 1 \in 0..k
      OBVIOUS
    <3> HIDE DEF h
    <3> QED
      BY <2>2, <3>1 DEF Preparing
  <2>4. \A n \in 0..(k + 1) : h[n] = Preparing(missed, h, n)
    <3>1. h[k + 1] = Preparing(missed, g, k + 1)
      OBVIOUS
    <3>2. \A n \in 0..(k + 1) : n = k + 1 \/ n \in 0..k
      OBVIOUS
    <3> HIDE DEF h
    <3> QED
      BY <2>2, <2>3, <3>1, <3>2
  <2>5. h = [n \in 0..(k + 1) |-> h[n]]
    OBVIOUS
  <2> HIDE DEF h
  <2>6. Is(h, k + 1)
    BY <2>4, <2>5
  <2> QED
    BY <2>6
<1>5. N \in Nat
  BY SeqIs
<1> HIDE DEF S
<1>6. N \in S
  BY <1>3, <1>4, <1>5, NatSet
<1>7. \E g : Is(g, N)
  BY <1>6 DEF S
<1> HIDE DEF Is, upto
<1>8. Is(upto, N)
  BY <1>2, <1>7
<1> QED
  BY <1>1, <1>8 DEF Is

(* The scripts of a run that are written leave the registry as it is.       *)
Ready(p) ==
  /\ p.cases \in Seq(Cases) /\ Len(p.cases) = Len(app.cases)
  /\ Writes(p.steps) /\ Last(p.steps).reg = disk.reg
  /\ troubled = FALSE =>
       Registered(disk.reg, Last(p.steps).script) /\ Follow(p.cases, Last(p.steps).script)

LEMMA ReadyStep ==
  ASSUME Inv, NEW missed, NEW p, Ready(p), NEW n \in 1..Len(p.cases)
  PROVE  Ready(Prepare(p, n, missed))
<1> DEFINE c == p.cases[n]
           d == Last(p.steps)
           x == Written(c)
           w == ScriptSteps(c, d)
           all == [p.cases EXCEPT ![n] = x]
           new == Last(w).script
<1>1. /\ p.cases \in Seq(Cases) /\ Len(p.cases) = Len(app.cases)
      /\ Writes(p.steps) /\ d \in Disks /\ d.reg = disk.reg /\ disk.reg \in Seq(Entries)
  BY LastOne, InvIs DEF Ready, Writes, Disks
<1>2. CASE n \in missed \/ n \notin Unwritten(p.cases) \/ Conflicts(c, c.title, d)
  BY <1>2 DEF Prepare
<1>3. CASE ~(n \in missed \/ n \notin Unwritten(p.cases) \/ Conflicts(c, c.title, d))
  <2>1. Prepare(p, n, missed) = [cases |-> all, steps |-> p.steps \o w]
    BY <1>3 DEF Prepare
  <2>2. c \in Cases /\ Draft(c) /\ c.path = None /\ ~Conflicts(c, c.title, d)
    BY <1>1, <1>3, CaseDraft, SeqIs DEF Unwritten
  <2>3. x \in Cases /\ x.path = FileOf[c.title] /\ FileOf[c.title] \in Files
    BY <2>2, WrittenIs, CaseIs
  <2>4. /\ Writes(w) /\ Last(w).reg = d.reg
        /\ \A q \in Files : q \notin {FileOf[c.title], c.path} => new[q] = d.script[q]
    <3>1. c.id \in Nat /\ c.cmd \in Text /\ c.title \in Titles /\ c.path \in Files \cup {None}
      BY <2>2 DEF Draft
    <3> QED
      BY <1>1, <3>1, ScriptWrites
  <2> HIDE DEF c, d, x, w
  <2>5. Writes(p.steps \o w) /\ Last(p.steps \o w) = Last(w)
    BY <1>1, <2>4, WritesBoth
  <2>6. all \in Seq(Cases) /\ Len(all) = Len(p.cases)
    BY <1>1, <2>3, PutIs
  <2>7. ASSUME troubled = FALSE PROVE Follow(all, new)
    <3>1. Follow(p.cases, d.script)
      BY <2>7 DEF Ready, d
    <3>2. Alone(p.cases, n, c.path)
      BY <2>2 DEF Alone
    <3>3. x = Written(c) /\ w = ScriptSteps(c, d) /\ new = Last(w).script
      BY DEF x, w
    <3> HIDE DEF new
    <3>4. Holds(x, new) /\ Alone(p.cases, n, x.path) /\ Untouched(p.cases, n, d.script, new)
      BY <1>1, <2>2, <3>1, <3>2, <3>3, ScriptApart
    <3> QED
      BY <1>1, <2>3, <3>1, <3>4, FollowPut
  <2>8. ASSUME troubled = FALSE PROVE Registered(disk.reg, new)
    <3>1. Registered(disk.reg, d.script)
      BY <2>8 DEF Ready, d
    <3>2. ASSUME NEW i \in DOMAIN disk.reg PROVE new[disk.reg[i].path].cmd = disk.reg[i].cmd
      <4>1. /\ disk.reg[i].path \in Files /\ disk.reg[i].cmd # <<>>
            /\ d.script[disk.reg[i].path].cmd = disk.reg[i].cmd
        BY <1>1, <3>1, SeqIs DEF Entries, Registered
      <4>2. NoScript.cmd = <<>>
        BY DEF NoScript
      <4>3. disk.reg[i].path # FileOf[c.title]
        BY <2>2, <2>3, <4>1, <4>2, BuilderAssumption DEF Conflicts
      <4>4. disk.reg[i].path # c.path
        BY <2>2, <4>1, BuilderAssumption
      <4> QED
        BY <2>4, <4>1, <4>3, <4>4
    <3> QED
      BY <3>1, <3>2 DEF Registered
  <2>9. ASSUME NEW z, z = Prepare(p, n, missed) PROVE Ready(z)
    <3> HIDE DEF all
    <3>1. z.cases = all /\ z.steps = p.steps \o w
      BY <2>1, <2>9
    <3>2. Last(z.steps) = Last(w) /\ Writes(z.steps) /\ Last(w).reg = disk.reg
      BY <1>1, <2>4, <2>5, <3>1
    <3>3. z.cases \in Seq(Cases) /\ Len(z.cases) = Len(app.cases)
      BY <1>1, <2>6, <3>1
    <3> QED
      BY <2>7, <2>8, <3>1, <3>2, <3>3 DEF Ready, new
  <2> QED
    BY <2>9
<1> QED
  BY <1>2, <1>3

LEMMA PreparedIs == ASSUME Inv, NEW missed PROVE Ready(Prepared(missed))
<1> DEFINE N == Len(app.cases)
<1>1. app.cases \in Seq(Cases) /\ disk \in Disks /\ N \in Nat
  BY InvIs, SeqIs
<1>2. PICK g : Prepared(missed) = g[N] /\ g = [n \in 0..N |-> Preparing(missed, g, n)]
  BY <1>1, PreparedSteps
<1>3. \A n \in 0..N : g[n] = Preparing(missed, g, n)
  BY <1>2
<1> DEFINE S == {n \in Nat : n <= N => Ready(g[n])}
<1>4. 0 \in S
  <2>1. g[0] = [cases |-> app.cases, steps |-> <<disk>>]
    BY <1>1, <1>3 DEF Preparing
  <2>2. g[0].cases = app.cases /\ g[0].steps = <<disk>>
    BY <2>1
  <2>3. Writes(<<disk>>) /\ Last(<<disk>>) = disk
    BY <1>1, WritesOne
  <2>4. troubled = FALSE => Registered(disk.reg, disk.script) /\ Follow(app.cases, disk.script)
    BY DEF Inv, Agreed
  <2> QED
    BY <1>1, <2>2, <2>3, <2>4 DEF Ready
<1>5. ASSUME NEW n \in Nat, n \in S PROVE n + 1 \in S
  <2>1. SUFFICES ASSUME n + 1 <= N PROVE Ready(g[n + 1])
    OBVIOUS
  <2>2. n + 1 \in 0..N /\ n + 1 # 0 /\ (n + 1) - 1 = n /\ Ready(g[n])
    BY <1>1, <1>5, <2>1
  <2>3. g[n + 1] = Prepare(g[n], n + 1, missed)
    BY <1>3, <2>2 DEF Preparing
  <2>4. n + 1 \in 1..Len(g[n].cases)
    BY <1>1, <2>1, <2>2 DEF Ready
  <2> QED
    BY <2>2, <2>3, <2>4, ReadyStep
<1> HIDE DEF S
<1>6. N \in S
  BY <1>1, <1>4, <1>5, NatSet
<1> QED
  BY <1>1, <1>2, <1>6 DEF S

(* Scripts are written, and the registry is left alone. *)
LEMMA ScriptsInv ==
  ASSUME Inv, regen = Idle, NEW a \in Apps, NEW steps, Writes(steps), Last(steps).reg = disk.reg,
         troubled = FALSE =>
           Registered(disk.reg, Last(steps).script) /\ Follow(a.cases, Last(steps).script),
         Commit(steps, a), Sound(ed'), loaded' \in Nat, gone' \in Nat
  PROVE  Inv' /\ (app' = a \/ app' = Off)
<1>1. CASE Cut(steps)
  BY <1>1, CutInv
<1>2. CASE ~Cut(steps)
  <2>1. disk' = Last(steps) /\ app' = a /\ UNCHANGED <<regen, mishaps, troubled>>
    BY <1>2 DEF Commit
  <2>2. disk' \in Disks
    BY <2>1, LastOne DEF Writes
  <2>3. Types'
    BY <2>1, <2>2 DEF Inv, Types
  <2>4. Repairing' /\ Repaired'
    BY <2>1, IdleIs DEF Repairing, Repaired
  <2>5. Agreed'
    BY <2>1 DEF Agreed, Inv, Types
  <2> QED
    BY <2>1, <2>3, <2>4, <2>5 DEF Inv
<1> QED
  BY <1>1, <1>2

LEMMA StartFit == ASSUME Inv, Start PROVE Fit
<1>1. PICK missed \in SUBSET Unwritten(app.cases) :
        LET p == Prepared(missed)
        IN  \/ Commit(p.steps, Ran(p.cases))
            \/ Commit(Both(p.steps, p.cases), Ran(p.cases))
  BY DEF Start, AndThen, Both
<1> DEFINE p == Prepared(missed)
           a == Ran(p.cases)
<1>2. Commit(p.steps, a) \/ Commit(Both(p.steps, p.cases), a)
  BY <1>1
<1>3. app.screen \in {"list", "dashboard"} /\ NotEditing
  BY DEF Start, On
<1>4. Ready(p)
  BY PreparedIs
<1> HIDE DEF p
<1>5. a \in Apps /\ a.cases = p.cases /\ a.screen = "result"
  <2>1. "result" \in Screens
    BY DEF Screens
  <2> QED
    BY <1>4, <2>1, InvIs DEF Apps, Ready, Ran
<1>6. regen = Idle /\ Sound(ed') /\ loaded' \in Nat /\ gone' \in Nat /\ disk \in Disks
  BY <1>3, InvIs DEF NotEditing
<1> HIDE DEF a
<1>7. CASE Commit(p.steps, a)
  <2>1. Inv' /\ (app' = a \/ app' = Off)
    BY <1>4, <1>5, <1>6, <1>7, ScriptsInv DEF Ready
  <2> QED
    BY <1>3, <1>5, <2>1, DoneFit
<1>8. CASE Commit(Both(p.steps, p.cases), a)
  <2>1. Followed(a.cases, Last(p.steps).script)
    BY <1>4, <1>5 DEF Followed, Ready
  <2>2. Inv' /\ (app' = a \/ app' = Off)
    BY <1>4, <1>5, <1>6, <1>8, <2>1, BothInv DEF Ready
  <2> QED
    BY <1>3, <1>5, <2>2, DoneFit
<1> QED
  BY <1>2, <1>7, <1>8

LEMMA AskDeleteFit == ASSUME Inv, AskDelete PROVE Fit
<1>1. /\ app.screen = "list" /\ app' = ClampSelected([app EXCEPT !.screen = "delete"])
      /\ Quietly /\ NotEditing
  BY DEF AskDelete, On
<1>2. [app EXCEPT !.screen = "delete"] = [cases |-> app.cases, sel |-> app.sel,
         filter |-> app.filter, screen |-> "delete", fresh |-> app.fresh]
  BY InvIs, AppFields
<1>3. "delete" \in Screens /\ "delete" # "script" /\ app.screen # "script" /\ app.screen # "off"
  BY <1>1 DEF Screens
<1> QED
  BY <1>1, <1>2, <1>3, InvIs, ScreenFit

LEMMA DontDeleteFit == ASSUME Inv, DontDelete PROVE Fit
<1>1. /\ app.screen = "delete" /\ app' = ClampSelected([app EXCEPT !.screen = "list"])
      /\ Quietly /\ NotEditing
  BY DEF DontDelete, On
<1>2. [app EXCEPT !.screen = "list"] = [cases |-> app.cases, sel |-> app.sel,
         filter |-> app.filter, screen |-> "list", fresh |-> app.fresh]
  BY InvIs, AppFields
<1>3. "list" \in Screens /\ "list" # "script" /\ app.screen # "script" /\ app.screen # "off"
  BY <1>1 DEF Screens
<1> QED
  BY <1>1, <1>2, <1>3, InvIs, ScreenFit

LEMMA AppGrown ==
  ASSUME NEW a \in Apps, NEW cases, NEW s, NEW b, b = [a EXCEPT !.cases = cases, !.sel = s]
  PROVE  b = [cases |-> cases, sel |-> s, filter |-> a.filter, screen |-> a.screen,
              fresh |-> a.fresh]
BY DEF Apps

LEMMA AppShrunk ==
  ASSUME NEW a \in Apps, NEW cases, NEW screen, NEW b,
         b = [a EXCEPT !.cases = cases, !.screen = screen]
  PROVE  b = [cases |-> cases, sel |-> a.sel, filter |-> a.filter, screen |-> screen,
              fresh |-> a.fresh]
BY DEF Apps

LEMMA FollowAdd ==
  ASSUME NEW cases \in Seq(Cases), NEW c \in Cases, NEW script, NEW new, Follow(cases, script),
         NEW n, n = Len(cases) + 1,
         Holds(c, new), Alone(cases, n, c.path), Untouched(cases, n, script, new)
  PROVE  Follow(Append(cases, c), new)
<1>1. \A j \in 1..Len(cases) : j # n
  BY SeqIs
<1>2. /\ c.path # None => new[c.path].cmd = c.cmd
      /\ \A j \in 1..Len(cases) : cases[j].path # None =>
           cases[j].path # c.path /\ new[cases[j].path] = script[cases[j].path]
  BY <1>1 DEF Holds, Alone, Untouched
<1> QED
  BY <1>2, FollowAppend

LEMMA CopyFit == ASSUME Inv, NEW title \in Titles, Copy(title) PROVE Fit
<1> DEFINE o == Selected(app)
           n == Len(app.cases) + 1
           yes == TRUE
           key == NewKey(app)
           c == [o EXCEPT !.title = title, !.path = None, !.sel = yes, !.id = n, !.key = key]
           x == Written(c)
           rows == Append(app.cases, x)
           b == [app EXCEPT !.cases = rows, !.sel = n]
           a == ClampSelected(b)
           writes == ScriptSteps(c, disk)
           all == Both(writes, rows)
<1>0. yes \in BOOLEAN
  OBVIOUS
<1>1. /\ app.screen = "list" /\ Visible(app) # {} /\ ~Conflicts(c, title, disk) /\ NotEditing
      /\ Len(app.cases) < MaxCases
      /\ Commit(Both(writes, b.cases), a) \/ Fails(app)
  BY DEF Copy, On, AndThen, Both
<1>2. /\ app.cases # <<>> /\ o \in Cases /\ app \in Apps /\ app.cases \in Seq(Cases)
      /\ n \in Nat /\ key \in Nat /\ n >= 1
  BY <1>1, InSight, InvIs, NewKeyIs
<1> HIDE DEF yes, n, key
<1>3. Draft(c) /\ c.path = None /\ c.title = title
  <2>1. c = [id |-> n, key |-> key, title |-> title, cmd |-> o.cmd, desc |-> o.desc,
             path |-> None, sel |-> yes]
    <3> DEFINE p == None
    <3>1. c = [o EXCEPT !.title = title, !.path = p, !.sel = yes, !.id = n, !.key = key]
      OBVIOUS
    <3>2. o = [id |-> o.id, key |-> o.key, title |-> o.title, cmd |-> o.cmd, desc |-> o.desc,
               path |-> o.path, sel |-> o.sel]
      BY <1>2, CaseFields
    <3> HIDE DEF c, o, p
    <3>3. c = [id |-> n, key |-> key, title |-> title, cmd |-> o.cmd, desc |-> o.desc,
               path |-> p, sel |-> yes]
      BY <3>1, <3>2
    <3> QED
      BY <3>3 DEF p
  <2> HIDE DEF c
  <2>2. /\ c.path = None /\ c.title = title /\ c.cmd = o.cmd /\ c.desc = o.desc
        /\ c.id = n /\ c.key = key /\ c.sel = yes
    BY <2>1
  <2>3. o.cmd \in Text /\ o.desc \in Text /\ o.cmd # <<>> /\ o.desc # <<>>
    BY <1>2, CaseIs
  <2> QED
    BY <1>0, <1>2, <2>1, <2>2, <2>3 DEF Draft
<1> HIDE DEF c, o
<1>4. x \in Cases
  BY <1>3, WrittenIs
<1> HIDE DEF x
<1>5. rows \in Seq(Cases) /\ Len(rows) = n /\ n <= MaxCases /\ rows # <<>>
  <2>1. rows \in Seq(Cases) /\ Len(rows) = n /\ Len(app.cases) \in Nat /\ MaxCases \in Nat
    BY <1>2, <1>4, AppendIs, BuilderAssumption DEF n
  <2> HIDE DEF rows
  <2> QED
    BY <1>1, <1>2, <2>1 DEF n
<1> HIDE DEF rows
<1>6. b = [cases |-> rows, sel |-> n, filter |-> app.filter, screen |-> app.screen,
           fresh |-> app.fresh]
  <2>1. b = [app EXCEPT !.cases = rows, !.sel = n]
    OBVIOUS
  <2> HIDE DEF b
  <2> QED
    BY <1>2, <2>1, AppGrown
<1>a. b.cases = rows
  BY <1>6
<1> HIDE DEF b
<1>7. Rough(b) /\ b.screen = "list"
  <2>1. app.screen \in Screens /\ app.fresh \in BOOLEAN /\ app.filter \in Filters \cup {None}
    BY InvIs
  <2>2. /\ b \in [cases : Seq(Cases), sel : Nat, filter : Filters \cup {None},
                  screen : Screens, fresh : BOOLEAN]
        /\ b.cases = rows /\ b.sel = n /\ b.screen = "list"
    BY <1>1, <1>2, <1>5, <1>6, <2>1
  <2> QED
    BY <1>2, <1>5, <2>2 DEF Rough
<1>8. a \in Apps /\ a.cases = rows /\ a.screen = "list"
  BY <1>7, <1>a, ClampedApp
<1> HIDE DEF a
<1>9. regen = Idle /\ Sound(ed') /\ loaded' \in Nat /\ gone' \in Nat /\ disk \in Disks
  BY <1>1, InvIs DEF NotEditing
<1>10. CASE Commit(Both(writes, b.cases), a)
  <2>1. Writes(writes)
    BY <1>3, <1>9, DraftWrites
  <2>2. ASSUME troubled = FALSE PROVE Follow(rows, Last(writes).script)
    <3>1. Follow(app.cases, disk.script)
      BY <2>2, InvIs
    <3>2. Alone(app.cases, n, c.path)
      BY <1>3 DEF Alone
    <3>3. ~Conflicts(c, c.title, disk)
      BY <1>1, <1>3
    <3> DEFINE new == Last(writes).script
    <3>4. /\ Holds(x, new) /\ Alone(app.cases, n, x.path)
          /\ Untouched(app.cases, n, disk.script, new)
      BY <1>2, <1>3, <1>9, <3>1, <3>2, <3>3, ScriptApart DEF x
    <3> HIDE DEF new
    <3>5. n = Len(app.cases) + 1
      BY DEF n
    <3> QED
      BY <1>2, <1>4, <3>1, <3>4, <3>5, FollowAdd DEF rows, new
  <2> HIDE DEF writes
  <2>3. Followed(rows, Last(writes).script)
    BY <2>2 DEF Followed
  <2>4. Inv' /\ (app' = a \/ app' = Off)
    BY <1>8, <1>9, <1>10, <1>a, <2>1, <2>3, BothInv
  <2> QED
    BY <1>1, <1>8, <2>4, DoneFit
<1>11. CASE Fails(app)
  <2>1. Inv' /\ app' = app
    BY <1>2, <1>9, <1>11, FailInv DEF Fails
  <2> QED
    BY <1>1, <2>1, DoneFit
<1> QED
  BY <1>1, <1>10, <1>11

LEMMA DeleteFit == ASSUME Inv, Delete PROVE Fit
<1> DEFINE path == Selected(app).path
           cut == IF path = None THEN disk ELSE [disk EXCEPT !.script[path] = NoScript]
           rest == RemoveAt(app.cases, app.sel)
           b == [app EXCEPT !.cases = rest, !.screen = "list"]
           a == ClampSelected(b)
           first == <<cut>>
           w == RegistrySteps(rest, cut)
<1>1. /\ app.screen = "delete" /\ app.cases # <<>> /\ Commit(first \o w, a) /\ NotEditing
  BY DEF Delete, On
<1>2. /\ app.cases \in Seq(Cases) /\ app.sel \in 1..Len(app.cases) /\ regen = Idle
      /\ app \in Apps /\ Len(app.cases) \in Nat /\ Selected(app) \in Cases /\ disk \in Disks
      /\ Sound(ed') /\ loaded' \in Nat /\ gone' \in Nat
  BY <1>1, InvIs DEF NotEditing
<1>3. rest \in Seq(Cases) /\ Len(rest) <= MaxCases
  <2>1. rest \in Seq(Cases) /\ Len(rest) = Len(app.cases) - 1
    BY <1>2, RemoveIs
  <2> QED
    BY <1>2, <2>1, InvIs, BuilderAssumption
<1>4. /\ cut \in Disks
      /\ \A p \in Files : p # path => cut.script[p] = disk.script[p]
  <2>1. CASE path = None
    BY <1>2, <2>1
  <2>2. CASE path # None
    <3>1. path \in Files
      BY <1>2, <2>2, CaseIs
    <3>2. NoScript \in Scripts
      <4> DEFINE none == <<>>
      <4>1. none \in Text
        BY DEF Text
      <4>2. NoScript = [id |-> 0, cmd |-> none]
        BY DEF NoScript
      <4> HIDE DEF none
      <4> QED
        BY <4>1, <4>2 DEF Scripts
    <3>3. cut = [disk EXCEPT !.script[path] = NoScript]
      BY <2>2
    <3> HIDE DEF path, cut
    <3> QED
      BY <1>2, <3>1, <3>2, <3>3 DEF Disks
  <2> QED
    BY <2>1, <2>2
<1> HIDE DEF cut
<1>5. ASSUME troubled = FALSE PROVE Follow(rest, cut.script)
  <2>1. Follow(app.cases, disk.script)
    BY <1>5, InvIs
  <2>2. app.cases[app.sel].path = path
    BY DEF Selected
  <2>3. ASSUME NEW j \in 1..Len(app.cases), j # app.sel, app.cases[j].path # None
        PROVE  cut.script[app.cases[j].path] = disk.script[app.cases[j].path]
    <3>1. app.cases[j] \in Cases
      BY <1>2, SeqIs
    <3>2. app.cases[j].path \in Files
      BY <2>3, <3>1, CaseIs
    <3>3. app.cases[j].path # path
      BY <1>2, <2>1, <2>2, <2>3 DEF Follow
    <3> QED
      BY <1>4, <3>2, <3>3
  <2>4. Untouched(app.cases, app.sel, disk.script, cut.script)
    BY <2>3 DEF Untouched
  <2> QED
    BY <1>2, <2>1, <2>4, FollowRemove
<1> HIDE DEF rest
<1>6. b = [cases |-> rest, sel |-> app.sel, filter |-> app.filter, screen |-> "list",
           fresh |-> app.fresh]
  <2>1. b = [app EXCEPT !.cases = rest, !.screen = "list"]
    OBVIOUS
  <2> HIDE DEF b
  <2> QED
    BY <1>2, <2>1, AppShrunk
<1> HIDE DEF b
<1>7. a \in Apps /\ a.cases = rest /\ a.screen = "list"
  <2>1. "list" \in Screens /\ "list" # "script" /\ app.sel \in Nat /\ app.sel >= 1
        /\ app.filter \in Filters \cup {None} /\ app.fresh \in BOOLEAN
    BY InvIs DEF Screens
  <2>2. Rough(b) /\ b.cases = rest /\ b.screen = "list"
    BY <1>3, <1>6, <2>1 DEF Rough
  <2> QED
    BY <2>2, ClampedApp
<1>8. Writes(first) /\ Last(first) = cut
  BY <1>4, WritesOne
<1>9. first \o w = Both(first, rest)
  <2> HIDE DEF first
  <2> QED
    BY <1>8 DEF Both
<1>10. Followed(rest, Last(first).script)
  BY <1>5, <1>8 DEF Followed
<1> HIDE DEF first, w, a
<1>11. Inv' /\ (app' = a \/ app' = Off)
  BY <1>1, <1>2, <1>7, <1>8, <1>9, <1>10, BothInv
<1> QED
  BY <1>1, <1>7, <1>11, DoneFit

LEMMA KillFit == ASSUME Inv, Kill PROVE Fit
<1>1. /\ app' = Off /\ regen' = Idle /\ troubled' = (troubled \/ regen # Idle) /\ disk' = disk
      /\ NotEditing
  BY DEF Kill
<1>2. Types'
  BY <1>1, OffIs, IdleIs DEF Inv, Types, NotEditing
<1>3. Sound(ed')
  BY <1>1, InvIs DEF NotEditing
<1>4. Repairing'
  BY <1>1, IdleIs DEF Repairing
<1>5. Agreed'
  <2>1. ASSUME ~troubled' PROVE Registered(disk.reg, disk.script)
    BY <1>1, <2>1 DEF Inv, Agreed
  <2> QED
    BY <1>1, <2>1, OffFollows DEF Agreed
<1>6. Repaired'
  BY <1>1, IdleIs DEF Repaired
<1>7. Inv'
  BY <1>2, <1>3, <1>4, <1>5, <1>6 DEF Inv
<1> QED
  BY <1>1, <1>7, OffIs DEF Fit, Story, NotEditing

-----------------------------------------------------------------------------
(* A repair                                                                 *)

Repairs == [cases : Seq(Cases), done : Nat, failed : BOOLEAN]

(* The tests of a repair are those of the registry, in their order.         *)
LEMMA RepairIs ==
  ASSUME Inv, regen # Idle
  PROVE  /\ app.screen = "off" /\ app.cases = <<>> /\ app \in Apps /\ disk \in Disks
         /\ Sound(ed) /\ loaded \in Nat /\ gone \in Nat /\ troubled \in BOOLEAN
         /\ regen \in Repairs /\ regen.cases \in Seq(Cases)
         /\ Len(regen.cases) \in Nat /\ regen.done \in Nat /\ regen.done <= Len(regen.cases)
         /\ regen.failed \in BOOLEAN /\ (regen.failed => troubled)
         /\ regen.cases = FromRegistry(disk.reg) /\ Len(regen.cases) <= Len(disk.reg)
         /\ \A i \in 1..Len(regen.cases) : /\ regen.cases[i] \in Cases
                                           /\ regen.cases[i].path = disk.reg[i].path
                                           /\ regen.cases[i].cmd = disk.reg[i].cmd
                                           /\ regen.cases[i].path = FileOf[regen.cases[i].title]
<1>1. /\ regen \in Repairs /\ app.screen = "off" /\ regen.cases = FromRegistry(disk.reg)
      /\ regen.done <= Len(regen.cases) /\ (regen.failed => troubled) /\ disk \in Disks
  BY DEF Inv, Types, Repairing, Repairs
<1>2. regen.cases \in Seq(Cases) /\ regen.done \in Nat /\ regen.failed \in BOOLEAN
  BY <1>1 DEF Repairs
<1>3. Len(regen.cases) \in Nat /\ \A i \in 1..Len(regen.cases) : regen.cases[i] \in Cases
  BY <1>2, SeqIs
<1>4. disk.reg \in Seq(Entries)
  BY <1>1, DiskIs
<1> QED
  BY <1>1, <1>2, <1>3, <1>4, InvIs, AppIs, FromRegistryIs

(* The program stays away. *)
LEMMA AwayFit ==
  ASSUME app.screen = "off", app' = app \/ app' = Off, NotEditing, Inv'
  PROVE  Fit
BY OffIs DEF Fit, Story, NotEditing

(* The scripts are still those of the registry as far as they are done.     *)
Mended(r, script) ==
  ~r.failed /\ OwnScripts(r.cases) =>
    \A i \in 1..r.done : script[r.cases[i].path].cmd = r.cases[i].cmd

LEMMA AwayInv ==
  ASSUME Inv, app.screen = "off", app' = app, NotEditing, disk' \in Disks, regen' \in Repairs,
         troubled' \in BOOLEAN, regen'.done <= Len(regen'.cases), regen'.failed => troubled',
         regen' # Idle => regen'.cases = FromRegistry(disk'.reg),
         ~troubled' => Registered(disk'.reg, disk'.script), Mended(regen', disk'.script)
  PROVE  Inv'
<1>1. app.cases = <<>> /\ app \in Apps /\ Sound(ed) /\ loaded \in Nat /\ gone \in Nat
  BY InvIs, AppIs
<1>2. Types'
  BY <1>1 DEF Types, Repairs, NotEditing
<1>3. Repairing'
  BY DEF Repairing
<1>4. Agreed'
  BY <1>1, FollowNone DEF Agreed
<1>5. Repaired'
  BY DEF Repaired, Mended
<1> QED
  BY <1>1, <1>2, <1>3, <1>4, <1>5 DEF Inv, NotEditing

LEMMA RegenerateFit == ASSUME Inv, Regenerate PROVE Fit
<1> DEFINE cases == FromRegistry(disk.reg)
           no == FALSE
           none == <<>>
<1>1. /\ app.screen = "off" /\ regen' = [Idle EXCEPT !.cases = cases]
      /\ UNCHANGED <<app, disk, troubled, mishaps>> /\ NotEditing
  BY DEF Regenerate, On
<1>2. cases \in Seq(Cases) /\ Len(cases) \in Nat /\ no \in BOOLEAN
  BY InvIs, DiskIs, FromRegistryIs, SeqIs
<1>3. regen' = [cases |-> cases, done |-> 0, failed |-> no]
  BY <1>1 DEF Idle
<1> HIDE DEF cases, no
<1>4. regen' \in Repairs /\ regen'.cases = cases /\ regen'.done = 0 /\ regen'.failed = no
  BY <1>2, <1>3 DEF Repairs
<1>5. disk \in Disks /\ troubled \in BOOLEAN
      /\ (~troubled => Registered(disk.reg, disk.script))
  BY InvIs
<1>6. Mended(regen', disk'.script)
  BY <1>4 DEF Mended
<1>7. regen'.done <= Len(regen'.cases) /\ (regen'.failed => troubled')
  BY <1>2, <1>4 DEF no
<1>8. regen'.cases = FromRegistry(disk'.reg)
  BY <1>1, <1>4 DEF cases
<1>9. Inv'
  BY <1>1, <1>4, <1>5, <1>6, <1>7, <1>8, AwayInv
<1> QED
  BY <1>1, <1>9, AwayFit

(* A test whose script has the right name is written as it is. *)
LEMMA WrittenSame ==
  ASSUME NEW c \in Cases, c.path = FileOf[c.title]
  PROVE  Written(c) = c
<1>1. c = [id |-> c.id, key |-> c.key, title |-> c.title, cmd |-> c.cmd, desc |-> c.desc,
           path |-> c.path, sel |-> c.sel]
  BY CaseFields
<1> QED
  BY <1>1 DEF Written

LEMMA PutSame ==
  ASSUME NEW S, NEW s \in Seq(S), NEW i \in 1..Len(s), NEW c, c = s[i]
  PROVE  [s EXCEPT ![i] = c] = s
OBVIOUS

LEMMA RepairFields ==
  ASSUME NEW r \in Repairs
  PROVE  r = [cases |-> r.cases, done |-> r.done, failed |-> r.failed]
BY DEF Repairs

(* One script is written anew, and no other. *)
OneWritten(d, p, cmd, new) ==
  new.reg = d.reg /\ new.script[p].cmd = cmd
  /\ \A q \in Files : q # p => new.script[q] = d.script[q]

LEMMA RegisteredStill ==
  ASSUME NEW reg \in Seq(Entries), NEW d, NEW new, d.reg = reg, Registered(reg, d.script),
         NEW i \in 1..Len(reg), OneWritten(d, reg[i].path, reg[i].cmd, new)
  PROVE  Registered(reg, new.script)
<1>1. ASSUME NEW j \in DOMAIN reg PROVE new.script[reg[j].path].cmd = reg[j].cmd
  <2>1. reg[j].path \in Files
    BY SeqIs DEF Entries
  <2>2. i \in DOMAIN reg /\ d.script[reg[j].path].cmd = reg[j].cmd
    BY SeqIs DEF Registered
  <2>3. CASE reg[j].path = reg[i].path
    <3>1. j = i
      BY <2>2, <2>3 DEF Registered, OwnScripts
    <3> QED
      BY <3>1 DEF OneWritten
  <2>4. CASE reg[j].path # reg[i].path
    BY <2>1, <2>2, <2>4 DEF OneWritten
  <2> QED
    BY <2>3, <2>4
<1> QED
  BY <1>1 DEF Registered

LEMMA MendedMore ==
  ASSUME NEW r, r \in Repairs, NEW d, Mended(r, d.script), r.done + 1 <= Len(r.cases),
         NEW i, i = r.done + 1,
         NEW x \in Repairs, x.cases = r.cases, x.done = i, x.failed = r.failed,
         NEW new, OneWritten(d, r.cases[i].path, r.cases[i].cmd, new),
         \A k \in 1..Len(r.cases) : r.cases[k].path \in Files
  PROVE  Mended(x, new.script)
<1> SUFFICES ASSUME ~r.failed, OwnScripts(r.cases), NEW k \in 1..i
             PROVE  new.script[r.cases[k].path].cmd = r.cases[k].cmd
  BY DEF Mended
<1>1. /\ r.done \in Nat /\ r.cases \in Seq(Cases) /\ DOMAIN r.cases = 1..Len(r.cases)
      /\ Len(r.cases) \in Nat
  BY SeqIs DEF Repairs
<1>2. k \in 1..Len(r.cases) /\ i \in 1..Len(r.cases) /\ (k = i \/ k \in 1..r.done)
  BY <1>1
<1>3. CASE k = i
  BY <1>3 DEF OneWritten
<1>4. CASE k # i
  <2>1. r.cases[k].path # r.cases[i].path
    BY <1>1, <1>2, <1>4 DEF OwnScripts
  <2>2. d.script[r.cases[k].path].cmd = r.cases[k].cmd
    BY <1>2, <1>4 DEF Mended
  <2> QED
    BY <1>2, <2>1, <2>2 DEF OneWritten
<1> QED
  BY <1>3, <1>4

LEMMA RegenOneFit == ASSUME Inv, RegenOne PROVE Fit
<1> DEFINE i == regen.done + 1
           c == regen.cases[i]
           w == ScriptSteps(c, disk)
           x == Written(c)
           more == [regen EXCEPT !.done = i, !.cases[i] = x]
           yes == TRUE
           lost == [regen EXCEPT !.done = i, !.failed = yes]
<1>1. /\ regen.done < Len(regen.cases) /\ NotEditing
      /\ \/ /\ disk' = Last(w) /\ regen' = more
            /\ UNCHANGED <<app, mishaps, troubled>>
         \/ Cut(w)
         \/ /\ regen' = lost /\ troubled' = TRUE
            /\ UNCHANGED <<app, disk>>
  BY DEF RegenOne
<1>2. regen # Idle
  BY <1>1, IdleIs
<1>3. /\ app.screen = "off" /\ disk \in Disks /\ regen \in Repairs /\ regen.cases \in Seq(Cases)
      /\ Len(regen.cases) \in Nat /\ regen.done \in Nat /\ regen.failed \in BOOLEAN
      /\ (regen.failed => troubled) /\ regen.cases = FromRegistry(disk.reg)
      /\ troubled \in BOOLEAN /\ Len(regen.cases) <= Len(disk.reg)
      /\ Sound(ed) /\ loaded \in Nat /\ gone \in Nat
  BY <1>2, RepairIs
<1>4. i \in Nat /\ i \in 1..Len(regen.cases) /\ i <= Len(regen.cases) /\ DOMAIN regen.cases = 1..Len(regen.cases)
  BY <1>1, <1>3, SeqIs
<1>5. /\ c \in Cases /\ c.path = FileOf[c.title] /\ c.path = disk.reg[i].path
      /\ c.cmd = disk.reg[i].cmd
  BY <1>2, <1>4, RepairIs
<1>6. x = c
  BY <1>5, WrittenSame
<1>7. [regen.cases EXCEPT ![i] = x] = regen.cases
  BY <1>3, <1>4, <1>6, PutSame
<1>8. CASE disk' = Last(w) /\ regen' = more /\ UNCHANGED <<app, mishaps, troubled>>
  <2>1. more = [cases |-> [regen.cases EXCEPT ![i] = x], done |-> i, failed |-> regen.failed]
    <3>1. more = [regen EXCEPT !.done = i, !.cases[i] = x]
      OBVIOUS
    <3>2. regen = [cases |-> regen.cases, done |-> regen.done, failed |-> regen.failed]
      BY <1>3, RepairFields
    <3> HIDE DEF more, x, i
    <3> QED
      BY <3>1, <3>2
  <2> HIDE DEF more
  <2>2. /\ more \in Repairs /\ more.done = i /\ more.failed = regen.failed
        /\ more.cases = regen.cases
    <3> DEFINE p == [regen.cases EXCEPT ![i] = x]
               f == regen.failed
    <3>1. p \in Seq(Cases) /\ p = regen.cases
      BY <1>3, <1>7
    <3>2. i \in Nat /\ f \in BOOLEAN
      BY <1>3, <1>4
    <3>3. more = [cases |-> p, done |-> i, failed |-> f]
      BY <2>1
    <3>a. f = regen.failed
      OBVIOUS
    <3> HIDE DEF p, i, f
    <3>4. more \in Repairs
      BY <3>1, <3>2, <3>3 DEF Repairs
    <3>5. more.done = i /\ more.failed = f /\ more.cases = p
      BY <3>3
    <3> QED
      BY <3>1, <3>4, <3>5, <3>a
  <2>3. /\ disk' \in Disks /\ OneWritten(disk, c.path, c.cmd, disk')
    <3>1. Draft(c)
      BY <1>5, CaseDraft
    <3> HIDE DEF c
    <3>2. /\ Last(w) \in Disks /\ Last(w).reg = disk.reg
          /\ Last(w).script[FileOf[c.title]].cmd = c.cmd
          /\ \A p \in Files : p \notin {FileOf[c.title], c.path} =>
               Last(w).script[p] = disk.script[p]
      BY <1>3, <3>1, DraftWrites
    <3> HIDE DEF w
    <3>3. \A p \in Files : p # c.path => Last(w).script[p] = disk.script[p]
      BY <1>5, <3>2
    <3>4. OneWritten(disk, c.path, c.cmd, Last(w))
      BY <1>5, <3>2, <3>3 DEF OneWritten
    <3> QED
      BY <1>8, <3>2, <3>4
  <2>4. disk'.reg = disk.reg
    BY <2>3 DEF OneWritten
  <2>5. ~troubled' => Registered(disk'.reg, disk'.script)
    <3>1. SUFFICES ASSUME troubled = FALSE PROVE Registered(disk.reg, disk'.script)
      BY <1>3, <1>8, <2>4
    <3>2. Registered(disk.reg, disk.script) /\ disk.reg \in Seq(Entries)
      BY <3>1, InvIs, DiskIs
    <3>3. i \in 1..Len(disk.reg)
      BY <1>3, <1>4, <3>2, SeqIs
    <3> QED
      BY <1>5, <2>3, <3>2, <3>3, RegisteredStill
  <2>6. Mended(regen', disk'.script)
    <3>1. Mended(regen, disk.script)
      BY DEF Inv, Repaired, Mended
    <3>2. \A k \in 1..Len(regen.cases) : regen.cases[k].path \in Files
      <4>1. \A k \in 1..Len(regen.cases) : /\ regen.cases[k] \in Cases
                                           /\ regen.cases[k].path = FileOf[regen.cases[k].title]
        BY <1>2, RepairIs
      <4> QED
        BY <4>1, CaseIs
    <3>3. Mended(more, disk'.script)
      <4>1. regen.done + 1 <= Len(regen.cases) /\ OneWritten(disk, regen.cases[i].path, regen.cases[i].cmd, disk')
            /\ i = regen.done + 1
        BY <1>4, <2>3
      <4> HIDE DEF i, c
      <4> QED
        BY <1>3, <2>2, <3>1, <3>2, <4>1, MendedMore
    <3> QED
      BY <1>8, <3>3
  <2>7. /\ regen'.done <= Len(regen'.cases) /\ (regen'.failed => troubled')
        /\ regen'.cases = FromRegistry(disk'.reg) /\ troubled' \in BOOLEAN
        /\ regen' \in Repairs
    BY <1>3, <1>4, <1>8, <2>2, <2>4
  <2>8. Inv'
    BY <1>1, <1>3, <1>8, <2>3, <2>5, <2>6, <2>7, AwayInv
  <2> QED
    BY <1>1, <1>3, <1>8, <2>8, AwayFit
<1>9. CASE Cut(w)
  <2>1. Writes(w)
    BY <1>3, <1>5, CaseDraft, DraftWrites
  <2>2. Sound(ed') /\ loaded' \in Nat /\ gone' \in Nat
    BY <1>1, <1>3 DEF NotEditing
  <2> HIDE DEF w
  <2>3. Inv' /\ app' = Off
    BY <1>9, <2>1, <2>2, CutInv
  <2> QED
    BY <1>1, <1>3, <2>3, AwayFit
<1>10. CASE regen' = lost /\ troubled' = TRUE /\ UNCHANGED <<app, disk>>
  <2>1. lost = [cases |-> regen.cases, done |-> i, failed |-> yes]
    <3>1. lost = [regen EXCEPT !.done = i, !.failed = yes]
      OBVIOUS
    <3>2. regen = [cases |-> regen.cases, done |-> regen.done, failed |-> regen.failed]
      BY <1>3, RepairFields
    <3> HIDE DEF lost, i, yes
    <3> QED
      BY <3>1, <3>2
  <2>2. yes \in BOOLEAN /\ yes = TRUE
    OBVIOUS
  <2> HIDE DEF lost, yes
  <2>3. lost \in Repairs /\ lost.done = i /\ lost.failed = yes /\ lost.cases = regen.cases
    <3> HIDE DEF i
    <3> QED
      BY <1>3, <1>4, <2>1, <2>2 DEF Repairs
  <2>4. /\ regen' \in Repairs /\ regen'.done <= Len(regen'.cases)
        /\ regen'.cases = FromRegistry(disk'.reg) /\ disk' \in Disks
    BY <1>3, <1>4, <1>10, <2>3
  <2>5. troubled' = TRUE
    BY <1>10
  <2>6. Mended(regen', disk'.script)
    BY <1>10, <2>2, <2>3 DEF Mended
  <2>7. Inv'
    BY <1>1, <1>3, <1>10, <2>4, <2>5, <2>6, AwayInv
  <2> QED
    BY <1>1, <1>3, <1>10, <2>7, AwayFit
<1> QED
  BY <1>1, <1>8, <1>9, <1>10

LEMMA RegenEndFit == ASSUME Inv, RegenEnd PROVE Fit
<1> DEFINE w == RegistrySteps(regen.cases, disk)
<1>1. /\ regen.cases # <<>> /\ regen.done = Len(regen.cases) /\ NotEditing
      /\ \/ /\ regen.failed /\ regen' = Idle
            /\ UNCHANGED <<app, disk, mishaps, troubled>>
         \/ /\ ~regen.failed /\ regen' = Idle /\ disk' = Last(w)
            /\ troubled' = ~OwnScripts(disk'.reg) /\ UNCHANGED <<app, mishaps>>
         \/ Cut(w)
  BY DEF RegenEnd
<1>2. regen # Idle
  BY <1>1, IdleIs
<1>3. /\ app.screen = "off" /\ disk \in Disks /\ regen \in Repairs /\ regen.cases \in Seq(Cases)
      /\ Len(regen.cases) \in Nat /\ troubled \in BOOLEAN /\ Sound(ed) /\ loaded \in Nat
      /\ gone \in Nat
      /\ \A i \in 1..Len(regen.cases) : regen.cases[i].path = disk.reg[i].path
                                        /\ regen.cases[i].path \in Files
  <2>1. \A i \in 1..Len(regen.cases) :
          /\ regen.cases[i] \in Cases /\ regen.cases[i].path = FileOf[regen.cases[i].title]
          /\ regen.cases[i].path = disk.reg[i].path
    BY <1>2, RepairIs
  <2>2. \A i \in 1..Len(regen.cases) : regen.cases[i].path \in Files
    BY <2>1, CaseIs
  <2> QED
    BY <1>2, <2>1, <2>2, RepairIs
<1>4. Idle \in Repairs /\ Idle.done <= Len(Idle.cases) /\ Idle.failed = FALSE
  BY IdleIs DEF Repairs
<1>a. ASSUME NEW script PROVE Mended(Idle, script)
  BY IdleIs DEF Mended
<1>5. CASE regen' = Idle /\ UNCHANGED <<app, disk, mishaps, troubled>>
  <2>1. ~troubled' => Registered(disk'.reg, disk'.script)
    BY <1>3, <1>5, InvIs
  <2>2. Mended(regen', disk'.script)
    BY <1>5, <1>a
  <2>3. /\ regen' \in Repairs /\ troubled' \in BOOLEAN /\ disk' \in Disks
        /\ regen'.done <= Len(regen'.cases) /\ ~regen'.failed /\ regen' = Idle
    BY <1>3, <1>4, <1>5
  <2>4. Inv'
    BY <1>1, <1>3, <1>5, <2>1, <2>2, <2>3, AwayInv
  <2> QED
    BY <1>1, <1>3, <1>5, <2>4, AwayFit
<1>6. CASE /\ ~regen.failed /\ regen' = Idle /\ disk' = Last(w)
           /\ troubled' = ~OwnScripts(disk'.reg) /\ UNCHANGED <<app, mishaps>>
  <2>1. Writes(w) /\ Last(w) = [script |-> disk.script, reg |-> Lines(regen.cases)]
    BY <1>3, RegistryWrites
  <2> HIDE DEF w
  <2>2. Last(w) \in Disks
    BY <2>1, LastOne DEF Writes
  <2>3. disk' \in Disks /\ disk'.script = disk.script /\ disk'.reg = Lines(regen.cases)
    BY <1>6, <2>1, <2>2
  <2>4. ASSUME OwnScripts(disk'.reg) PROVE Registered(disk'.reg, disk'.script)
    <3> DEFINE l == Lines(regen.cases)
    <3>1. Len(l) = Len(regen.cases) /\ \A i \in 1..Len(regen.cases) : l[i].path = regen.cases[i].path
      <4>1. \A i \in 1..Len(regen.cases) : regen.cases[i].path # None
        BY <1>3, BuilderAssumption
      <4> QED
        BY <1>3, <4>1, LinesIs
    <3>2. l \in Seq(Entries) /\ OwnScripts(l)
      BY <1>3, <2>3, <2>4, LinesIs
    <3> HIDE DEF l
    <3>3. DOMAIN l = 1..Len(regen.cases) /\ DOMAIN regen.cases = 1..Len(regen.cases)
      BY <1>3, <3>1, <3>2, SeqIs
    <3>4. OwnScripts(regen.cases)
      BY <3>1, <3>2, <3>3 DEF OwnScripts
    <3>5. \A i \in 1..Len(regen.cases) :
            disk.script[regen.cases[i].path].cmd = regen.cases[i].cmd
      BY <1>1, <1>6, <3>4 DEF Inv, Repaired
    <3>6. Follow(regen.cases, disk.script)
      BY <3>3, <3>4, <3>5 DEF Follow, OwnScripts
    <3> QED
      BY <1>3, <2>3, <3>6, FollowLines
  <2>5. ~troubled' => Registered(disk'.reg, disk'.script)
    BY <1>6, <2>4
  <2>6. Mended(regen', disk'.script)
    BY <1>6, <1>a
  <2>7. troubled' \in BOOLEAN
    BY <1>6
  <2>8. /\ regen' \in Repairs /\ regen'.done <= Len(regen'.cases) /\ ~regen'.failed
        /\ regen' = Idle
    BY <1>4, <1>6
  <2>9. app' = app
    BY <1>6
  <2>10. Inv'
    BY <1>1, <1>3, <2>3, <2>5, <2>6, <2>7, <2>8, <2>9, AwayInv
  <2> QED
    BY <1>1, <1>3, <2>9, <2>10, AwayFit
<1>7. CASE Cut(w)
  <2>1. Writes(w)
    BY <1>3, RegistryWrites
  <2>2. Sound(ed') /\ loaded' \in Nat /\ gone' \in Nat
    BY <1>1, <1>3 DEF NotEditing
  <2> HIDE DEF w
  <2>3. Inv' /\ app' = Off
    BY <1>7, <2>1, <2>2, CutInv
  <2> QED
    BY <1>1, <1>3, <2>3, AwayFit
<1> QED
  BY <1>1, <1>5, <1>6, <1>7

-----------------------------------------------------------------------------
(* Every step                                                               *)

Fits == Inv' /\ (Story \/ UNCHANGED <<app, ed, loaded>>)

LEMMA StillFits == ASSUME Inv, UNCHANGED vars PROVE Fits
<1>1. /\ app' = app /\ ed' = ed /\ disk' = disk /\ regen' = regen /\ loaded' = loaded
      /\ gone' = gone /\ troubled' = troubled
  BY DEF vars
<1>2. Types' /\ Repairing' /\ Agreed' /\ Repaired'
  BY <1>1 DEF Inv, Types, Repairing, Agreed, Repaired
<1>3. Sound(ed')
  BY <1>1, InvIs
<1> QED
  BY <1>1, <1>2, <1>3 DEF Inv, Fits

LEMMA NextFits == ASSUME Inv, [Next]_vars PROVE Fits
<1>1. CASE UNCHANGED vars
  BY <1>1, StillFits
<1>2. SUFFICES ASSUME Next PROVE Fit
  BY <1>1 DEF Fit, Fits
<1>3. CASE Launch \/ Exit \/ Navigate \/ (\E d \in {-1, 1} : Step(d))
  BY <1>3, LaunchFit, ExitFit, NavigateFit, StepFit
<1>4. CASE \E f \in Filters \cup {None} : SetFilter(f)
  BY <1>4, SetFilterFit
<1>5. CASE \E target \in {"command", "description"} : Open(target)
  BY <1>5, OpenFit
<1>6. CASE \E t \in Titles : AddCase(t) \/ Rename(t) \/ Copy(t)
  BY <1>6, AddCaseFit, RenameFit, CopyFit
<1>7. CASE (\E k \in Keys : Editing(k)) \/ (\E leave \in BOOLEAN : Save(leave))
  BY <1>7, EditingFit, SaveFit
<1>8. CASE Quit \/ Discard \/ Toggle \/ AskDelete \/ DontDelete \/ Delete \/ Start
  BY <1>8, QuitFit, DiscardFit, ToggleFit, AskDeleteFit, DontDeleteFit, DeleteFit, StartFit
<1>9. CASE Kill \/ Regenerate \/ RegenOne \/ RegenEnd
  BY <1>9, KillFit, RegenerateFit, RegenOneFit, RegenEndFit
<1> QED
  BY <1>2, <1>3, <1>4, <1>5, <1>6, <1>7, <1>8, <1>9 DEF Next

(* The test in the editor, if nothing is hidden, is the one that was opened. *)
Chosen == app.screen = "script" /\ app.filter = None => Selected(app).key = loaded

LEMMA InvStep == ASSUME Inv, Chosen, [Next]_vars PROVE Inv' /\ Chosen'
<1>1. Fits
  BY NextFits
<1>2. CASE UNCHANGED <<app, ed, loaded>>
  BY <1>1, <1>2 DEF Fits, Chosen, Selected
<1>3. CASE Story
  <2>1. app'.screen = "script" /\ app'.filter = None => Selected(app').key = loaded'
    BY <1>3 DEF Story, Chosen
  <2> QED
    BY <1>1, <2>1 DEF Fits, Chosen, Selected
<1> QED
  BY <1>1, <1>2, <1>3 DEF Fits

LEMMA Always == Spec => [](Inv /\ Chosen)
<1>1. Init => Inv /\ Chosen
  BY InitInv, OffIs DEF Init, Chosen
<1>2. Inv /\ Chosen /\ [Next]_vars => (Inv /\ Chosen)'
  BY InvStep
<1> QED
  BY <1>1, <1>2, PTL DEF Spec

(* The editor over the list writes to the test it was opened with.  The    *)
(* selection, clamped whenever a screen is left, stays on the test as long  *)
(* as no filter hides any (handle_key, clamp_selected).                     *)
THEOREM WritesToTheChosen == Spec => []EditsTheChosen
<1>1. Inv /\ Chosen => EditsTheChosen
  BY DEF Chosen, EditsTheChosen
<1> QED
  BY <1>1, Always, PTL

(* Kills and failed writes aside, every test of the registry has a script   *)
(* of its own, with the commands of the registry: adding, saving, renaming, *)
(* copying and deleting write the script before the registry, and a repair  *)
(* writes them all (save_current_editor, rename_case, copy_case,            *)
(* delete_case, regenerate_registered_scripts).                             *)
THEOREM ScriptsMatch == Spec => []ScriptsFollow
<1>1. Inv => ScriptsFollow
  BY DEF Inv, Agreed, Registered, ScriptsFollow
<1> QED
  BY <1>1, Always, PTL

-----------------------------------------------------------------------------
(* The editor over the list implements AtDocument.                          *)

Past(u) == [i \in DOMAIN u |-> u[i].lines]

LEMMA PastIs ==
  ASSUME NEW u \in Seq(Snaps), NEW p, p = Past(u)
  PROVE  /\ p \in Seq(Text) /\ Len(p) = Len(u) /\ Len(u) \in Nat
         /\ \A i \in 1..Len(u) : p[i] = u[i].lines
<1>1. Len(u) \in Nat /\ DOMAIN u = 1..Len(u) /\ \A i \in 1..Len(u) : u[i] \in Snaps
  BY SeqIs
<1>2. \A i \in 1..Len(u) : u[i].lines \in Text
  BY <1>1 DEF Snaps
<1>3. p = [i \in 1..Len(u) |-> u[i].lines]
  BY <1>1 DEF Past
<1>4. p \in [1..Len(u) -> Text]
  BY <1>2, <1>3
<1> QED
  BY <1>1, <1>3, <1>4, FunSeq

(* A full past loses its oldest text. *)
PushedBy(u, s, v, h) ==
  /\ v \in Seq(Snaps) /\ Len(v) \in Nat /\ Len(v) <= UndoDepth
  /\ Len(v) = Len(u) + 1 - h /\ (h = 1 <=> Len(u) = UndoDepth)
  /\ v[Len(v)] = s /\ \A i \in 1..(Len(u) - h) : v[i] = u[i + h]

LEMMA PushedWhere ==
  ASSUME NEW u \in Seq(Snaps), Len(u) <= UndoDepth, NEW s \in Snaps, NEW v, v = Pushed(u, s)
  PROVE  \E h \in {0, 1} : PushedBy(u, s, v, h)
<1>1. UndoDepth \in Nat /\ UndoDepth > 0 /\ Len(u) \in Nat
  BY EditorAssumption
<1>2. v \in Seq(Snaps) /\ Len(v) <= UndoDepth /\ Len(v) \in Nat
  BY PushedIs, SeqIs
<1>3. CASE Len(u) >= UndoDepth
  <2> DEFINE t == Tail(u)
  <2>1. u # <<>>
    BY <1>1, <1>3
  <2>2. t \in Seq(Snaps) /\ Len(t) = Len(u) - 1 /\ \A i \in 1..(Len(u) - 1) : t[i] = u[i + 1]
    BY <2>1
  <2>3. v = Append(t, s)
    BY <1>3 DEF Pushed
  <2> HIDE DEF t
  <2>4. /\ Len(v) = Len(t) + 1 /\ v[Len(t) + 1] = s /\ \A i \in 1..Len(t) : v[i] = t[i]
    BY <2>2, <2>3
  <2>5. /\ Len(v) = Len(u) + 1 - 1 /\ Len(u) = UndoDepth /\ v[Len(v)] = s
        /\ \A i \in 1..(Len(u) - 1) : v[i] = u[i + 1]
    BY <1>1, <1>3, <2>2, <2>4
  <2> QED
    BY <1>2, <2>5 DEF PushedBy
<1>4. CASE ~(Len(u) >= UndoDepth)
  <2>1. v = Append(u, s)
    BY <1>4 DEF Pushed
  <2>2. /\ Len(v) = Len(u) + 1 - 0 /\ Len(u) # UndoDepth /\ v[Len(v)] = s
        /\ \A i \in 1..(Len(u) - 0) : v[i] = u[i + 0]
    BY <1>1, <1>4, <2>1
  <2> QED
    BY <1>2, <2>2 DEF PushedBy
<1> QED
  BY <1>3, <1>4

(* What AtDocument says of a change. *)
Recalls(p, doc, q, k) ==
  LET n == IF Len(q) > k THEN Len(q) - k ELSE 0
      all == Append(p, doc)
  IN  /\ n <= Len(all)
      /\ SubSeq(q, 1, n) = SubSeq(all, Len(all) - n + 1, Len(all))
      /\ n = Len(all) \/ Len(q) = UndoDepth

LEMMA SubSeqSame ==
  ASSUME NEW p \in Seq(Text), NEW q \in Seq(Text), NEW n \in Nat, n <= Len(p), n <= Len(q),
         NEW m \in Nat, m = Len(q) - n, \A i \in 1..n : p[i] = q[m + i]
  PROVE  SubSeq(p, 1, n) = SubSeq(q, m + 1, Len(q))
<1> DEFINE a == SubSeq(p, 1, n)
           b == SubSeq(q, m + 1, Len(q))
<1>1. Len(q) \in Nat /\ Len(q) = m + n
  OBVIOUS
<1>2. a = [i \in 1..n |-> p[i]]
  OBVIOUS
<1>3. b = [i \in 1..n |-> q[m + i]]
  BY <1>1
<1> HIDE DEF a, b
<1> QED
  BY <1>2, <1>3 DEF a, b

(* q ends with k later texts, and before them are the last of all; h have   *)
(* been given up for want of room.                                          *)
Shifted(all, q, k, h) ==
  /\ Len(q) + h = Len(all) + k /\ (h > 0 => Len(q) = UndoDepth)
  /\ \A i \in 1..Len(q) : h + i <= Len(all) => q[i] = all[h + i]

LEMMA RecallIs ==
  ASSUME NEW p \in Seq(Text), NEW doc \in Text, NEW q \in Seq(Text), NEW k \in Nat,
         NEW h \in Nat, NEW all, all = Append(p, doc), Shifted(all, q, k, h)
  PROVE  Recalls(p, doc, q, k)
<1> DEFINE n == IF Len(q) > k THEN Len(q) - k ELSE 0
           m == Len(all) - n
<1>0. /\ Len(q) + h = Len(all) + k /\ (h > 0 => Len(q) = UndoDepth)
      /\ \A i \in 1..Len(q) : h + i <= Len(all) => q[i] = all[h + i]
  BY DEF Shifted
<1>1. all \in Seq(Text) /\ Len(all) \in Nat /\ Len(q) \in Nat
  BY AppendIs, SeqIs
<1>2. n \in Nat /\ n <= Len(q) /\ n <= Len(all) /\ m \in Nat /\ m = Len(all) - n /\ (n > 0 => m = h)
  BY <1>0, <1>1
<1>3. n = Len(all) \/ Len(q) = UndoDepth
  BY <1>0, <1>1
<1> HIDE DEF n, m
<1>4. \A i \in 1..n : q[i] = all[m + i]
  <2>1. SUFFICES ASSUME NEW i \in 1..n PROVE q[i] = all[m + i]
    OBVIOUS
  <2>2. m = h /\ i \in 1..Len(q) /\ h + i <= Len(all)
    BY <1>1, <1>2
  <2> QED
    BY <1>0, <2>2
<1>5. SubSeq(q, 1, n) = SubSeq(all, m + 1, Len(all))
  <2>1. q \in Seq(Text)
    OBVIOUS
  <2> QED
    BY ONLY <1>1, <1>2, <1>4, <2>1, SubSeqSame
<1>6. Len(all) - n + 1 = m + 1
  BY <1>1, <1>2
<1>7. SubSeq(q, 1, n) = SubSeq(all, Len(all) - n + 1, Len(all))
  BY <1>5, <1>6
<1> QED
  BY <1>2, <1>3, <1>7, Zenon DEF Recalls, n

Once(u, v, all, h) ==
  /\ Len(v) = Len(u) + 1 - h /\ (h = 1 <=> Len(u) = UndoDepth)
  /\ \A i \in 1..Len(v) : Past(v)[i] = all[h + i]

LEMMA PushedOnce ==
  ASSUME NEW u \in Seq(Snaps), Len(u) <= UndoDepth, NEW s \in Snaps, NEW v, v = Pushed(u, s),
         NEW all, all = Append(Past(u), s.lines)
  PROVE  \E h \in {0, 1} : Once(u, v, all, h)
<1> DEFINE p == Past(u)
           q == Past(v)
<1>0. PICK h \in {0, 1} : PushedBy(u, s, v, h)
  BY PushedWhere
<1>1. /\ v \in Seq(Snaps) /\ Len(v) \in Nat /\ Len(v) <= UndoDepth
      /\ Len(v) = Len(u) + 1 - h /\ (h = 1 <=> Len(u) = UndoDepth)
      /\ v[Len(v)] = s /\ \A i \in 1..(Len(u) - h) : v[i] = u[i + h]
  BY <1>0 DEF PushedBy
<1>2. /\ p \in Seq(Text) /\ Len(p) = Len(u) /\ Len(u) \in Nat
      /\ \A i \in 1..Len(u) : p[i] = u[i].lines
  BY PastIs
<1>3. /\ q \in Seq(Text) /\ Len(q) = Len(v) /\ \A i \in 1..Len(v) : q[i] = v[i].lines
  BY <1>1, PastIs
<1>4. s.lines \in Text
  BY DEF Snaps
<1> HIDE DEF p, q
<1>5. all[Len(u) + 1] = s.lines /\ \A i \in 1..Len(u) : all[i] = p[i]
  BY <1>2, <1>4 DEF p
<1>6. ASSUME NEW i \in 1..Len(v) PROVE q[i] = all[h + i]
  <2>1. CASE i = Len(v)
    <3>1. h + i = Len(u) + 1
      BY <1>1, <1>2, <2>1
    <3> QED
      BY <1>1, <1>3, <1>5, <2>1, <3>1
  <2>2. CASE i # Len(v)
    <3>1. i \in 1..(Len(u) - h) /\ i + h \in 1..Len(u) /\ i + h = h + i
      BY <1>1, <1>2, <2>2
    <3> QED
      BY <1>1, <1>2, <1>3, <1>5, <3>1, ZenonT(40)
  <2> QED
    BY <2>1, <2>2
<1> QED
  BY <1>1, <1>6 DEF Once, q

LEMMA ShiftedFirst ==
  ASSUME NEW u \in Seq(Snaps), Len(u) <= UndoDepth, NEW s \in Snaps, NEW v, v = Pushed(u, s),
         NEW all, all = Append(Past(u), s.lines)
  PROVE  \E h \in Nat : Shifted(all, Past(v), 0, h)
<1>1. PICK h \in {0, 1} : Once(u, v, all, h)
  BY PushedOnce
<1>2. v \in Seq(Snaps) /\ s.lines \in Text
  BY PushedIs DEF Snaps
<1>3. /\ Past(u) \in Seq(Text) /\ Len(Past(u)) = Len(u) /\ Len(u) \in Nat
  BY PastIs
<1>4. /\ Past(v) \in Seq(Text) /\ Len(Past(v)) = Len(v) /\ Len(v) \in Nat
  BY <1>2, PastIs
<1>5. Len(all) = Len(u) + 1
  BY <1>2, <1>3, AppendIs
<1>6. /\ Len(v) = Len(u) + 1 - h /\ (h = 1 <=> Len(u) = UndoDepth)
      /\ \A i \in 1..Len(v) : Past(v)[i] = all[h + i]
  BY <1>1 DEF Once
<1>7. Len(Past(v)) + h = Len(all) + 0 /\ (h > 0 => Len(Past(v)) = UndoDepth) /\ h \in Nat
  BY <1>3, <1>4, <1>5, <1>6
<1>8. Shifted(all, Past(v), 0, h)
  BY <1>4, <1>6, <1>7 DEF Shifted
<1> QED
  BY <1>7, <1>8

LEMMA ShiftedMore ==
  ASSUME NEW all \in Seq(Text), NEW v \in Seq(Snaps), Len(v) <= UndoDepth, NEW k \in Nat,
         NEW h \in Nat, Shifted(all, Past(v), k, h), NEW t \in Snaps, NEW w, w = Pushed(v, t)
  PROVE  \E x \in Nat : Shifted(all, Past(w), k + 1, x)
<1> DEFINE q == Past(v)
           r == Past(w)
           more == Append(q, t.lines)
<1>1. PICK g \in {0, 1} : Once(v, w, more, g)
  BY PushedOnce
<1>2. /\ Len(w) = Len(v) + 1 - g /\ (g = 1 <=> Len(v) = UndoDepth)
      /\ \A i \in 1..Len(w) : r[i] = more[g + i]
  BY <1>1 DEF Once
<1>3. w \in Seq(Snaps) /\ t.lines \in Text
  BY PushedIs DEF Snaps
<1>4. q \in Seq(Text) /\ Len(q) = Len(v) /\ Len(v) \in Nat
  BY PastIs
<1>5. r \in Seq(Text) /\ Len(r) = Len(w) /\ Len(w) \in Nat
  BY <1>3, PastIs
<1>6. Len(q) + h = Len(all) + k /\ (h > 0 => Len(q) = UndoDepth) /\ Len(all) \in Nat
      /\ \A i \in 1..Len(q) : h + i <= Len(all) => q[i] = all[h + i]
  BY SeqIs DEF Shifted
<1> HIDE DEF q, r
<1>7. \A i \in 1..Len(q) : more[i] = q[i]
  BY <1>3, <1>4
<1> HIDE DEF more
<1> DEFINE x == h + g
<1>8. x \in Nat /\ Len(r) + x = Len(all) + (k + 1) /\ (x > 0 => Len(r) = UndoDepth)
  <2>1. UndoDepth \in Nat \ {0}
    BY EditorAssumption DEF EditorAssumption
  <2>2. CASE g = 0
    <3>1. x = h /\ Len(w) = Len(v) + 1 /\ Len(v) # UndoDepth
      BY <1>2, <1>4, <2>2
    <3>2. h = 0
      BY <1>4, <1>6, <3>1
    <3> QED
      BY <1>4, <1>5, <1>6, <3>1, <3>2
  <2>3. CASE g = 1
    <3>1. x = h + 1 /\ Len(w) = Len(v) /\ Len(v) = UndoDepth
      BY <1>2, <1>4, <2>1, <2>3
    <3>2. Len(r) = UndoDepth
      BY <1>5, <3>1
    <3>3. x \in Nat /\ Len(r) + h = Len(all) + k
      BY <1>4, <1>6, <3>1, <3>2
    <3>4. Len(all) \in Nat /\ Len(r) \in Nat
      BY <1>6, <2>1, <3>2
    <3>5. Len(r) + (h + 1) = Len(all) + (k + 1)
      BY ONLY <3>3, <3>4, h \in Nat, k \in Nat
    <3>6. Len(r) + x = Len(all) + (k + 1)
      BY <3>1, <3>5
    <3> QED
      BY <3>2, <3>3, <3>6
  <2> QED
    BY <2>2, <2>3
<1>9. ASSUME NEW i \in 1..Len(r), x + i <= Len(all) PROVE r[i] = all[x + i]
  <2>1. g + i \in 1..Len(q) /\ h + (g + i) = x + i /\ h + (g + i) <= Len(all) /\ i \in 1..Len(w)
    BY <1>4, <1>5, <1>6, <1>9
  <2> QED
    BY <1>2, <1>6, <1>7, <2>1
<1> HIDE DEF x
<1>10. Shifted(all, r, k + 1, x)
  BY <1>8, <1>9 DEF Shifted
<1> QED
  BY <1>8, <1>10 DEF r

LEMMA ChangeRecalls ==
  ASSUME NEW e, e.undo \in Seq(Snaps), Len(e.undo) <= UndoDepth, NEW x, Changes(e, x)
  PROVE  Recalls(Past(e.undo), e.lines, Past(x.undo), 0)
<1>1. PICK s \in Snaps : s.lines = e.lines /\ x.undo = Pushed(e.undo, s)
  BY DEF Changes
<1>2. PICK h \in Nat : Shifted(Append(Past(e.undo), e.lines), Past(x.undo), 0, h)
  BY <1>1, ShiftedFirst
<1>3. x.undo \in Seq(Snaps) /\ e.lines \in Text
  BY <1>1, PushedIs DEF Snaps
<1>4. Past(e.undo) \in Seq(Text) /\ Past(x.undo) \in Seq(Text)
  BY <1>3, PastIs
<1> QED
  BY <1>2, <1>3, <1>4, RecallIs

(* A key that makes n changes. *)
LEMMA ChainRecalls ==
  ASSUME NEW e, e.undo \in Seq(Snaps), Len(e.undo) <= UndoDepth, NEW x, NEW n \in Nat, n > 0,
         Chain(e, x, n)
  PROVE  Recalls(Past(e.undo), e.lines, Past(x.undo), n - 1)
<1> DEFINE all == Append(Past(e.undo), e.lines)
<1>1. PICK c : c[0] = e /\ c[n] = x /\ \A i \in 0..(n - 1) : Changes(c[i], c[i + 1])
  BY DEF Chain
<1>2. Changes(e, c[1])
  <2>1. 0 \in 0..(n - 1) /\ 0 + 1 = 1
    OBVIOUS
  <2> QED
    BY <1>1, <2>1
<1>3. PICK s \in Snaps : s.lines = e.lines /\ c[1].undo = Pushed(e.undo, s)
  BY <1>2 DEF Changes
<1>4. e.lines \in Text /\ Past(e.undo) \in Seq(Text) /\ all \in Seq(Text)
  <2>1. e.lines \in Text
    BY <1>3 DEF Snaps
  <2>2. Past(e.undo) \in Seq(Text)
    BY PastIs
  <2> QED
    BY <2>1, <2>2, AppendIs
<1> DEFINE P(i) == /\ c[i + 1].undo \in Seq(Snaps) /\ Len(c[i + 1].undo) <= UndoDepth
                   /\ \E h \in Nat : Shifted(all, Past(c[i + 1].undo), i, h)
           S == {i \in Nat : i + 1 <= n => P(i)}
<1>5. 0 \in S
  <2>1. c[1].undo \in Seq(Snaps) /\ Len(c[1].undo) <= UndoDepth
    BY <1>3, PushedIs
  <2>2. \E h \in Nat : Shifted(all, Past(c[1].undo), 0, h)
    BY <1>3, ShiftedFirst
  <2>3. 0 + 1 = 1
    OBVIOUS
  <2> HIDE DEF all
  <2> QED
    BY <2>1, <2>2, <2>3
<1> HIDE DEF all
<1>6. ASSUME NEW i \in Nat, i \in S PROVE i + 1 \in S
  <2>1. SUFFICES ASSUME i + 1 + 1 <= n PROVE P(i + 1)
    OBVIOUS
  <2>2. P(i) /\ i + 1 \in 0..(n - 1)
    BY <1>6, <2>1
  <2>3. Changes(c[i + 1], c[i + 1 + 1])
    BY <1>1, <2>2
  <2>4. PICK t \in Snaps : c[i + 1 + 1].undo = Pushed(c[i + 1].undo, t)
    BY <2>3 DEF Changes
  <2>5. PICK h \in Nat : Shifted(all, Past(c[i + 1].undo), i, h)
    BY <2>2
  <2>6. \E y \in Nat : Shifted(all, Past(c[i + 1 + 1].undo), i + 1, y)
    BY <1>4, <2>2, <2>4, <2>5, ShiftedMore
  <2>7. c[i + 1 + 1].undo \in Seq(Snaps) /\ Len(c[i + 1 + 1].undo) <= UndoDepth
    BY <2>2, <2>4, PushedIs
  <2> QED
    BY <2>6, <2>7
<1> HIDE DEF P, S
<1>7. \A i \in Nat : i \in S
  BY <1>5, <1>6, NatSet
<1>8. P(n - 1)
  <2>1. n - 1 \in Nat /\ n - 1 + 1 = n
    OBVIOUS
  <2> QED
    BY <1>7, <2>1 DEF S
<1>9. n - 1 \in Nat /\ c[n - 1 + 1] = x
  BY <1>1
<1>10. x.undo \in Seq(Snaps) /\ \E h \in Nat : Shifted(all, Past(x.undo), n - 1, h)
  BY <1>8, <1>9 DEF P
<1>11. Past(x.undo) \in Seq(Text)
  BY <1>10, PastIs
<1> QED
  BY <1>4, <1>9, <1>10, <1>11, RecallIs DEF all

LEMMA FrontRecalls ==
  ASSUME NEW u \in Seq(Snaps), u # <<>>, NEW lines, lines = Last(u).lines, NEW v, v = Front(u)
  PROVE  Past(u) # <<>> /\ lines = Last(Past(u)) /\ Past(v) = Front(Past(u))
<1> DEFINE p == Past(u)
           n == Len(u) - 1
<1>1. /\ p \in Seq(Text) /\ Len(p) = Len(u) /\ Len(u) \in Nat
      /\ \A i \in 1..Len(u) : p[i] = u[i].lines
  BY PastIs
<1>2. Len(u) > 0 /\ n \in Nat /\ n <= Len(u) /\ Len(u) \in 1..Len(u)
  BY <1>1
<1>3. Last(u) = u[Len(u)] /\ Last(p) = p[Len(u)]
  BY <1>1 DEF Last
<1>4. v \in Seq(Snaps) /\ v = [i \in 1..n |-> u[i]]
  <2>1. v = SubSeq(u, 1, Len(u) - 1)
    BY DEF Front
  <2>2. v \in Seq(Snaps)
    BY LastIs
  <2> QED
    BY <1>2, <2>1, <2>2
<1>5. DOMAIN v = 1..n /\ \A i \in 1..n : v[i] = u[i]
  BY <1>4
<1>6. Past(v) = [i \in 1..n |-> v[i].lines]
  BY <1>5 DEF Past
<1> HIDE DEF p, n
<1>7. Front(p) = [i \in 1..n |-> p[i]]
  <2>1. Front(p) = SubSeq(p, 1, n)
    BY <1>1 DEF Front, n
  <2> QED
    BY <1>1, <1>2, <2>1
<1>8. \A i \in 1..n : v[i].lines = p[i]
  BY <1>1, <1>2, <1>5
<1>9. p # <<>>
  BY <1>1, <1>2
<1> QED
  BY <1>1, <1>2, <1>3, <1>6, <1>7, <1>8, <1>9 DEF p

(* What Document says of the texts that may be brought back. *)
Refines == [Document!Next]_(Document!vars)

LEMMA ChangeRefines ==
  ASSUME app.screen = "script", app'.screen = "script", NEW k \in 0..(KeyChanges(ed) - 1),
         Recalls(Past(ed.undo), ed.lines, Past(ed'.undo), k)
  PROVE  Refines
<1>1. Document!Change
  BY DEF Document!Change, Recalls, Past
<1> QED
  BY <1>1 DEF Refines, Document!Next

LEMMA UndoRefines ==
  ASSUME app.screen = "script", app'.screen = "script", Past(ed.undo) # <<>>,
         ed'.lines = Last(Past(ed.undo)), Past(ed'.undo) = Front(Past(ed.undo))
  PROVE  Refines
<1>1. \A s : Document!Last(s) = Last(s) /\ Document!Front(s) = Front(s)
  BY DEF Document!Last, Document!Front, Last, Front
<1>2. Document!Undo
  BY <1>1 DEF Document!Undo, Past
<1> QED
  BY <1>2 DEF Refines, Document!Next

LEMMA StillRefines ==
  ASSUME (app.screen = "script") <=> (app'.screen = "script"), Keeps(ed, ed')
  PROVE  Refines
<1>1. (app.screen = "script") = (app'.screen = "script")
  OBVIOUS
<1>2. UNCHANGED (Document!vars)
  BY <1>1 DEF Document!vars, Keeps
<1> QED
  BY <1>2 DEF Refines

LEMMA EditsRefine ==
  ASSUME Inv, app.screen = "script", app'.screen = "script",
         Edits(ed, ed') \/ Inserts(ed, ed')
  PROVE  Refines
<1>1. ed.undo \in Seq(Snaps) /\ Len(ed.undo) <= UndoDepth
  <2>1. Held(ed)
    BY InvIs, SoundHeld
  <2> QED
    BY <2>1 DEF Held, Editors
<1>2. CASE Keeps(ed, ed')
  BY <1>2, StillRefines
<1>3. CASE Changes(ed, ed')
  <2>1. Recalls(Past(ed.undo), ed.lines, Past(ed'.undo), 0)
    BY <1>1, <1>3, ChangeRecalls
  <2>2. 0 \in 0..(KeyChanges(ed) - 1)
    BY EditorAssumption DEF KeyChanges
  <2> QED
    BY <2>1, <2>2, ChangeRefines
<1>4. CASE TakesBack(ed, ed')
  <2>1. ed.undo # <<>> /\ ed'.lines = Last(ed.undo).lines /\ ed'.undo = Front(ed.undo)
    BY <1>4 DEF TakesBack
  <2>2. /\ Past(ed.undo) # <<>> /\ ed'.lines = Last(Past(ed.undo))
        /\ Past(ed'.undo) = Front(Past(ed.undo))
    BY <1>1, <2>1, FrontRecalls
  <2> QED
    BY <2>2, UndoRefines
<1>5. CASE Inserts(ed, ed')
  <2>1. PICK n \in 1..TemplateSize : Picking(ed) /\ Chain(ed, ed', n)
    BY <1>5 DEF Inserts
  <2>2. Recalls(Past(ed.undo), ed.lines, Past(ed'.undo), n - 1)
    BY <1>1, <2>1, ChainRecalls
  <2>3. n - 1 \in 0..(KeyChanges(ed) - 1)
    BY <2>1, EditorAssumption DEF KeyChanges
  <2> QED
    BY <2>2, <2>3, ChangeRefines
<1> QED
  BY <1>2, <1>3, <1>4, <1>5 DEF Edits

LEMMA StoryRefines == ASSUME Inv, Fits PROVE Refines
<1>1. CASE UNCHANGED <<app, ed, loaded>>
  BY <1>1, StillRefines DEF Keeps
<1>2. CASE app.screen = "script" /\ app'.screen # "script"
  <2>1. Document!Close
    BY <1>2 DEF Document!Close
  <2> QED
    BY <2>1 DEF Refines, Document!Next
<1>3. CASE app.screen # "script" /\ app'.screen # "script" /\ ed' = ed
  BY <1>3, StillRefines DEF Keeps
<1>4. CASE app.screen # "script" /\ app'.screen = "script" /\ ed'.undo = <<>>
  <2>1. Past(ed'.undo) = <<>>
    BY <1>4 DEF Past
  <2>2. Document!Open
    BY <1>4, <2>1 DEF Document!Open, Past
  <2> QED
    BY <2>2 DEF Refines, Document!Next
<1>5. CASE /\ app.screen = "script" /\ app'.screen = "script"
           /\ Edits(ed, ed') \/ Inserts(ed, ed')
  BY <1>5, EditsRefine
<1> QED
  BY <1>1, <1>2, <1>3, <1>4, <1>5 DEF Fits, Story

(* Every change that is made to a text in the editor can be taken back,     *)
(* newest first, up to EDITOR_UNDO_DEPTH changes, whatever key makes it and *)
(* however long a template it inserts (editor_save_undo, editor_undo,       *)
(* editor_insert_text): the editor over the list implements AtDocument.     *)
THEOREM ChangesAreUndone == Spec => Undoes
<1>1. Init => Document!Init
  BY OffIs DEF Init, Document!Init
<1>2. Inv /\ [Next]_vars => [Document!Next]_(Document!vars)
  BY NextFits, StoryRefines DEF Refines
<1> QED
  BY <1>1, <1>2, Always, PTL DEF Spec, Undoes, Document!Spec

(* The selection is a test, the cursor is in the text, and each line of the *)
(* registry names a script (clamp_selected, editor_clamp_cursor,            *)
(* save_test_registry).                                                     *)
THEOREM BuilderTypes == Spec => []TypeOK
<1>1. ASSUME Inv PROVE TypeOK
  <2>1. /\ app \in Apps /\ disk \in Disks /\ Sound(ed) /\ Len(app.cases) \in Nat
        /\ Len(app.cases) <= MaxCases /\ app.filter \in Filters \cup {None}
        /\ app.screen \in Screens /\ app.fresh \in BOOLEAN
    BY <1>1, InvIs
  <2>2. app.sel \in 1..Max({1, Len(app.cases)})
    <3> DEFINE n == Len(app.cases)
               S == {1, n}
               m == Max(S)
               k == n + 1
    <3>1. S \in SUBSET (0..k) /\ S # {} /\ k \in Nat /\ n \in Nat
      BY <2>1
    <3> HIDE DEF k
    <3>2. m \in S /\ \A j \in S : j <= m
      BY <3>1, MaxIn
    <3>3. app.sel \in Nat /\ app.sel >= 1 /\ (app.sel = 1 \/ app.sel <= n)
      BY <2>1 DEF Apps
    <3>4. 1 <= m /\ n <= m /\ m \in Nat
      BY <3>1, <3>2
    <3> HIDE DEF m, n
    <3>5. app.sel \in 1..m
      BY <3>1, <3>3, <3>4
    <3> QED
      BY <3>5 DEF m, n
  <2>3. InText(ed)
    BY <2>1, SoundInText
  <2>4. \A i \in DOMAIN disk.reg : disk.reg[i].path \in Files
    <3>1. disk.reg \in Seq(Entries)
      BY <2>1, DiskIs
    <3>2. \A i \in DOMAIN disk.reg : disk.reg[i] \in Entries
      BY <3>1, SeqIs
    <3> QED
      BY <3>2 DEF Entries
  <2>5. disk.script \in [Files -> [id : Nat, cmd : Text]]
    BY <2>1 DEF Disks, Scripts
  <2> QED
    BY <2>1, <2>2, <2>3, <2>4, <2>5 DEF TypeOK, Screens
<1> QED
  BY <1>1, Always, PTL
=============================================================================
