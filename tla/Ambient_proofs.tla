--------------------------- MODULE Ambient_proofs ---------------------------
(***************************************************************************)
(* What the program takes from its surroundings: configuration files of    *)
(* any length, a clock of any age, an installed command that may be any    *)
(* program, and policy bundles with anything in them.                      *)
(***************************************************************************)
EXTENDS TrustedConfiguration, Timestamp, Probe, PolicyBundle, Cuttings_proofs,
        FiniteSetTheorems

(***************************************************************************)
(* The configuration files.                                                *)
(***************************************************************************)

\* Nothing has been decided.
Undecided ==
    /\ configuration = NoSettings
    /\ provenance = "Undecided"
    /\ refusal = "none"

\* The settings found are what the lines read so far say: each key that has a
\* value was said by one line, and every line is blank or said such a key.
Agreed ==
    /\ DOMAIN settings \subseteq Keys
    /\ \A k \in DOMAIN settings : \E i \in DOMAIN lines :
          SaidIn(k) = {i} /\ settings[k] = lines[i].value
    /\ \A i \in DOMAIN lines :
          lines[i].is = "blank" \/ \E k \in DOMAIN settings : i \in SaidIn(k)
    /\ "environment" \in DOMAIN settings => settings["environment"] \in Labels

\* The loader before it parses, while it parses, and when it is over.
LoaderInv ==
    /\ lines \in Seq(ConfigurationLines)
    /\ loading \in {"start", "read", "parse", "over"}
    /\ loading \in {"start", "read"} =>
          Undecided /\ lines = <<>> /\ settings = NoSettings
    /\ loading \in {"read", "parse"} => named
    /\ loading = "parse" => Undecided /\ Agreed
    /\ loading = "over" => ConfigurationIsWhole
-----------------------------------------------------------------------------
\* One more line: what the earlier ones say stands.
LEMMA OneMoreLine ==
    ASSUME lines \in Seq(ConfigurationLines),
           NEW l \in ConfigurationLines,
           lines' = Append(lines, l)
    PROVE  /\ lines' \in Seq(ConfigurationLines)
           /\ DOMAIN lines' = DOMAIN lines \cup {Len(lines) + 1}
           /\ Len(lines) + 1 \notin DOMAIN lines
           /\ \A i \in DOMAIN lines : lines'[i] = lines[i]
           /\ lines'[Len(lines) + 1] = l
           /\ \A k : SaidIn(k)' =
                 SaidIn(k) \cup (IF l.is = "pair" /\ l.key = k THEN {Len(lines) + 1}
                                                              ELSE {})
<1>1. /\ DOMAIN lines = 1..Len(lines) /\ Len(lines) \in Nat
      /\ Len(lines') = Len(lines) + 1
      /\ lines' \in Seq(ConfigurationLines)
      /\ DOMAIN lines' = 1..(Len(lines) + 1)
      /\ \A i \in 1..Len(lines) : lines'[i] = lines[i]
      /\ lines'[Len(lines) + 1] = l
  OBVIOUS
<1>2. DOMAIN lines' = DOMAIN lines \cup {Len(lines) + 1}
      /\ Len(lines) + 1 \notin DOMAIN lines
  BY <1>1
<1>3. ASSUME NEW k
      PROVE SaidIn(k)' =
              SaidIn(k) \cup (IF l.is = "pair" /\ l.key = k THEN {Len(lines) + 1}
                                                           ELSE {})
  BY <1>1, <1>2 DEF SaidIn
<1> QED
  BY <1>1, <1>2, <1>3

\* A key without a value was said by no line.
LEMMA UnsaidKey ==
    ASSUME Agreed, NEW k, k \notin DOMAIN settings
    PROVE  SaidIn(k) = {}
BY DEF Agreed, SaidIn

\* Refusing decides nothing about configuration.
LEMMA RefusalIsWhole ==
    ASSUME NEW code, Refuse(code), named,
           code \in {"FileDuplicateKey", "FileMissingKey", "FileMalformed",
                     "FileUnknownKey"} =>
             \/ ~Unambiguous'
             \/ \E i \in SaidIn("environment")' : lines'[i].value \notin Labels
    PROVE  /\ loading' = "over" /\ ConfigurationIsWhole'
BY DEF Refuse, Return, ConfigurationIsWhole

LEMMA LoaderInitInv == LoaderInit => LoaderInv
BY DEF LoaderInit, LoaderInv, Undecided

\* The constructor lets only usable settings through.
LEMMA Constructed ==
    ASSUME NEW c, NewError(c) = "none", c["environment"] \in Labels
    PROVE  Usable(c)
BY DEF NewError, Usable, PathKeys

LEMMA EnvironmentKeepsInv ==
    ASSUME LoaderInv, NEW variables, FromEnvironment(variables)
    PROVE  LoaderInv'
<1>1. loading = "start" /\ ~named /\ lines = <<>> /\ lines' = lines
      /\ named' = named
  BY DEF FromEnvironment, LoaderInv, Return
<1>2. loading' = "over" /\ refusal' = "none"
  BY DEF FromEnvironment, Return
<1>3. CASE provenance' = "Environment"
  <2>1. configuration' = variables /\ Usable(variables)
    BY <1>3, Constructed DEF FromEnvironment, Return
  <2> QED
    BY <1>1, <1>2, <1>3, <2>1 DEF LoaderInv, ConfigurationIsWhole, Usable
<1>4. CASE provenance' = "Absent"
  <2>1. configuration' = NoSettings
    BY <1>4 DEF FromEnvironment, Return
  <2> QED
    BY <1>1, <1>2, <1>4, <2>1 DEF LoaderInv, ConfigurationIsWhole, NoSettings
<1> QED
  BY <1>3, <1>4 DEF FromEnvironment, Return

LEMMA StatKeepsInv ==
    ASSUME LoaderInv, NEW found \in {"unreadable", "large", "shared", "exclusive"},
           Stat(found)
    PROVE  LoaderInv'
<1>1. loading = "start" /\ named /\ lines' = lines /\ Undecided
      /\ lines = <<>> /\ settings = NoSettings
  BY DEF Stat, LoaderInv
<1>2. CASE found = "exclusive"
  BY <1>1, <1>2 DEF Stat, LoaderInv, Undecided
<1>3. CASE found # "exclusive"
  <2>1. PICK code \in {"FileUnreadable", "FileTooLarge", "FileWritableByOthers"} :
           Refuse(code)
    BY <1>3 DEF Stat
  <2>2. loading' = "over" /\ ConfigurationIsWhole'
    BY <1>1, <2>1, RefusalIsWhole
  <2> QED
    BY <1>1, <2>2 DEF LoaderInv
<1> QED
  BY <1>2, <1>3

LEMMA ReadFileKeepsInv ==
    ASSUME LoaderInv, NEW readable \in BOOLEAN, ReadFile(readable)
    PROVE  LoaderInv'
<1>1. loading = "read" /\ named /\ lines' = lines /\ Undecided
      /\ lines = <<>> /\ settings = NoSettings
  BY DEF ReadFile, LoaderInv
<1>2. CASE readable
  <2>1. Agreed
    BY <1>1 DEF Agreed, NoSettings
  <2> QED
    BY <1>1, <1>2, <2>1 DEF ReadFile, LoaderInv, Undecided, Agreed, SaidIn
<1>3. CASE ~readable
  <2>1. Refuse("FileUnreadable")
    BY <1>3 DEF ReadFile
  <2>2. loading' = "over" /\ ConfigurationIsWhole'
    BY <1>1, <2>1, RefusalIsWhole
  <2> QED
    BY <1>1, <2>2 DEF LoaderInv
<1> QED
  BY <1>2, <1>3

LEMMA ReadLineKeepsInv ==
    ASSUME LoaderInv, NEW l \in ConfigurationLines, ReadLine(l)
    PROVE  LoaderInv'
<1> DEFINE last == Len(lines) + 1
<1>1. loading = "parse" /\ named /\ lines' = Append(lines, l) /\ Undecided
      /\ Agreed /\ lines \in Seq(ConfigurationLines)
  BY DEF ReadLine, LoaderInv
<1>2. /\ lines' \in Seq(ConfigurationLines)
      /\ DOMAIN lines' = DOMAIN lines \cup {last}
      /\ last \notin DOMAIN lines
      /\ \A i \in DOMAIN lines : lines'[i] = lines[i]
      /\ lines'[last] = l
      /\ \A k : SaidIn(k)' = SaidIn(k) \cup (IF l.is = "pair" /\ l.key = k THEN {last}
                                                                      ELSE {})
  BY <1>1, OneMoreLine
<1>3. l.is \in {"blank", "broken", "pair"}
  BY DEF ConfigurationLines
<1> HIDE DEF last
<1>4. CASE l.is = "blank"
  <2>1. settings' = settings /\ Undecided' /\ loading' = "parse" /\ named'
    BY <1>1, <1>4 DEF ReadLine, Undecided
  <2>2. \A k : SaidIn(k)' = SaidIn(k)
    BY <1>2, <1>4
  <2>3. Agreed'
    BY <1>1, <1>2, <1>4, <2>1, <2>2 DEF Agreed
  <2> QED
    BY <1>2, <2>1, <2>3 DEF LoaderInv
<1>5. CASE l.is # "blank" /\ LineError(l) = "none"
  <2>1. l.is = "pair" /\ l.key \in Keys /\ l.key \notin DOMAIN settings
        /\ (l.key = "environment" => l.value \in Labels)
    BY <1>3, <1>5 DEF LineError, Repeated
  <2>2. /\ settings' = [k \in DOMAIN settings \cup {l.key} |->
                          IF k = l.key THEN l.value ELSE settings[k]]
        /\ Undecided' /\ loading' = "parse" /\ named'
    BY <1>1, <1>5 DEF ReadLine, Undecided
  <2>3. /\ DOMAIN settings' = DOMAIN settings \cup {l.key}
        /\ settings'[l.key] = l.value
        /\ \A k \in DOMAIN settings : settings'[k] = settings[k]
    BY <2>1, <2>2
  <2>4. SaidIn(l.key)' = {last} /\ \A k : k # l.key => SaidIn(k)' = SaidIn(k)
    BY <1>1, <1>2, <2>1, UnsaidKey
  <2>5. Agreed'
    <3>1. DOMAIN settings' \subseteq Keys
      BY <1>1, <2>1, <2>3 DEF Agreed
    <3>2. ASSUME NEW k \in DOMAIN settings'
          PROVE \E i \in DOMAIN lines' :
                   SaidIn(k)' = {i} /\ settings'[k] = lines'[i].value
      BY <1>1, <1>2, <2>1, <2>3, <2>4 DEF Agreed
    <3>3. ASSUME NEW i \in DOMAIN lines'
          PROVE lines'[i].is = "blank" \/ \E k \in DOMAIN settings' : i \in SaidIn(k)'
      BY <1>1, <1>2, <2>3, <2>4 DEF Agreed
    <3>4. "environment" \in DOMAIN settings' => settings'["environment"] \in Labels
      BY <1>1, <2>1, <2>3 DEF Agreed
    <3> QED
      BY <3>1, <3>2, <3>3, <3>4 DEF Agreed
  <2> QED
    BY <1>2, <2>2, <2>5 DEF LoaderInv
<1>6. CASE l.is # "blank" /\ LineError(l) # "none"
  <2>1. Refuse(LineError(l))
    BY <1>6 DEF ReadLine
  <2>2. LineError(l) \in {"FileMalformed", "FileUnknownKey", "FileDuplicateKey"}
    BY <1>6 DEF LineError
  <2>3. \/ ~Unambiguous'
        \/ \E i \in SaidIn("environment")' : lines'[i].value \notin Labels
    <3>1. CASE l.is = "broken"
      BY <1>2, <1>3, <3>1 DEF Unambiguous, SaidIn
    <3>2. CASE l.is = "pair" /\ l.key \notin Keys
      BY <1>2, <3>2 DEF Unambiguous, SaidIn
    <3>3. CASE l.is = "pair" /\ l.key = "environment" /\ l.value \notin Labels
      BY <1>2, <3>3
    <3>4. CASE l.is = "pair" /\ l.key \in Keys /\ Repeated(l.key)
      <4>1. PICK i \in DOMAIN lines : SaidIn(l.key) = {i}
        BY <1>1, <3>4 DEF Agreed, Repeated
      <4>2. SaidIn(l.key)' = {i, last} /\ i # last
        BY <1>2, <3>4, <4>1
      <4> QED
        BY <3>4, <4>2 DEF Unambiguous
    <3> QED
      BY <1>3, <1>6, <3>1, <3>2, <3>3, <3>4 DEF LineError
  <2>4. loading' = "over" /\ ConfigurationIsWhole'
    BY <1>1, <2>1, <2>2, <2>3, RefusalIsWhole
  <2> QED
    BY <1>2, <2>4 DEF LoaderInv
<1> QED
  BY <1>4, <1>5, <1>6

LEMMA EndOfFileKeepsInv ==
    ASSUME LoaderInv, EndOfFile
    PROVE  LoaderInv'
<1>1. loading = "parse" /\ named /\ lines' = lines /\ Agreed /\ Undecided
      /\ lines \in Seq(ConfigurationLines)
  BY DEF EndOfFile, LoaderInv
<1>2. \A k : SaidIn(k)' = SaidIn(k)
  BY <1>1 DEF SaidIn
<1>3. CASE DOMAIN settings # Keys
  <2>1. PICK k \in Keys : k \notin DOMAIN settings
    BY <1>1, <1>3 DEF Agreed
  <2>2. SaidIn(k)' = {}
    BY <1>1, <1>2, <2>1, UnsaidKey
  <2>3. ~Unambiguous'
    BY <2>2 DEF Unambiguous
  <2>4. Refuse("FileMissingKey")
    BY <1>3 DEF EndOfFile
  <2>5. loading' = "over" /\ ConfigurationIsWhole'
    BY <1>1, <2>3, <2>4, RefusalIsWhole
  <2> QED
    BY <1>1, <2>5 DEF LoaderInv
<1>4. CASE DOMAIN settings = Keys /\ NewError(settings) # "none"
  <2>1. Refuse(NewError(settings))
    BY <1>4 DEF EndOfFile
  <2>2. NewError(settings) \in {"WorkingDirectoryNotAbsolute",
                                "RepositoryBoundaryNotAbsolute", "NonUtf8Path",
                                "PathTooLong"}
    BY <1>4 DEF NewError
  <2>3. loading' = "over" /\ ConfigurationIsWhole'
    BY <1>1, <2>1, <2>2, RefusalIsWhole
  <2> QED
    BY <1>1, <2>3 DEF LoaderInv
<1>5. CASE DOMAIN settings = Keys /\ NewError(settings) = "none"
  <2>1. Return(settings, "File", "none")
    BY <1>5 DEF EndOfFile
  <2>2. "environment" \in Keys
    BY DEF Keys
  <2>3. Usable(settings)
    BY <1>1, <1>5, <2>2, Constructed DEF Agreed
  <2>4. Unambiguous'
    <3>1. \A k \in Keys : \E i \in DOMAIN lines' : SaidIn(k)' = {i}
      BY <1>1, <1>2, <1>5 DEF Agreed
    <3>2. \A i \in DOMAIN lines' :
             lines'[i].is = "blank" \/ \E k \in Keys : i \in SaidIn(k)'
      BY <1>1, <1>2, <1>5 DEF Agreed
    <3> QED
      BY <3>1, <3>2 DEF Unambiguous
  <2>5. \A k \in Keys : \A i \in SaidIn(k)' : settings[k] = lines'[i].value
    BY <1>1, <1>2, <1>5 DEF Agreed
  <2>6. /\ loading' = "over" /\ named' /\ provenance' = "File"
        /\ configuration' = settings /\ refusal' = "none"
    BY <1>1, <2>1 DEF Return
  <2>7. ConfigurationIsWhole'
    BY <2>3, <2>4, <2>5, <2>6 DEF ConfigurationIsWhole, Usable
  <2> QED
    BY <1>1, <2>6, <2>7 DEF LoaderInv
<1> QED
  BY <1>3, <1>4, <1>5

LEMMA LoaderKeepsInv == LoaderInv /\ [LoaderNext]_loaderVars => LoaderInv'
<1> SUFFICES ASSUME LoaderInv, [LoaderNext]_loaderVars PROVE LoaderInv'
  OBVIOUS
<1>1. CASE \E keys \in SUBSET Keys : \E variables \in [keys -> SettingValues] :
              FromEnvironment(variables)
  BY <1>1, EnvironmentKeepsInv
<1>2. CASE \E found \in {"unreadable", "large", "shared", "exclusive"} : Stat(found)
  BY <1>2, StatKeepsInv
<1>3. CASE \E readable \in BOOLEAN : ReadFile(readable)
  BY <1>3, ReadFileKeepsInv
<1>4. CASE \E l \in ConfigurationLines : ReadLine(l)
  BY <1>4, ReadLineKeepsInv
<1>5. CASE EndOfFile
  BY <1>5, EndOfFileKeepsInv
<1>6. CASE UNCHANGED loaderVars
  BY <1>6 DEF loaderVars, LoaderInv, Undecided, Agreed, ConfigurationIsWhole,
              Unambiguous, Usable, SaidIn
<1> QED
  BY <1>1, <1>2, <1>3, <1>4, <1>5, <1>6 DEF LoaderNext

\* ConfigurationIsWhole, for files of any length and values of any kind: a
\* configuration in force is the one its source states, whole, and a refused
\* file never gives way to the variables (configuration_with_provenance).
THEOREM ConfigurationWhole == LoaderSpec => []ConfigurationIsWhole
<1>1. LoaderInv => ConfigurationIsWhole
  BY DEF LoaderInv, Undecided, ConfigurationIsWhole
<1>2. LoaderSpec => []LoaderInv
  BY LoaderInitInv, LoaderKeepsInv, PTL DEF LoaderSpec
<1> QED
  BY <1>1, <1>2, PTL
-----------------------------------------------------------------------------
(***************************************************************************)
(* The clock of the audit trail.                                           *)
(***************************************************************************)

\* A date as civil_from_days has it: the year that begins in March, the months
\* of it that are over, and the days before those months and before the year.
MarchYear(d) == IF d.month <= 2 THEN d.year - 1 ELSE d.year
MarchMonth(d) == IF d.month <= 2 THEN d.month + 9 ELSE d.month - 3
BeforeMonth(s) == (153 * s + 2) \div 5
BeforeYear(y) == 365 * y + y \div 4 - y \div 100 + y \div 400
SinceMarch(n) == n + 719468

IsDate(d) ==
    /\ d \in [year : Nat, month : 1..12, day : 1..31]
    /\ d.year >= 1970
    /\ d.day <= DaysIn(d.year, d.month)

\* The clock and the calendar count the same days from the first of March of
\* the year nought, 719468 days before 1970.
ClockInv ==
    /\ days \in Nat
    /\ seconds \in TimeOfDay
    /\ IsDate(date)
    /\ SinceMarch(days) =
          BeforeYear(MarchYear(date)) + BeforeMonth(MarchMonth(date)) + date.day - 1
-----------------------------------------------------------------------------
\* The months of the year that begins in March: each has its days, and February
\* has what is left of 365 or 366.
LEMMA MonthsFollow ==
    ASSUME NEW y \in Nat, NEW m \in 1..12, m # 2,
           NEW s \in Nat, s = IF m <= 2 THEN m + 9 ELSE m - 3
    PROVE  /\ s \in 0..10
           /\ BeforeMonth(s + 1) = BeforeMonth(s) + DaysIn(y, m)
           /\ DaysIn(y, m) \in 1..31
<1>1. m \in {1, 3, 4, 5, 6, 7, 8, 9, 10, 11, 12}
  OBVIOUS
<1>2. /\ BeforeMonth(0) = 0 /\ BeforeMonth(1) = 31 /\ BeforeMonth(2) = 61
      /\ BeforeMonth(3) = 92 /\ BeforeMonth(4) = 122 /\ BeforeMonth(5) = 153
      /\ BeforeMonth(6) = 184 /\ BeforeMonth(7) = 214 /\ BeforeMonth(8) = 245
      /\ BeforeMonth(9) = 275 /\ BeforeMonth(10) = 306 /\ BeforeMonth(11) = 337
  BY DEF BeforeMonth
<1> QED
  BY <1>1, <1>2 DEF DaysIn

\* The year after, which is longer by the leap day the year ends with.
LEMMA YearsFollow ==
    ASSUME NEW y \in Nat, y > 0
    PROVE  BeforeYear(y) = BeforeYear(y - 1) + (IF Leap(y) THEN 366 ELSE 365)
<1>1. y \div 4 = (y - 1) \div 4 + (IF y % 4 = 0 THEN 1 ELSE 0)
  OBVIOUS
<1>2. y \div 100 = (y - 1) \div 100 + (IF y % 100 = 0 THEN 1 ELSE 0)
  OBVIOUS
<1>3. y \div 400 = (y - 1) \div 400 + (IF y % 400 = 0 THEN 1 ELSE 0)
  OBVIOUS
<1>4. (y % 400 = 0 => y % 100 = 0) /\ (y % 100 = 0 => y % 4 = 0)
  OBVIOUS
<1> QED
  BY <1>1, <1>2, <1>3, <1>4 DEF BeforeYear, Leap

\* A day of an era and the last there is of it.
EraDay(c, q, k, doy) == 36524 * c + 1461 * q + 365 * k + doy
LastDay == 146096
InEra(c, q, k, doy) ==
    /\ c \in Int /\ q \in Int /\ k \in Int /\ doy \in Int
    /\ 0 <= c /\ c <= 3 /\ 0 <= q /\ q <= 24 /\ 0 <= k /\ k <= 3
    /\ 0 <= doy /\ doy <= 365
    /\ doy = 365 => k = 3 /\ (q # 24 \/ c = 3)

\* The year of the era, from the day of it: of c centuries, q times four years
\* and k years, and the days of the year that have passed.
LEMMA YearOfDay ==
    ASSUME NEW c \in Int, NEW q \in Int, NEW k \in Int, NEW doy \in Int,
           InEra(c, q, k, doy)
    PROVE  /\ EraDay(c, q, k, doy) \in Int
           /\ EraDay(c, q, k, doy) >= 0 /\ EraDay(c, q, k, doy) <= LastDay
           /\ YearOfEra(EraDay(c, q, k, doy)) = 100 * c + 4 * q + k
<1> DEFINE doe == 36524 * c + 1461 * q + 365 * k + doy
           v == 1461 * q + 365 * k + doy
           u == 24 * c + q + 365 * k + doy
           t == IF u >= 1460 THEN 1 ELSE 0
           g == 25 * c + q
           r == 100 * c + 4 * q + k
<1>0. /\ 0 <= c /\ c <= 3 /\ 0 <= q /\ q <= 24 /\ 0 <= k /\ k <= 3
      /\ 0 <= doy /\ doy <= 365
      /\ doy = 365 => k = 3 /\ (q # 24 \/ c = 3)
  BY DEF InEra
<1>1. doe \in Int /\ 0 <= doe /\ doe <= 146096
  BY <1>0
<1>2. /\ u \in Int /\ 0 <= u /\ u <= 1556 /\ g \in Int /\ v \in Int
      /\ doe = 1460 * g + u /\ doe = 36524 * c + v /\ 0 <= v
  BY <1>0
<1>3. v <= 36523 \/ (c = 3 /\ doe = 146096)
  BY <1>0
<1>4. t \in Int /\ 0 <= doy - t /\ doy - t <= 364
  BY <1>0
<1>5. doe - (g + t) + c = 365 * r + (doy - t) /\ r \in Int
  BY <1>0, <1>4
<1> HIDE DEF doe, u, v, g, r
<1>6. doe \div 1460 = g + t
  BY ONLY <1>1, <1>2
<1> HIDE DEF t
<1>7. doe \div 36524 - doe \div 146096 = c
  <2>1. CASE v <= 36523
    <3>1. doe \div 36524 = c
      BY ONLY <1>0, <1>2, <2>1, c \in Int
    <3>2. doe < 146096
      BY ONLY <1>0, <1>2, <2>1, c \in Int
    <3>3. doe \div 146096 = 0
      BY ONLY <1>1, <3>2
    <3> QED
      BY ONLY <3>1, <3>3, c \in Int
  <2>2. CASE c = 3 /\ doe = 146096
    BY ONLY <2>2
  <2> QED
    BY <1>3, <2>1, <2>2
<1>8. /\ doe \div 1460 \in Int /\ doe \div 36524 \in Int /\ doe \div 146096 \in Int
  BY ONLY <1>1
<1>9. doe - doe \div 1460 + doe \div 36524 - doe \div 146096 = 365 * r + (doy - t)
  BY ONLY <1>1, <1>2, <1>4, <1>5, <1>6, <1>7, <1>8, c \in Int, doy \in Int
<1>10. (365 * r + (doy - t)) \div 365 = r
  BY ONLY <1>4, <1>5, doy \in Int
<1>11. YearOfEra(doe) = r
  BY <1>9, <1>10 DEF YearOfEra
<1>12. doe \in Int /\ doe >= 0 /\ doe <= LastDay
  BY ONLY <1>1 DEF LastDay
<1> QED
  BY ONLY <1>11, <1>12 DEF doe, r, EraDay

\* And a year of the era is such a number of centuries, fours and years.
LEMMA YearInCenturies ==
    ASSUME NEW r \in Int, 0 <= r, r <= 399
    PROVE  \E c, q, k \in Int :
              /\ 0 <= c /\ c <= 3 /\ 0 <= q /\ q <= 24 /\ 0 <= k /\ k <= 3
              /\ r = 100 * c + 4 * q + k
<1> DEFINE c == r \div 100
           x == r % 100
           q == x \div 4
           k == x % 4
<1>1. c \in Int /\ 0 <= c /\ c <= 3
  OBVIOUS
<1>2. x \in Int /\ 0 <= x /\ x <= 99 /\ r = 100 * c + x
  OBVIOUS
<1> HIDE DEF c, x
<1>3. q \in Int /\ 0 <= q /\ q <= 24
  BY <1>2
<1>4. k \in Int /\ 0 <= k /\ k <= 3 /\ x = 4 * q + k
  BY <1>2
<1> HIDE DEF q, k
<1>5. r = 100 * c + 4 * q + k
  BY <1>1, <1>2, <1>3, <1>4
<1> QED
  BY <1>1, <1>3, <1>4, <1>5

\* civil_from_days inverts the count of days.
LEMMA CivilInverts ==
    ASSUME NEW n \in Nat, NEW d, IsDate(d),
           SinceMarch(n) = BeforeYear(MarchYear(d)) + BeforeMonth(MarchMonth(d)) + d.day - 1
    PROVE  Civil(n) = d
<1> DEFINE y == MarchYear(d)
           s == MarchMonth(d)
           doy == BeforeMonth(s) + d.day - 1
           r == y % 400
           e == y \div 400
<1>1. /\ d.year \in Nat /\ d.month \in 1..12 /\ d.day \in 1..31
      /\ d.year >= 1970 /\ d.day <= DaysIn(d.year, d.month)
      /\ d = [year |-> d.year, month |-> d.month, day |-> d.day]
  BY DEF IsDate
<1>2. y \in Nat /\ y >= 1969 /\ s \in 0..11
  BY <1>1 DEF MarchYear, MarchMonth
<1>3. /\ doy \in 0..365
      /\ doy = 365 => Leap(y + 1)
      /\ (5 * doy + 2) \div 153 = s
  <2>1. CASE d.month = 2
    <3>1. s = 11 /\ y + 1 = d.year /\ BeforeMonth(s) = 337
      BY <1>1, <2>1 DEF MarchYear, MarchMonth, BeforeMonth
    <3>2. d.day \in 1..29 /\ (d.day = 29 => Leap(d.year))
      BY <1>1, <2>1 DEF DaysIn
    <3> QED
      BY <3>1, <3>2
  <2>2. CASE d.month # 2
    <3>1. s \in 0..10 /\ BeforeMonth(s + 1) = BeforeMonth(s) + DaysIn(d.year, d.month)
          /\ DaysIn(d.year, d.month) \in 1..31
      BY <1>1, <1>2, <2>2, MonthsFollow DEF MarchMonth
    <3>2. doy < BeforeMonth(s + 1) /\ doy >= BeforeMonth(s)
      BY <1>1, <3>1 DEF BeforeMonth
    <3> HIDE DEF doy
    <3>3. doy \in Int
      BY <1>1, <3>1 DEF BeforeMonth, doy
    <3> QED
      BY <3>1, <3>2, <3>3 DEF BeforeMonth
  <2> QED
    BY <2>1, <2>2
<1>4. d.day = doy - BeforeMonth(s) + 1 /\ BeforeMonth(s) \in Int
  <2>1. BeforeMonth(s) \in Int
    BY ONLY <1>2 DEF BeforeMonth
  <2> QED
    BY ONLY <1>1, <2>1
<1> HIDE DEF y, s, doy
<1>5. y = 400 * e + r /\ e \in Nat /\ r \in Int /\ 0 <= r /\ r <= 399
  BY ONLY <1>2
<1> HIDE DEF r, e
<1>6. PICK c \in Int, q \in Int, k \in Int :
         /\ 0 <= c /\ c <= 3 /\ 0 <= q /\ q <= 24 /\ 0 <= k /\ k <= 3
         /\ r = 100 * c + 4 * q + k
  <2>1. r \in Int /\ 0 <= r /\ r <= 399
    BY ONLY <1>5
  <2> QED
    BY ONLY <2>1, YearInCenturies, ZenonT(30)
<1>7. /\ r \div 4 = 25 * c + q /\ r \div 100 = c
      /\ y \div 4 = 100 * e + 25 * c + q
      /\ y \div 100 = 4 * e + c
      /\ y \div 400 = e
  BY <1>5, <1>6
<1>8. doy = 365 => k = 3 /\ (q # 24 \/ c = 3)
  BY <1>2, <1>3, <1>5, <1>6 DEF Leap
<1> DEFINE doe == EraDay(c, q, k, doy)
<1>9. doe \in Int /\ doe >= 0 /\ doe <= LastDay /\ YearOfEra(doe) = r
  <2>1. doy \in Int /\ 0 <= doy /\ doy <= 365
    BY ONLY <1>3
  <2>2. /\ doe \in Int /\ doe >= 0 /\ doe <= LastDay
        /\ YearOfEra(doe) = 100 * c + 4 * q + k
    <3>1. InEra(c, q, k, doy)
      BY ONLY <1>6, <1>8, <2>1, c \in Int, q \in Int, k \in Int DEF InEra
    <3> QED
      BY <2>1, <3>1, YearOfDay
  <2> QED
    BY ONLY <1>6, <2>2
<1>10. n + 719468 = 146097 * e + doe
  <2>1. SinceMarch(n) = BeforeYear(y) + doy
    BY <1>2, <1>3, <1>4 DEF y, s, doy, BeforeYear, BeforeMonth
  <2> QED
    BY <1>3, <1>5, <1>6, <1>7, <2>1 DEF SinceMarch, BeforeYear, EraDay
<1>11. doe - (365 * r + r \div 4 - r \div 100) = doy
  BY <1>3, <1>6, <1>7 DEF EraDay
<1> HIDE DEF doe
<1>12. (n + 719468) \div 146097 = e /\ (n + 719468) % 146097 = doe
  BY <1>5, <1>9, <1>10 DEF LastDay
<1>13. d.month = (IF s < 10 THEN s + 3 ELSE s - 9)
       /\ d.year = r + e * 400 + (IF d.month <= 2 THEN 1 ELSE 0)
  BY <1>1, <1>5 DEF y, s, MarchYear, MarchMonth
<1>14. Civil(n) =
         [year |-> r + e * 400 + (IF d.month <= 2 THEN 1 ELSE 0),
          month |-> d.month, day |-> doy - BeforeMonth(s) + 1]
  <2> DEFINE Of(yoe, day, shifted, month) ==
                [year |-> yoe + e * 400 + (IF month <= 2 THEN 1 ELSE 0),
                 month |-> month,
                 day |-> day - (153 * shifted + 2) \div 5 + 1]
             Month(shifted) == IF shifted < 10 THEN shifted + 3 ELSE shifted - 9
             Day(yoe) == doe - (365 * yoe + yoe \div 4 - yoe \div 100)
             Shifted(day) == (5 * day + 2) \div 153
  <2>1. Civil(n) = Of(YearOfEra(doe), Day(YearOfEra(doe)), Shifted(Day(YearOfEra(doe))),
                      Month(Shifted(Day(YearOfEra(doe)))))
    BY ONLY <1>12 DEF Civil
  <2>2. YearOfEra(doe) = r /\ Day(r) = doy /\ Shifted(doy) = s /\ Month(s) = d.month
    BY ONLY <1>3, <1>9, <1>11, <1>13
  <2>3. Civil(n) = Of(r, doy, s, d.month)
    <3> HIDE DEF Of, Month, Day, Shifted
    <3> QED
      BY ONLY <2>1, <2>2
  <2> QED
    BY ONLY <2>3 DEF BeforeMonth
<1> QED
  BY <1>1, <1>4, <1>13, <1>14
-----------------------------------------------------------------------------
\* A day later it is the calendar's next date.
LEMMA TomorrowCounts ==
    ASSUME NEW d, IsDate(d)
    PROVE  LET next == Tomorrow(d)
           IN  /\ IsDate(next)
               /\ BeforeYear(MarchYear(next)) + BeforeMonth(MarchMonth(next)) + next.day
                    = BeforeYear(MarchYear(d)) + BeforeMonth(MarchMonth(d)) + d.day + 1
<1> DEFINE next == Tomorrow(d)
<1>1. /\ d.year \in Nat /\ d.month \in 1..12 /\ d.day \in 1..31
      /\ d.year >= 1970 /\ d.day <= DaysIn(d.year, d.month)
      /\ d = [year |-> d.year, month |-> d.month, day |-> d.day]
  BY DEF IsDate
<1>2. CASE d.day < DaysIn(d.year, d.month)
  <2>1. next = [year |-> d.year, month |-> d.month, day |-> d.day + 1]
    BY <1>1, <1>2 DEF Tomorrow
  <2>2. DaysIn(d.year, d.month) \in 28..31
    BY DEF DaysIn
  <2>3. MarchYear(next) = MarchYear(d) /\ MarchMonth(next) = MarchMonth(d)
    BY <2>1 DEF MarchYear, MarchMonth
  <2>4. BeforeYear(MarchYear(d)) \in Int /\ BeforeMonth(MarchMonth(d)) \in Int
    BY <1>1 DEF BeforeYear, MarchYear, BeforeMonth, MarchMonth
  <2>5. IsDate(next)
    BY <1>1, <1>2, <2>1, <2>2 DEF IsDate
  <2> QED
    BY <1>1, <2>1, <2>3, <2>4, <2>5
<1>3. CASE ~(d.day < DaysIn(d.year, d.month)) /\ d.month < 12
  <2>1. next = [year |-> d.year, month |-> d.month + 1, day |-> 1]
    BY <1>1, <1>3 DEF Tomorrow
  <2>2. IsDate(next)
    BY <1>1, <1>3, <2>1 DEF IsDate, DaysIn
  <2>3. d.day = DaysIn(d.year, d.month)
    <3>1. DaysIn(d.year, d.month) \in Int
      BY DEF DaysIn
    <3> QED
      BY <1>1, <1>3, <3>1
  <2>4. CASE d.month = 2
    <3>1. BeforeYear(d.year) = BeforeYear(d.year - 1) + (IF Leap(d.year) THEN 366 ELSE 365)
          /\ BeforeYear(d.year - 1) \in Int
      BY <1>1, YearsFollow DEF BeforeYear
    <3>2. MarchYear(d) = d.year - 1 /\ MarchMonth(d) = 11 /\ BeforeMonth(11) = 337
      BY <1>1, <2>4 DEF MarchYear, MarchMonth, BeforeMonth
    <3>3. MarchYear(next) = d.year /\ MarchMonth(next) = 0 /\ BeforeMonth(0) = 0
      BY <1>1, <2>1, <2>4 DEF MarchYear, MarchMonth, BeforeMonth
    <3>4. d.day = (IF Leap(d.year) THEN 29 ELSE 28) /\ next.day = 1
      BY <2>1, <2>3, <2>4 DEF DaysIn
    <3> QED
      BY <2>2, <3>1, <3>2, <3>3, <3>4
  <2>5. CASE d.month # 2
    <3>1. /\ MarchMonth(d) \in Nat
          /\ BeforeMonth(MarchMonth(d) + 1) = BeforeMonth(MarchMonth(d)) + DaysIn(d.year, d.month)
      BY <1>1, <2>5, MonthsFollow DEF MarchMonth
    <3>2. MarchYear(next) = MarchYear(d) /\ MarchMonth(next) = MarchMonth(d) + 1
      BY <1>1, <1>3, <2>1, <2>5 DEF MarchYear, MarchMonth
    <3>3. BeforeYear(MarchYear(d)) \in Int /\ BeforeMonth(MarchMonth(d)) \in Int
      BY <1>1 DEF BeforeYear, MarchYear, BeforeMonth, MarchMonth
    <3> QED
      BY <1>1, <2>1, <2>2, <2>3, <3>1, <3>2, <3>3
  <2> QED
    BY <2>4, <2>5
<1>4. CASE ~(d.day < DaysIn(d.year, d.month)) /\ ~(d.month < 12)
  <2>1. next = [year |-> d.year + 1, month |-> 1, day |-> 1]
    BY <1>1, <1>4 DEF Tomorrow
  <2>2. IsDate(next)
    BY <1>1, <2>1 DEF IsDate, DaysIn
  <2>3. d.month = 12 /\ d.day = 31
    BY <1>1, <1>4 DEF DaysIn
  <2>4. MarchYear(d) = d.year /\ MarchMonth(d) = 9 /\ BeforeMonth(9) = 275
    BY <2>3 DEF MarchYear, MarchMonth, BeforeMonth
  <2>5. MarchYear(next) = d.year /\ MarchMonth(next) = 10 /\ BeforeMonth(10) = 306
    BY <1>1, <2>1 DEF MarchYear, MarchMonth, BeforeMonth
  <2>6. BeforeYear(d.year) \in Int
    BY <1>1 DEF BeforeYear
  <2> QED
    BY <2>1, <2>2, <2>3, <2>4, <2>5, <2>6
<1> QED
  BY <1>2, <1>3, <1>4

LEMMA ClockStart == ClockAssumption /\ ClockInit => ClockInv
<1> SUFFICES ASSUME ClockAssumption, ClockInit PROVE ClockInv
  OBVIOUS
<1>1. PICK y \in Years :
         /\ days = 365 * (y - 1970) + LeapYearsBefore(y) - LeapYearsBefore(1970)
         /\ date = [year |-> y, month |-> 1, day |-> 1]
  BY DEF ClockInit
<1>2. y \in Nat /\ y >= 1970 /\ seconds \in TimeOfDay
  <2>1. seconds \in Seconds
    BY DEF ClockInit
  <2>2. /\ \A x \in Years : x \in Nat /\ x >= 1970
        /\ Seconds \subseteq TimeOfDay
    BY DEF ClockAssumption
  <2> QED
    BY <2>1, <2>2
<1>3. IsDate(date)
  BY <1>1, <1>2 DEF IsDate, DaysIn
<1>4. MarchYear(date) = y - 1 /\ MarchMonth(date) = 10 /\ BeforeMonth(10) = 306
      /\ date.day = 1
  BY <1>1, <1>2 DEF MarchYear, MarchMonth, BeforeMonth
<1>5. LeapYearsBefore(1970) = 477
  BY DEF LeapYearsBefore
<1>6. BeforeYear(y - 1) = 365 * (y - 1) + LeapYearsBefore(y)
      /\ LeapYearsBefore(y) \in Int /\ LeapYearsBefore(y) >= 477
  BY <1>2 DEF BeforeYear, LeapYearsBefore
<1>7. days = 365 * (y - 1970) + LeapYearsBefore(y) - 477
  BY ONLY <1>1, <1>5
<1>8. days \in Nat
  BY ONLY <1>2, <1>6, <1>7
<1>9. SinceMarch(days) = BeforeYear(y - 1) + 306 + 1 - 1
  <2> DEFINE leaps == LeapYearsBefore(y)
  <2>1. leaps \in Int /\ days = 365 * (y - 1970) + leaps - 477
        /\ BeforeYear(y - 1) = 365 * (y - 1) + leaps
    BY <1>6, <1>7
  <2> HIDE DEF leaps
  <2> QED
    BY ONLY <1>2, <2>1 DEF SinceMarch
<1> QED
  BY <1>2, <1>3, <1>4, <1>8, <1>9 DEF ClockInv

\* WritesTheCalendar, for a clock that starts in any year and runs for any
\* number of days: the date and time of day of a record are the calendar's
\* (civil_from_days, timestamp).
THEOREM ClockIsCalendar ==
    ASSUME ClockAssumption
    PROVE  ClockSpec => []WritesTheCalendar
<1>1. ClockInv /\ [NextDay]_clockVars => ClockInv'
  <2> SUFFICES ASSUME ClockInv, [NextDay]_clockVars PROVE ClockInv'
    OBVIOUS
  <2>1. CASE NextDay
    <3>1. days' = days + 1 /\ date' = Tomorrow(date) /\ seconds' = seconds
      BY <2>1 DEF NextDay
    <3>2. /\ IsDate(date')
          /\ BeforeYear(MarchYear(date')) + BeforeMonth(MarchMonth(date')) + date'.day
               = BeforeYear(MarchYear(date)) + BeforeMonth(MarchMonth(date)) + date.day + 1
      BY <3>1, TomorrowCounts DEF ClockInv
    <3>3. \A d : IsDate(d) =>
             /\ BeforeYear(MarchYear(d)) + BeforeMonth(MarchMonth(d)) \in Int
             /\ d.day \in Int
      BY DEF IsDate, BeforeYear, MarchYear, BeforeMonth, MarchMonth
    <3>4. days' \in Nat /\ SinceMarch(days') = SinceMarch(days) + 1
          /\ SinceMarch(days) \in Int
      BY <3>1 DEF ClockInv, SinceMarch
    <3>5. /\ BeforeYear(MarchYear(date)) + BeforeMonth(MarchMonth(date)) \in Int
          /\ BeforeYear(MarchYear(date')) + BeforeMonth(MarchMonth(date')) \in Int
          /\ date.day \in Int /\ date'.day \in Int
      BY <3>2, <3>3 DEF ClockInv
    <3>6. SinceMarch(days') =
            BeforeYear(MarchYear(date')) + BeforeMonth(MarchMonth(date')) + date'.day - 1
      BY <3>2, <3>4, <3>5 DEF ClockInv
    <3> QED
      BY <3>1, <3>2, <3>4, <3>6 DEF ClockInv
  <2>2. CASE UNCHANGED clockVars
    BY <2>2 DEF clockVars, ClockInv
  <2> QED
    BY <2>1, <2>2
<1>2. ClockInv => WritesTheCalendar
  <2> SUFFICES ASSUME ClockInv PROVE WritesTheCalendar
    OBVIOUS
  <2>1. Civil(days) = date
    BY CivilInverts DEF ClockInv
  <2> DEFINE hour == seconds \div 3600
             rest == seconds % 3600
             minute == rest \div 60
             second == seconds % 60
  <2>2. Written(days, seconds) =
          [date |-> Civil(days), hour |-> hour, minute |-> minute, second |-> second]
    BY DEF Written
  <2>3. seconds \in Int /\ 0 <= seconds /\ seconds < 86400
    BY DEF ClockInv, TimeOfDay
  <2>4. /\ hour \in Int /\ hour < 24 /\ seconds = 3600 * hour + rest
        /\ rest \in Int /\ 0 <= rest /\ rest < 3600
    BY ONLY <2>3
  <2>5. second = rest % 60
    BY ONLY <2>3
  <2> HIDE DEF hour, rest, second
  <2>6. minute \in Int /\ minute < 60 /\ rest = 60 * minute + (rest % 60) /\ rest % 60 \in Int
    BY ONLY <2>4
  <2> HIDE DEF minute
  <2>7. hour * 3600 + minute * 60 + second = seconds
    BY ONLY <2>4, <2>5, <2>6
  <2> QED
    BY <2>1, <2>2, <2>4, <2>6, <2>7 DEF WritesTheCalendar
<1> QED
  BY <1>1, <1>2, ClockStart, PTL DEF ClockSpec
-----------------------------------------------------------------------------
(***************************************************************************)
(* The deny probes of doctor.                                              *)
(***************************************************************************)

\* What the last probe has said stands: nobody is left to make it wrong.
Stands ==
    LET verdict == results[Len(results)]
    IN  /\ verdict = "Passed" => Over /\ Denied /\ ~kept
        /\ verdict = "Failed" =>
              \/ ~Running /\ age >= Timeout /\ eof
              \/ Over /\ child # "killed" /\ ~Denied /\ ~kept
        /\ Running => verdict = "Unavailable"

ProbeTypes ==
    /\ results \in Seq({"Passed", "Failed", "Unavailable"})
    /\ printed \in [DOMAIN NoOutput -> Nat]
    /\ age \in Nat
    /\ child \in {"none", "running", "killed"} \cup ExitCodes

ProbeInv ==
    /\ ProbeTypes
    /\ step \in {"spawn", "write", "poll", "look", "collect", "over"}
    /\ step = "spawn" => child = "none"
    /\ step \in {"write", "poll", "look", "collect"} => child \notin {"none", "killed"}
    /\ step \in {"poll", "look", "collect"} => eof
    /\ step = "collect" => Over
    /\ step = "over" /\ child # "none" => Stands
-----------------------------------------------------------------------------
LEMMA ProbeStart == ProbeInit => ProbeInv
<1> SUFFICES ASSUME ProbeInit PROVE ProbeInv
  OBVIOUS
<1>1. ProbeTypes
  BY DEF ProbeInit, ProbeTypes, NoOutput
<1> QED
  BY <1>1 DEF ProbeInit, ProbeInv

\* A verdict is the last of the results.
LEMMA VerdictIsLast ==
    ASSUME ProbeTypes, NEW r \in {"Passed", "Failed", "Unavailable"},
           ProbeReturns(r)
    PROVE  /\ results' \in Seq({"Passed", "Failed", "Unavailable"})
           /\ results'[Len(results')] = r
           /\ step' = "over"
BY DEF ProbeTypes, ProbeReturns

\* The steps of a probe ...
LEMMA ProbeSteps ==
    ASSUME ProbeAssumption, ProbeInv,
           \/ NoExecutable \/ SpawnFails \/ \E waiting \in BOOLEAN : Spawn(waiting)
           \/ Write \/ PollExited \/ PollRunning \/ Sleep \/ Expire \/ WaitFails
           \/ Collect \/ NextProbe
    PROVE  ProbeInv'
<1>1. ProbeTypes /\ {"Passed", "Failed", "Unavailable"} # {}
  BY DEF ProbeInv
<1>2. CASE NoExecutable
  <2>1. results' \in Seq({"Passed", "Failed", "Unavailable"})
    BY <1>2 DEF NoExecutable
  <2>2. child = "none" /\ step' = "over" /\ UNCHANGED <<child, eof, printed, kept, age>>
    BY <1>2 DEF NoExecutable, command, ProbeInv
  <2> QED
    BY <1>1, <2>1, <2>2 DEF ProbeInv, ProbeTypes
<1>3. CASE SpawnFails
  <2>1. child = "none" /\ UNCHANGED <<child, eof, printed, kept, age>>
    BY <1>3 DEF SpawnFails, command, ProbeInv
  <2>2. step' = "over" /\ results' \in Seq({"Passed", "Failed", "Unavailable"})
    BY <1>1, <1>3, VerdictIsLast DEF SpawnFails
  <2> QED
    BY <1>1, <2>1, <2>2 DEF ProbeInv, ProbeTypes
<1>4. CASE \E waiting \in BOOLEAN : Spawn(waiting)
  BY <1>1, <1>4 DEF Spawn, ProbeInv, ProbeTypes
<1>5. CASE Write
  BY <1>1, <1>5 DEF Write, HandleDropped, ProbeInv, ProbeTypes
<1>6. CASE PollExited \/ PollRunning \/ Sleep
  BY <1>1, <1>6
     DEF PollExited, PollRunning, Sleep, command, ProbeInv, ProbeTypes, Over
<1>7. CASE Expire
  <2>1. step = "look" /\ age >= Timeout /\ eof /\ child \notin {"none", "killed"}
    BY <1>7 DEF Expire, ProbeInv
  <2>2. /\ results' \in Seq({"Passed", "Failed", "Unavailable"})
        /\ results'[Len(results')] = "Failed" /\ step' = "over"
    BY <1>1, <1>7, VerdictIsLast DEF Expire
  <2>3. /\ child' = IF child = "running" THEN "killed" ELSE child
        /\ UNCHANGED <<eof, printed, age>>
    BY <1>7 DEF Expire, Running
  <2>4. Stands'
    BY <2>1, <2>2, <2>3 DEF Stands, Running
  <2> QED
    BY <1>1, <2>1, <2>2, <2>3, <2>4 DEF ProbeInv, ProbeTypes
<1>8. CASE WaitFails
  <2>1. /\ results' \in Seq({"Passed", "Failed", "Unavailable"})
        /\ results'[Len(results')] = "Unavailable" /\ step' = "over"
    BY <1>1, <1>8, VerdictIsLast DEF WaitFails
  <2>2. UNCHANGED <<child, eof, printed, kept, age>>
    BY <1>8 DEF WaitFails, command
  <2>3. Stands'
    BY <2>1 DEF Stands
  <2> QED
    BY <1>1, <2>1, <2>2, <2>3 DEF ProbeInv, ProbeTypes
<1>9. CASE Collect
  <2>1. Over /\ ~kept /\ child # "killed" /\ UNCHANGED <<child, eof, printed, kept, age>>
    BY <1>9 DEF Collect, command, ProbeInv
  <2>2. /\ results' \in Seq({"Passed", "Failed", "Unavailable"})
        /\ results'[Len(results')] = (IF Denied THEN "Passed" ELSE "Failed")
        /\ step' = "over"
    BY <1>1, <1>9, VerdictIsLast DEF Collect
  <2>3. (Denied' <=> Denied) /\ Over' /\ ~Running'
    BY <2>1 DEF Denied, Over, Running
  <2>4. Stands'
    BY <2>1, <2>2, <2>3 DEF Stands
  <2> QED
    BY <1>1, <2>1, <2>2, <2>4 DEF ProbeInv, ProbeTypes
<1>10. CASE NextProbe
  <2>1. printed' \in [DOMAIN NoOutput -> Nat]
    BY <1>10 DEF NextProbe, NoOutput
  <2> QED
    BY <1>1, <1>10, <2>1 DEF NextProbe, ProbeInv, ProbeTypes
<1> QED
  BY <1>2, <1>3, <1>4, <1>5, <1>6, <1>7, <1>8, <1>9, <1>10

\* ... and those of the command and of time.
LEMMA CommandSteps ==
    ASSUME ProbeAssumption, ProbeInv,
           \/ \E pipe \in DOMAIN NoOutput : WriteTo(pipe)
           \/ \E code \in ExitCodes : ExitWith(code)
           \/ LeaveBehind \/ LetGo \/ Tick
    PROVE  ProbeInv'
<1>1. ProbeTypes /\ UNCHANGED <<results, step>>
  BY DEF ProbeInv, WriteTo, ExitWith, LeaveBehind, LetGo, Tick, probe
<1>2. CASE \E pipe \in DOMAIN NoOutput : WriteTo(pipe)
  <2>1. PICK pipe \in DOMAIN NoOutput : WriteTo(pipe)
    BY <1>2
  <2>2. printed' \in [DOMAIN NoOutput -> Nat]
    <3>1. printed[pipe] + 1 \in Nat
      BY <1>1 DEF ProbeTypes
    <3> QED
      BY <1>1, <2>1, <3>1 DEF WriteTo, ProbeTypes
  <2>3. UNCHANGED <<child, eof, kept, age>> /\ (Running \/ kept)
    BY <2>1 DEF WriteTo, Awake
  <2>4. Stands => Stands'
    BY <1>1, <2>3 DEF Stands, Running, Over
  <2> QED
    BY <1>1, <2>2, <2>3, <2>4 DEF ProbeInv, ProbeTypes, Over
<1>3. CASE \E code \in ExitCodes : ExitWith(code)
  <2>1. PICK code \in ExitCodes : ExitWith(code)
    BY <1>3
  <2>2. /\ child = "running" /\ child' = code /\ UNCHANGED <<eof, printed, kept, age>>
        /\ code \notin {"none", "running", "killed"}
    BY <2>1 DEF ExitWith, Awake, Running, ProbeAssumption
  <2>3. Stands => Stands'
    BY <1>1, <2>2 DEF Stands, Running, Over
  <2> QED
    BY <1>1, <2>2, <2>3 DEF ProbeInv, ProbeTypes, Over
<1>4. CASE LeaveBehind
  <2>1. Running /\ UNCHANGED <<child, eof, printed, age>>
    BY <1>4 DEF LeaveBehind, Awake
  <2>2. Stands => Stands'
    BY <1>1, <2>1 DEF Stands, Running, Over
  <2> QED
    BY <1>1, <2>1, <2>2 DEF ProbeInv, ProbeTypes, Over
<1>5. CASE LetGo
  <2>1. UNCHANGED <<child, eof, printed, age>> /\ kept
    BY <1>5 DEF LetGo
  <2>2. Stands => Stands'
    BY <1>1, <2>1 DEF Stands, Running, Over
  <2> QED
    BY <1>1, <2>1, <2>2 DEF ProbeInv, ProbeTypes, Over
<1>6. CASE Tick
  <2>1. UNCHANGED <<child, eof, printed, kept>> /\ age' \in Nat /\ step # "over"
    BY <1>1, <1>6 DEF Tick, command, ProbeTypes
  <2> QED
    BY <1>1, <2>1 DEF ProbeInv, ProbeTypes, Over
<1> QED
  BY <1>2, <1>3, <1>4, <1>5, <1>6

\* ProbesTellTheTruth, for any timeout and any program under the name of the
\* command: a probe that says it passed has seen a denial nobody can take back,
\* and one that says it failed has not, or not in time (probe_denies).
THEOREM ProbesTruthful ==
    ASSUME ProbeAssumption
    PROVE  ProbeSpec => []ProbesTellTheTruth
<1>1. ProbeInv /\ [ProbeNext]_probeVars => ProbeInv'
  <2> SUFFICES ASSUME ProbeInv, [ProbeNext]_probeVars PROVE ProbeInv'
    OBVIOUS
  <2>1. CASE UNCHANGED probeVars
    <3>1. UNCHANGED <<results, step, child, waits, eof, printed, kept, age>>
      BY <2>1 DEF probeVars, probe, command
    <3>2. Stands => Stands'
      BY <3>1 DEF Stands, Running, Over, Denied
    <3> QED
      BY <3>1, <3>2 DEF ProbeInv, ProbeTypes, Over
  <2>2. CASE ProbeNext
    BY <2>2, ProbeSteps, CommandSteps DEF ProbeNext
  <2> QED
    BY <2>1, <2>2
<1>2. ProbeInv => ProbesTellTheTruth
  BY DEF ProbeInv, Stands, ProbesTellTheTruth, Denied, Over, Running
<1> QED
  BY <1>1, <1>2, ProbeStart, PTL DEF ProbeSpec

(***************************************************************************)
(* Policy bundles.  The constructors look at segments and dots, the        *)
(* patterns of the contract at pieces that are joined; the first lemmas    *)
(* say that these are the same.                                            *)
(***************************************************************************)

\* A text without dots has itself for its only segment.
LEMMA OneSegment ==
    ASSUME NEW t \in ContractTexts, Dots(t) = {}
    PROVE  Segments(t) = {t}
<1> DEFINE whole == <<0, Len(t) + 1>>
<1>1. Len(t) \in Nat /\ t \in Seq(Characters)
  BY DEF ContractTexts
<1>2. Bounds(t) = {0, Len(t) + 1}
  BY DEF Bounds
<1>3. Adjacent(Bounds(t)) = {whole}
  BY <1>1, <1>2 DEF Adjacent
<1>4. Span(t, whole) = t
  BY <1>1 DEF Span
<1> HIDE DEF whole
<1> QED
  BY <1>3, <1>4 DEF Segments

\* What is behind the last dot is one segment more than the text before it has.
BehindDot(t, k, f, s) ==
    /\ k \in DOMAIN t /\ t[k] = "."
    /\ f = SubSeq(t, 1, k - 1) /\ s = SubSeq(t, k + 1, Len(t))

LEMMA LastSegment ==
    ASSUME NEW t \in ContractTexts, NEW k, NEW f, NEW s, BehindDot(t, k, f, s),
           Dots(s) = {}
    PROVE  /\ f \in ContractTexts /\ s \in ContractTexts
           /\ Segments(t) = Segments(f) \cup {s}
           /\ Dots(t) = Dots(f) \cup {k} /\ k \notin Dots(f)
<1> DEFINE last == <<k, Len(t) + 1>>
           C == Bounds(f)
           D == Bounds(t)
<1>1. /\ Len(t) \in Nat /\ t \in Seq(Characters) /\ DOMAIN t = 1..Len(t)
      /\ k \in 1..Len(t) /\ t[k] = "."
      /\ f = SubSeq(t, 1, k - 1) /\ s = SubSeq(t, k + 1, Len(t))
  BY DEF ContractTexts, BehindDot
<1>2. /\ f \in Seq(Characters) /\ Len(f) = k - 1 /\ \A i \in 1..(k - 1) : f[i] = t[i]
      /\ DOMAIN f = 1..(k - 1)
  BY <1>1
<1>3. /\ s \in Seq(Characters) /\ Len(s) = Len(t) - k /\ DOMAIN s = 1..(Len(t) - k)
      /\ \A i \in 1..(Len(t) - k) : s[i] = t[k + i]
  <2>1. s \in Seq(Characters) /\ Len(s) = Len(t) - k /\ DOMAIN s = 1..(Len(t) - k)
    <3> DEFINE m == k + 1
               n == Len(t)
    <3>1. m \in Int /\ n \in Int /\ \A i \in m..n : t[i] \in Characters
      BY <1>1
    <3>2. s = SubSeq(t, m, n)
      BY <1>1
    <3> HIDE DEF m, n
    <3>3. s \in Seq(Characters) /\ Len(s) = IF m <= n THEN n - m + 1 ELSE 0
      BY ONLY <3>1, <3>2, SubSeqProperties
    <3>4. Len(s) = Len(t) - k
      <4>1. \A a \in Nat : \A b \in 1..a :
              (IF b + 1 <= a THEN a - (b + 1) + 1 ELSE 0) = a - b
        BY SMTT(60)
      <4>2. (IF m <= n THEN n - m + 1 ELSE 0) = Len(t) - k
        BY <1>1, <4>1 DEF m, n
      <4> HIDE DEF m, n
      <4> QED
        BY ONLY <3>3, <4>2
    <3> QED
      BY <3>3, <3>4
  <2>2. \A i \in 1..(Len(t) - k) : s[i] = t[k + 1 + i - 1]
    BY <1>1
  <2>3. \A i \in 1..(Len(t) - k) : k + 1 + i - 1 = k + i
    BY <1>1
  <2> QED
    BY <2>1, <2>2, <2>3
<1>4. \A i \in (k + 1)..Len(t) : t[i] # "."
  <2>1. \A j \in 1..(Len(t) - k) : t[k + j] # "."
    BY <1>3 DEF Dots
  <2> QED
    <3> TAKE i \in (k + 1)..Len(t)
    <3>1. i - k \in 1..(Len(t) - k) /\ k + (i - k) = i
      BY <1>1
    <3> QED
      BY <2>1, <3>1
<1>5. Dots(t) = Dots(f) \cup {k} /\ Dots(f) \subseteq 1..(k - 1)
  BY <1>1, <1>2, <1>4 DEF Dots
<1>6. D = C \cup {Len(t) + 1} /\ C \subseteq 0..k /\ k \in C
  BY <1>1, <1>2, <1>5 DEF Bounds
<1>7. Adjacent(D) = Adjacent(C) \cup {last}
  <2> HIDE DEF C, D
  <2>1. \A c \in D \X D : c \in Adjacent(D) <=> c = last \/ c \in Adjacent(C)
    <3> TAKE c \in D \X D
    <3>1. c = <<c[1], c[2]>> /\ c[1] \in D /\ c[2] \in D
      OBVIOUS
    <3>2. last \in D \X D /\ last[1] = k /\ last[2] = Len(t) + 1
      BY <1>6
    <3>3. c = last <=> c[1] = k /\ c[2] = Len(t) + 1
      BY <3>1, <3>2
    <3>4. Len(t) + 1 > k /\ Len(t) \in Nat /\ k \in Nat
      BY <1>1
    <3>5. c \in Adjacent(D) <=>
            c[1] < c[2] /\ (\A m \in C : m <= c[1] \/ m >= c[2])
                        /\ (Len(t) + 1 <= c[1] \/ Len(t) + 1 >= c[2])
      BY <1>6 DEF Adjacent
    <3>6. c \in Adjacent(C) <=>
            c[1] \in C /\ c[2] \in C /\ c[1] < c[2]
              /\ \A m \in C : m <= c[1] \/ m >= c[2]
      BY <3>1 DEF Adjacent
    <3>7. \A m \in C : m \in Int /\ m <= k
      BY <1>6, <3>4
    <3>8. c[1] \in C \cup {Len(t) + 1} /\ c[2] \in C \cup {Len(t) + 1} /\ k \in C
      BY <1>6, <3>1
    <3> HIDE DEF last
    <3>9. CASE c[2] = Len(t) + 1
      <4>1. c \notin Adjacent(C)
        BY <3>4, <3>6, <3>7, <3>9
      <4>2. c[1] = Len(t) + 1 => c \notin Adjacent(D)
        BY <3>4, <3>5, <3>9
      <4>3. c[1] \in C => (c \in Adjacent(D) <=> c[1] = k)
        <5>1. c[1] \in C => c[1] \in Int /\ c[1] <= k
          BY <3>7
        <5> QED
          BY <3>4, <3>5, <3>7, <3>8, <3>9, <5>1
      <4> QED
        BY <3>3, <3>4, <3>7, <3>8, <3>9, <4>1, <4>2, <4>3
    <3>10. CASE c[2] # Len(t) + 1
      <4>1. c[2] \in C /\ c[2] \in Int /\ c[2] <= k /\ c # last
        BY <3>3, <3>7, <3>8, <3>10
      <4>2. CASE c[1] \in C
        BY <3>4, <3>5, <3>6, <3>7, <4>1, <4>2
      <4>3. CASE c[1] = Len(t) + 1
        BY <3>4, <3>5, <3>6, <3>7, <4>1, <4>3
      <4> QED
        BY <3>8, <4>2, <4>3
    <3> QED
      BY <3>9, <3>10
  <2>2. last \in D \X D /\ Adjacent(C) \subseteq D \X D /\ Adjacent(D) \subseteq D \X D
    BY <1>6 DEF Adjacent
  <2> QED
    BY <2>1, <2>2
<1>8. \A c \in Adjacent(C) : Span(t, c) = Span(f, c)
  <2> TAKE c \in Adjacent(C)
  <2> DEFINE a == c[1] + 1
             b == c[2] - 1
  <2>1. c[1] \in 0..k /\ c[2] \in 0..k
    BY <1>6 DEF Adjacent
  <2>2. a \in 1..(k + 1) /\ b \in -1..(k - 1)
    <3>1. \A x, y \in 0..k : x + 1 \in 1..(k + 1) /\ y - 1 \in -1..(k - 1)
      BY <1>1
    <3> QED
      BY <2>1, <3>1
  <2> HIDE DEF a, b
  <2>3. SubSeq(t, a, b) = SubSeq(f, a, b)
    BY <1>1, <1>2, <2>2
  <2> QED
    BY <2>3 DEF Span, a, b
<1>9. Span(t, last) = s
  BY <1>1 DEF Span
<1>10. Segments(t) = Segments(f) \cup {s}
  <2> HIDE DEF C, D, last
  <2>1. /\ Segments(t) = {Span(t, c) : c \in Adjacent(D)}
        /\ Segments(f) = {Span(f, c) : c \in Adjacent(C)}
    BY DEF Segments, C, D
  <2> QED
    BY <1>7, <1>8, <1>9, <2>1
<1> QED
  BY <1>2, <1>3, <1>5, <1>10 DEF ContractTexts

\* A piece with a dot in front of s, and a text that has it behind f.
DottedPiece(p, s) == p \in ContractTexts /\ p # <<>> /\ p[1] = "." /\ Tail(p) = s

LEMMA DotBetween ==
    ASSUME NEW f \in ContractTexts, NEW s, NEW p, DottedPiece(p, s)
    PROVE  f \o p \in ContractTexts /\ BehindDot(f \o p, Len(f) + 1, f, s)
<1> DEFINE t == f \o p
           n == Len(f)
<1>1. /\ f \in Seq(Characters) /\ p \in Seq(Characters) /\ p # <<>> /\ p[1] = "."
      /\ Len(f) \in Nat /\ Len(p) \in Nat /\ Len(p) > 0
  BY DEF ContractTexts, DottedPiece
<1>2. /\ t \in Seq(Characters) /\ Len(t) = n + Len(p)
      /\ \A i \in 1..Len(t) : t[i] = IF i <= n THEN f[i] ELSE p[i - n]
  BY <1>1, ConcatProperties
<1>3. n + 1 \in DOMAIN t /\ t[n + 1] = "."
  BY <1>1, <1>2
<1>4. f = SubSeq(t, 1, n)
  BY <1>1, <1>2
<1>5. s = SubSeq(t, n + 2, Len(t))
  <2>1. /\ s \in Seq(Characters) /\ Len(s) = Len(p) - 1
        /\ \A i \in 1..Len(s) : s[i] = p[i + 1]
    BY <1>1, HeadTailProperties DEF DottedPiece
  <2>2. \A i \in 1..Len(s) : t[n + 2 + i - 1] = p[i + 1]
    <3> TAKE i \in 1..Len(s)
    <3> DEFINE j == n + 2 + i - 1
    <3>1. j \in 1..Len(t) /\ ~(j <= n) /\ j - n = i + 1
      BY <1>1, <1>2, <2>1
    <3> QED
      BY <1>2, <3>1
  <2>3. \A i \in (n + 2)..Len(t) : t[i] \in Characters
    BY <1>1, <1>2
  <2> DEFINE m == n + 2
             l == Len(t)
             b == SubSeq(t, m, l)
  <2>4. m \in Int /\ l \in Int /\ \A i \in m..l : t[i] \in Characters
    BY <1>1, <1>2, <2>3
  <2>5. l - m + 1 = Len(s) /\ (IF m <= l THEN l - m + 1 ELSE 0) = Len(s)
    BY <1>1, <1>2, <2>1
  <2>6. \A i \in 1..Len(s) : t[m + i - 1] = s[i]
    BY <2>1, <2>2
  <2> HIDE DEF m, l
  <2>7. b \in Seq(Characters) /\ Len(b) = Len(s) /\ \A i \in 1..Len(s) : b[i] = s[i]
    <3>1. /\ b \in Seq(Characters) /\ Len(b) = IF m <= l THEN l - m + 1 ELSE 0
          /\ \A i \in 1..(l - m + 1) : b[i] = t[m + i - 1]
      <4> HIDE DEF t
      <4> QED
        BY ONLY <2>4, SubSeqProperties
    <3> HIDE DEF b
    <3> QED
      BY <2>5, <2>6, <3>1
  <2> HIDE DEF b
  <2>8. b = s
    BY <2>1, <2>7, SeqEqual
  <2> QED
    BY <2>8 DEF b, m, l
<1>6. n + 1 - 1 = n /\ n + 1 + 1 = n + 2
  BY <1>1
<1> QED
  BY <1>2, <1>3, <1>4, <1>5, <1>6 DEF BehindDot, ContractTexts

LEMMA DotFound ==
    ASSUME NEW t \in ContractTexts, NEW k, NEW f, NEW s, BehindDot(t, k, f, s)
    PROVE  \E p : DottedPiece(p, s) /\ t = f \o p
<1> DEFINE p == SubSeq(t, k, Len(t))
<1>1. /\ Len(t) \in Nat /\ t \in Seq(Characters) /\ DOMAIN t = 1..Len(t)
      /\ k \in 1..Len(t) /\ t[k] = "."
      /\ f = SubSeq(t, 1, k - 1) /\ s = SubSeq(t, k + 1, Len(t))
  BY DEF ContractTexts, BehindDot
<1>2. t = f \o p
  <2> DEFINE j == k - 1
             n == Len(t)
  <2>1. j \in 0..n /\ n \in j..n /\ 1 \in 1..(n + 1) /\ 1 - 1 = 0 /\ j + 1 = k /\ n \in Nat
    BY <1>1
  <2>2. j \in (1 - 1)..n
    BY <2>1
  <2> HIDE DEF j, n
  <2>3. SubSeq(t, 1, j) \o SubSeq(t, j + 1, n) = SubSeq(t, 1, n)
    BY Zenon, <1>1, <2>1, <2>2, ConcatAdjacentSubSeq DEF n
  <2>4. SubSeq(t, 1, n) = t
    BY <1>1, SubSeqFull DEF n
  <2>5. f = SubSeq(t, 1, j) /\ p = SubSeq(t, j + 1, n)
    BY <1>1, <2>1 DEF j, n
  <2> QED
    BY Zenon, <2>3, <2>4, <2>5
<1>3. p \in Seq(Characters) /\ Len(p) = Len(t) - k + 1 /\ p[1] = "."
  BY <1>1
<1>4. Tail(p) = s
  BY <1>1, HeadTailOfSubSeq
<1>5. p # <<>>
  <2> HIDE DEF p
  <2>1. Len(p) > 0
    BY <1>1, <1>3
  <2> QED
    BY <2>1
<1> QED
  BY <1>2, <1>3, <1>4, <1>5 DEF DottedPiece, ContractTexts

-----------------------------------------------------------------------------
\* The pieces Joined asks for, whatever their number.
DotFree(Legal) ==
    \A s \in Legal : s \in ContractTexts /\ s # <<>> /\ Dots(s) = {}
Pieces(Legal) == Legal \cup Dotted(Legal)
Leads(Legal, pieces) ==
    /\ pieces # <<>> /\ pieces[1] \in Legal
    /\ \A k \in 2..Len(pieces) : pieces[k] \in Dotted(Legal)
Makes(text, Legal, pieces) ==
    /\ pieces \in Seq(Pieces(Legal)) /\ Leads(Legal, pieces)
    /\ FlattenSeq(pieces) = text
\* Their number and what they are, from the text.
OfSegments(text, Legal, n) ==
    /\ Segments(text) \subseteq Legal
    /\ IsFiniteSet(Dots(text)) /\ Cardinality(Dots(text)) + 1 = n

LEMMA PiecesType ==
    ASSUME NEW Legal, DotFree(Legal)
    PROVE  /\ Pieces(Legal) \in SUBSET Seq(Characters) /\ <<>> \notin Pieces(Legal)
           /\ Pieces(Legal) \ {<<>>} = Pieces(Legal)
<1>1. \A s \in Legal : s \in Seq(Characters) /\ s # <<>>
  BY DEF DotFree, ContractTexts
<1>2. \A s \in Dotted(Legal) : s \in Seq(Characters) /\ s # <<>>
  BY DEF Dotted, ContractTexts
<1> QED
  BY <1>1, <1>2 DEF Pieces

\* One piece is a text without dots.
LEMMA OnePiece ==
    ASSUME NEW Legal, DotFree(Legal), NEW s \in Legal
    PROVE  Makes(s, Legal, <<s>>) /\ OfSegments(s, Legal, 1)
<1>1. s \in ContractTexts /\ s \in Seq(Characters) /\ Dots(s) = {} /\ s \in Pieces(Legal)
  BY DEF DotFree, ContractTexts, Pieces
<1>2. Segments(s) = {s}
  BY <1>1, OneSegment
<1>3. FlattenSeq(<<s>>) = s
  BY <1>1, FlattenOne
<1>4. OfSegments(s, Legal, 1)
  BY <1>1, <1>2, FS_EmptySet DEF OfSegments
<1>5. Leads(Legal, <<s>>) /\ <<s>> \in Seq(Pieces(Legal))
  BY <1>1 DEF Leads
<1> QED
  BY <1>3, <1>4, <1>5 DEF Makes

\* One more piece is one more dot and one more segment.
LEMMA OneMorePiece ==
    ASSUME NEW Legal, DotFree(Legal), NEW f \in ContractTexts, NEW s \in Legal,
           NEW p, DottedPiece(p, s), NEW n \in Nat
    PROVE  OfSegments(f, Legal, n) <=> OfSegments(f \o p, Legal, n + 1)
<1> DEFINE t == f \o p
           k == Len(f) + 1
<1>1. t \in ContractTexts /\ BehindDot(t, k, f, s)
  BY DotBetween
<1>2. s \in ContractTexts /\ Dots(s) = {}
  BY DEF DotFree
<1> HIDE DEF t, k
<1>3. /\ Segments(t) = Segments(f) \cup {s}
      /\ Dots(t) = Dots(f) \cup {k} /\ k \notin Dots(f)
  BY <1>1, <1>2, LastSegment
<1>4. IsFiniteSet(Dots(t)) <=> IsFiniteSet(Dots(f))
  <2>1. Dots(f) \subseteq Dots(t)
    BY <1>3
  <2> QED
    BY <1>3, <2>1, FS_AddElement, FS_Subset
<1>5. IsFiniteSet(Dots(f)) =>
        Cardinality(Dots(f)) \in Nat /\ Cardinality(Dots(t)) = Cardinality(Dots(f)) + 1
  BY <1>3, FS_AddElement, FS_CardinalityType
<1>6. Segments(t) \subseteq Legal <=> Segments(f) \subseteq Legal
  BY <1>3
<1>7. OfSegments(f, Legal, n) <=> OfSegments(t, Legal, n + 1)
  BY <1>4, <1>5, <1>6 DEF OfSegments
<1> QED
  BY <1>7 DEF t

\* A piece with a dot in front of a legal one is one of the pieces.
LEMMA DottedIsPiece ==
    ASSUME NEW Legal, NEW p
    PROVE  p \in Dotted(Legal) <=> \E s \in Legal : DottedPiece(p, s)
BY DEF Dotted, DottedPiece

\* Several pieces are all but the last, and the last with its dot.
MadeOf(t, Legal, pieces, before, f, p) ==
    /\ pieces = Append(before, p) /\ Makes(f, Legal, before)
    /\ f \in ContractTexts /\ p \in Dotted(Legal) /\ t = f \o p

LEMMA LastMade ==
    ASSUME NEW Legal, DotFree(Legal), NEW t, NEW pieces, Makes(t, Legal, pieces),
           Len(pieces) # 1
    PROVE  \E before, f, p : MadeOf(t, Legal, pieces, before, f, p)
<1> DEFINE P == Pieces(Legal)
<1>1. P \subseteq Seq(Characters) \ {<<>>} /\ pieces \in Seq(P) /\ pieces # <<>>
  BY PiecesType DEF Makes, Leads
<1> HIDE DEF P
<1>2. LastOf(Characters, P, pieces)
  BY <1>1, LastPiece
<1>3. PICK before \in Seq(P), p \in P :
        /\ pieces = Append(before, p)
        /\ FlattenSeq(before) \in Seq(Characters)
        /\ FlattenSeq(pieces) = FlattenSeq(before) \o p
  BY <1>2 DEF LastOf
<1>4. /\ Len(before) \in Nat /\ Len(pieces) = Len(before) + 1
      /\ \A i \in 1..Len(before) : pieces[i] = before[i]
      /\ pieces[Len(before) + 1] = p
  BY <1>3, AppendProperties, LenProperties
<1>5. Len(before) \in Nat \ {0} /\ Len(pieces) \in 2..Len(pieces)
  BY <1>4
<1>6. p \in Dotted(Legal)
  BY <1>4, <1>5 DEF Makes, Leads
<1>7. Leads(Legal, before)
  BY <1>4, <1>5 DEF Makes, Leads
<1>8. Makes(FlattenSeq(before), Legal, before)
  BY <1>3, <1>7 DEF Makes, P
<1>9. t = FlattenSeq(before) \o p
  BY <1>3 DEF Makes
<1> QED
  BY <1>3, <1>6, <1>8, <1>9 DEF MadeOf, ContractTexts

LEMMA OneMoreMade ==
    ASSUME NEW Legal, DotFree(Legal), NEW f, NEW before, Makes(f, Legal, before),
           NEW p \in Dotted(Legal)
    PROVE  Makes(f \o p, Legal, Append(before, p))
<1> DEFINE P == Pieces(Legal)
           more == Append(before, p)
<1>1. P \in SUBSET Seq(Characters) /\ before \in Seq(P) /\ p \in P
  BY PiecesType DEF Makes, Pieces
<1> HIDE DEF P
<1>2. before \in Seq(Seq(Characters)) /\ p \in Seq(Characters)
  BY <1>1, SeqMonotonic
<1>3. FlattenSeq(more) = f \o p
  BY <1>2, FlattenAppend DEF Makes
<1>4. /\ more \in Seq(P) /\ more # <<>> /\ Len(more) = Len(before) + 1
      /\ \A i \in 1..Len(before) : more[i] = before[i]
      /\ more[Len(before) + 1] = p
  BY <1>1, AppendProperties
<1>5. Len(before) \in Nat \ {0}
  <2>1. before # <<>>
    BY DEF Makes, Leads
  <2> QED
    BY <1>1, <2>1
<1> HIDE DEF more
<1>6. Leads(Legal, more)
  <2>1. more[1] \in Legal
    BY <1>4, <1>5 DEF Makes, Leads
  <2>2. ASSUME NEW k \in 2..Len(more) PROVE more[k] \in Dotted(Legal)
    <3>1. CASE k = Len(before) + 1
      BY <1>4, <3>1
    <3>2. CASE k # Len(before) + 1
      <4>1. k \in 1..Len(before) /\ k \in 2..Len(before)
        BY <1>4, <1>5, <3>2
      <4> QED
        BY <1>4, <4>1 DEF Makes, Leads
    <3> QED
      BY <3>1, <3>2
  <2> QED
    BY <1>4, <2>1, <2>2 DEF Leads
<1>7. Makes(f \o p, Legal, more)
  BY <1>3, <1>4, <1>6 DEF Makes, P
<1> QED
  BY <1>7 DEF more

\* However many the pieces are, they are the segments of the text.
LEMMA PiecesAreSegments ==
    ASSUME NEW Legal, DotFree(Legal), NEW pieces, NEW t, Makes(t, Legal, pieces)
    PROVE  OfSegments(t, Legal, Len(pieces))
<1> DEFINE T == {n \in Nat : \E q, u : /\ Makes(u, Legal, q) /\ Len(q) = n
                                       /\ ~OfSegments(u, Legal, Len(q))}
<1>1. ASSUME T # {} PROVE FALSE
  <2>1. T \in SUBSET Nat
    OBVIOUS
  <2> HIDE DEF T
  <2>2. PICK n \in T : \A m \in T : n <= m
    BY <1>1, <2>1, LeastNumber
  <2>3. PICK q, u : Makes(u, Legal, q) /\ Len(q) = n /\ ~OfSegments(u, Legal, Len(q))
    BY <2>2 DEF T
  <2>4. Len(q) # 1
    <3> SUFFICES ASSUME Len(q) = 1 PROVE FALSE
      OBVIOUS
    <3>1. q \in Seq(Pieces(Legal)) /\ q[1] \in Legal /\ FlattenSeq(q) = u
      BY <2>3 DEF Makes, Leads
    <3>2. q = <<q[1]>>
      BY <3>1
    <3>3. q[1] \in Seq(Characters)
      BY <3>1 DEF DotFree, ContractTexts
    <3>4. FlattenSeq(<<q[1]>>) = q[1]
      BY <3>3, FlattenOne
    <3>5. u = q[1]
      BY <3>1, <3>2, <3>4
    <3>6. OfSegments(q[1], Legal, 1)
      BY <3>1, OnePiece
    <3> QED
      BY <2>3, <3>5, <3>6
  <2>5. PICK before, f, p : MadeOf(u, Legal, q, before, f, p)
    BY <2>3, <2>4, LastMade
  <2>6. before \in Seq(Pieces(Legal)) /\ p \in Pieces(Legal)
    BY <2>5 DEF MadeOf, Makes, Pieces
  <2>7. Len(before) \in Nat /\ Len(q) = Len(before) + 1
    BY <2>5, <2>6, AppendProperties, LenProperties DEF MadeOf
  <2>8. Len(before) \notin T
    BY <2>1, <2>2, <2>3, <2>7
  <2>9. OfSegments(f, Legal, Len(before))
    BY <2>5, <2>7, <2>8 DEF T, MadeOf
  <2>10. PICK s \in Legal : DottedPiece(p, s)
    BY <2>5, DottedIsPiece DEF MadeOf
  <2>11. OfSegments(f \o p, Legal, Len(before) + 1)
    BY <2>5, <2>7, <2>9, <2>10, OneMorePiece DEF MadeOf
  <2> QED
    BY <2>3, <2>5, <2>7, <2>11 DEF MadeOf
<1>2. Len(pieces) \in Nat
  BY DEF Makes
<1> QED
  BY <1>1, <1>2

\* A text with dots is what is before its last dot, and a piece.
LEMMA LastDot ==
    ASSUME NEW t \in ContractTexts, Dots(t) # {}
    PROVE  \E k, f, s : BehindDot(t, k, f, s) /\ Dots(s) = {}
<1>1. t \in Seq(Characters) /\ Len(t) \in Nat /\ DOMAIN t = 1..Len(t)
  BY DEF ContractTexts
<1> DEFINE T == {n \in 0..Len(t) : Len(t) - n \in Dots(t)}
<1>2. T \in SUBSET Nat /\ T # {}
  <2>1. PICK i \in Dots(t) : TRUE
    OBVIOUS
  <2>2. i \in 1..Len(t)
    BY <1>1 DEF Dots
  <2>3. Len(t) - i \in 0..Len(t) /\ Len(t) - (Len(t) - i) = i
    BY <1>1, <2>2
  <2> QED
    BY <1>1, <2>1, <2>3
<1> HIDE DEF T
<1>3. PICK n \in T : \A m \in T : n <= m
  BY <1>2, LeastNumber
<1> DEFINE k == Len(t) - n
           f == SubSeq(t, 1, k - 1)
           s == SubSeq(t, k + 1, Len(t))
<1>4. k \in Dots(t) /\ k \in 1..Len(t)
  BY <1>1, <1>3 DEF T, Dots
<1>5. \A i \in (k + 1)..Len(t) : i \notin Dots(t)
  <2> SUFFICES ASSUME NEW i \in (k + 1)..Len(t), i \in Dots(t) PROVE FALSE
    OBVIOUS
  <2>1. Len(t) - i \in 0..Len(t) /\ Len(t) - (Len(t) - i) = i /\ Len(t) - i < n
    BY <1>1, <1>2, <1>3, <1>4
  <2>2. Len(t) - i \in T
    BY <2>1 DEF T
  <2> QED
    BY <1>2, <1>3, <2>1, <2>2
<1>6. BehindDot(t, k, f, s)
  BY <1>1, <1>4 DEF BehindDot, Dots
<1>7. Dots(s) = {}
  <2> HIDE DEF k
  <2> DEFINE m == k + 1
             l == Len(t)
  <2>1. m \in Int /\ l \in Int /\ \A i \in m..l : t[i] \in Characters
    BY <1>1, <1>4
  <2>2. s = SubSeq(t, m, l) /\ m = k + 1 /\ l = Len(t)
    OBVIOUS
  <2> HIDE DEF m, l, s
  <2>3. /\ s \in Seq(Characters) /\ Len(s) = IF m <= l THEN l - m + 1 ELSE 0
        /\ \A i \in 1..(l - m + 1) : s[i] = t[m + i - 1]
    BY ONLY <2>1, <2>2, SubSeqProperties
  <2>4. ASSUME NEW i \in DOMAIN s PROVE s[i] # "."
    <3>1. i \in 1..Len(s) /\ m <= l
      BY <2>1, <2>3
    <3>2. i \in 1..(l - m + 1) /\ m + i - 1 \in (k + 1)..Len(t)
      BY <1>1, <1>4, <2>2, <2>3, <3>1
    <3>3. m + i - 1 \notin Dots(t) /\ m + i - 1 \in DOMAIN t
      BY <1>1, <1>4, <1>5, <3>2
    <3> QED
      BY <2>3, <3>2, <3>3 DEF Dots
  <2> QED
    BY <2>4 DEF Dots
<1> QED
  BY <1>6, <1>7

\* However many the segments are, they are pieces that make the text.
LEMMA SegmentsArePieces ==
    ASSUME NEW Legal, DotFree(Legal), NEW text \in ContractTexts, Segments(text) \subseteq Legal
    PROVE  \E pieces : Makes(text, Legal, pieces)
<1> DEFINE T == {n \in Nat : \E u \in ContractTexts :
                    /\ Segments(u) \subseteq Legal /\ Len(u) = n
                    /\ ~ \E q : Makes(u, Legal, q)}
<1>1. ASSUME T # {} PROVE FALSE
  <2>1. T \in SUBSET Nat
    OBVIOUS
  <2> HIDE DEF T
  <2>2. PICK n \in T : \A m \in T : n <= m
    BY <1>1, <2>1, LeastNumber
  <2>3. PICK t \in ContractTexts : /\ Segments(t) \subseteq Legal /\ Len(t) = n
                                   /\ ~ \E q : Makes(t, Legal, q)
    BY <2>2 DEF T
  <2>4. Dots(t) # {}
    BY <2>3, OneSegment, OnePiece
  <2>5. PICK k, f, s : BehindDot(t, k, f, s) /\ Dots(s) = {}
    BY <2>4, LastDot
  <2>6. f \in ContractTexts /\ Segments(t) = Segments(f) \cup {s}
    BY <2>5, LastSegment
  <2>7. PICK p : DottedPiece(p, s) /\ t = f \o p
    BY SMTT(30), <2>5, DotFound
  <2>8. Len(f) \in Nat /\ Len(f) < Len(t)
    <3>1. f \in Seq(Characters) /\ p \in Seq(Characters) /\ p # <<>>
      BY <2>6, <2>7 DEF ContractTexts, DottedPiece
    <3>2. Len(f) \in Nat /\ Len(p) \in Nat \ {0} /\ Len(t) = Len(f) + Len(p)
      BY <2>7, <3>1
    <3> QED
      BY <3>2
  <2>9. Len(f) \notin T
    BY <2>1, <2>2, <2>3, <2>8
  <2>10. PICK q : Makes(f, Legal, q)
    BY <2>3, <2>6, <2>8, <2>9 DEF T
  <2>11. p \in Dotted(Legal)
    BY <2>3, <2>6, <2>7, DottedIsPiece
  <2> QED
    BY <2>3, <2>7, <2>10, <2>11, OneMoreMade
<1>2. Len(text) \in Nat
  BY DEF ContractTexts
<1> QED
  BY <1>1, <1>2

\* Joined says what Segments and Dots say.
LEMMA JoinedSegments ==
    ASSUME NEW Legal, DotFree(Legal), NEW text \in ContractTexts, NEW counts,
           0 \notin counts
    PROVE  Joined(text, Legal, counts) <=>
              \E n \in counts : OfSegments(text, Legal, n)
<1> DEFINE P == Pieces(Legal)
           AsCut(pieces) == /\ pieces[1] \in Legal
                            /\ \A k \in 2..Len(pieces) : pieces[k] \in Dotted(Legal)
<1>1. /\ P \in SUBSET Seq(Characters) /\ <<>> \notin P /\ P \ {<<>>} = P
      /\ text \in Seq(Characters)
  BY PiecesType DEF ContractTexts
<1>2. Joined(text, Legal, counts) <=>
        \E pieces \in CuttingsOf(text, P) : Len(pieces) \in counts /\ AsCut(pieces)
  BY DEF Joined, Pieces
<1>3. ASSUME NEW pieces
      PROVE  pieces \in CuttingsOf(text, P) <=> pieces \in Seq(P) /\ FlattenSeq(pieces) = text
  <2> HIDE DEF P
  <2> QED
    BY <1>1, CuttingsOfText
<1>4. Len(<<>>) \notin counts
  OBVIOUS
<1>5. Joined(text, Legal, counts) <=>
        \E pieces : Len(pieces) \in counts /\ Makes(text, Legal, pieces)
  <2>1. ASSUME NEW pieces, Len(pieces) \in counts
        PROVE  pieces \in CuttingsOf(text, P) /\ AsCut(pieces) <=> Makes(text, Legal, pieces)
    BY <1>3, <1>4, <2>1 DEF Makes, Leads
  <2> HIDE DEF P, AsCut
  <2> QED
    BY <1>2, <2>1
<1>6. \A m, n : OfSegments(text, Legal, m) /\ OfSegments(text, Legal, n) => m = n
  BY DEF OfSegments
<1> QED
  BY <1>5, <1>6, PiecesAreSegments, SegmentsArePieces DEF OfSegments

-----------------------------------------------------------------------------
\* What the patterns say of a text that is not empty and what its segments do.
LEMMA SegmentTexts ==
    ASSUME NEW t \in ContractTexts
    PROVE  Segments(t) \subseteq ContractTexts
<1>1. t \in Seq(Characters) /\ Len(t) \in Nat /\ DOMAIN t = 1..Len(t)
  BY DEF ContractTexts
<1>2. Bounds(t) \subseteq 0..(Len(t) + 1)
  BY <1>1 DEF Bounds, Dots
<1>3. ASSUME NEW c \in Adjacent(Bounds(t)) PROVE Span(t, c) \in Seq(Characters)
  <2> DEFINE a == c[1] + 1
             b == c[2] - 1
  <2>1. c[1] \in 0..(Len(t) + 1) /\ c[2] \in 0..(Len(t) + 1)
    BY <1>2 DEF Adjacent
  <2>2. a \in 1..(Len(t) + 2) /\ b \in -1..Len(t)
    <3>1. \A x, y \in 0..(Len(t) + 1) : x + 1 \in 1..(Len(t) + 2) /\ y - 1 \in -1..Len(t)
      BY <1>1
    <3> QED
      BY <2>1, <3>1
  <2> HIDE DEF a, b
  <2>3. a \in Int /\ b \in Int /\ \A i \in a..b : t[i] \in Characters
    BY <1>1, <2>2
  <2>4. SubSeq(t, a, b) \in Seq(Characters)
    BY <2>3, SubSeqProperties
  <2> QED
    BY <2>4 DEF Span, a, b
<1> QED
  BY <1>3 DEF Segments, ContractTexts

\* Every character of a text is a dot or one of a segment, and the first one the
\* first of a segment.
Spelled(t, Legal) ==
    /\ t # <<>>
    /\ \E s \in Legal : t[1] = s[1]
    /\ \A i \in DOMAIN t : t[i] = "." \/ \E s \in Legal : \E j \in DOMAIN s : t[i] = s[j]

LEMMA SpelledOne ==
    ASSUME NEW Legal, DotFree(Legal), NEW s \in Legal
    PROVE  Spelled(s, Legal)
BY DEF DotFree, Spelled

LEMMA SpelledMore ==
    ASSUME NEW Legal, DotFree(Legal), NEW f \in ContractTexts, NEW s \in Legal,
           NEW p, DottedPiece(p, s), Spelled(f, Legal)
    PROVE  Spelled(f \o p, Legal)
<1> DEFINE t == f \o p
           n == Len(f)
<1>1. /\ f \in Seq(Characters) /\ p \in Seq(Characters) /\ p # <<>> /\ p[1] = "."
      /\ n \in Nat \ {0} /\ Len(p) \in Nat \ {0}
  BY DEF ContractTexts, DottedPiece, Spelled
<1>2. /\ t \in Seq(Characters) /\ Len(t) = n + Len(p) /\ DOMAIN t = 1..(n + Len(p))
      /\ \A i \in 1..Len(t) : t[i] = IF i <= n THEN f[i] ELSE p[i - n]
  BY <1>1, ConcatProperties
<1>3. Len(s) = Len(p) - 1 /\ DOMAIN s = 1..Len(s) /\ \A i \in 1..Len(s) : s[i] = p[i + 1]
  BY <1>1, HeadTailProperties DEF DottedPiece
<1> HIDE DEF t
<1>4. t # <<>> /\ t[1] = f[1]
  BY <1>1, <1>2
<1>5. ASSUME NEW i \in DOMAIN t
      PROVE  t[i] = "." \/ \E r \in Legal : \E j \in DOMAIN r : t[i] = r[j]
  <2>1. CASE i <= n
    <3>1. i \in DOMAIN f /\ t[i] = f[i]
      BY <1>1, <1>2, <1>5, <2>1
    <3> QED
      BY <3>1 DEF Spelled
  <2>2. CASE i = n + 1
    <3>1. t[i] = p[1]
      BY <1>1, <1>2, <1>5, <2>2
    <3> QED
      BY <1>1, <3>1
  <2>3. CASE i > n + 1
    <3>1. i - n - 1 \in 1..Len(s) /\ i - n = (i - n - 1) + 1 /\ t[i] = p[i - n]
      BY <1>1, <1>2, <1>3, <1>5, <2>3
    <3>2. t[i] = s[i - n - 1]
      BY <1>3, <3>1
    <3> QED
      BY <1>3, <3>1, <3>2
  <2> QED
    BY <1>1, <1>2, <2>1, <2>2, <2>3
<1>6. Spelled(t, Legal)
  BY <1>4, <1>5 DEF Spelled
<1> QED
  BY <1>6 DEF t

LEMMA SegmentsSpell ==
    ASSUME NEW Legal, DotFree(Legal), NEW text \in ContractTexts, Segments(text) \subseteq Legal
    PROVE  Spelled(text, Legal)
<1> DEFINE T == {n \in Nat : \E u \in ContractTexts :
                    Segments(u) \subseteq Legal /\ Len(u) = n /\ ~Spelled(u, Legal)}
<1>1. ASSUME T # {} PROVE FALSE
  <2>1. T \in SUBSET Nat
    OBVIOUS
  <2> HIDE DEF T
  <2>2. PICK n \in T : \A m \in T : n <= m
    BY <1>1, <2>1, LeastNumber
  <2>3. PICK t \in ContractTexts :
          Segments(t) \subseteq Legal /\ Len(t) = n /\ ~Spelled(t, Legal)
    BY <2>2 DEF T
  <2>4. Dots(t) # {}
    BY <2>3, OneSegment, SpelledOne
  <2>5. PICK k, f, s : BehindDot(t, k, f, s) /\ Dots(s) = {}
    BY <2>4, LastDot
  <2>6. f \in ContractTexts /\ Segments(t) = Segments(f) \cup {s}
    BY <2>5, LastSegment
  <2>7. PICK p : DottedPiece(p, s) /\ t = f \o p
    BY <2>5, DotFound
  <2>8. Len(f) \in Nat /\ Len(f) < Len(t)
    <3>1. f \in Seq(Characters) /\ p \in Seq(Characters) /\ p # <<>>
      BY <2>6, <2>7 DEF ContractTexts, DottedPiece
    <3>2. Len(f) \in Nat /\ Len(p) \in Nat \ {0} /\ Len(t) = Len(f) + Len(p)
      BY <2>7, <3>1
    <3> QED
      BY <3>2
  <2>9. Len(f) \notin T
    BY <2>1, <2>2, <2>3, <2>8
  <2>10. Spelled(f, Legal)
    BY <2>3, <2>6, <2>8, <2>9 DEF T
  <2> QED
    BY <2>3, <2>6, <2>7, <2>10, SpelledMore
<1>2. Len(text) \in Nat
  BY DEF ContractTexts
<1> QED
  BY <1>1, <1>2

\* Dots are finitely many; where the first character is none, fewer than
\* characters; three of them in order are more than two.
LEMMA DotsAreFinite ==
    ASSUME NEW t \in ContractTexts
    PROVE  /\ IsFiniteSet(Dots(t)) /\ Cardinality(Dots(t)) \in Nat
           /\ Cardinality(Dots(t)) = 0 <=> Dots(t) = {}
           /\ Len(t) > 0 /\ 1 \notin Dots(t) => Cardinality(Dots(t)) + 1 <= Len(t)
<1>1. Len(t) \in Nat /\ Dots(t) \subseteq 1..Len(t)
  BY DEF ContractTexts, Dots
<1>2. IsFiniteSet(1..Len(t)) /\ IsFiniteSet(2..Len(t))
  BY <1>1, FS_Interval
<1>3. IsFiniteSet(Dots(t))
  BY <1>1, <1>2, FS_Subset
<1>4. Cardinality(Dots(t)) \in Nat /\ (Cardinality(Dots(t)) = 0 <=> Dots(t) = {})
  BY <1>3, FS_CardinalityType, FS_EmptySet
<1>5. ASSUME Len(t) > 0, 1 \notin Dots(t) PROVE Cardinality(Dots(t)) + 1 <= Len(t)
  <2>1. Dots(t) \subseteq 2..Len(t)
    BY <1>1, <1>5
  <2>2. Cardinality(2..Len(t)) = Len(t) - 1
    <3>1. 2 \in Int /\ Len(t) \in Int
      BY <1>1
    <3>2. Cardinality(2..Len(t)) = IF 2 > Len(t) THEN 0 ELSE Len(t) - 2 + 1
      BY <3>1, FS_Interval
    <3> QED
      BY <1>1, <1>5, <3>2
  <2>3. Cardinality(Dots(t)) <= Cardinality(2..Len(t))
    BY <1>2, <2>1, FS_Subset
  <2> QED
    BY <1>1, <1>4, <2>2, <2>3
<1> QED
  BY <1>3, <1>4, <1>5

InOrder(S) == \E i, j, k \in S : i < j /\ j < k

LEMMA ThreeInOrder ==
    ASSUME NEW S, S \subseteq Int, IsFiniteSet(S)
    PROVE  Cardinality(S) \in Nat /\ (InOrder(S) <=> Cardinality(S) > 2)
<1>1. Cardinality(S) \in Nat
  BY FS_CardinalityType
<1>2. ASSUME InOrder(S) PROVE Cardinality(S) > 2
  <2>1. PICK i, j, k \in S : i < j /\ j < k
    BY <1>2 DEF InOrder
  <2>2. i # j /\ j # k /\ i # k
    BY <2>1
  <2> DEFINE A == S \ {i}
             B == A \ {j}
             C == B \ {k}
  <2>3. IsFiniteSet(A) /\ Cardinality(A) = Cardinality(S) - 1 /\ j \in A
    BY <2>2, FS_RemoveElement
  <2>4. IsFiniteSet(B) /\ Cardinality(B) = Cardinality(A) - 1 /\ k \in B
    BY <2>2, <2>3, FS_RemoveElement
  <2>5. IsFiniteSet(C) /\ Cardinality(C) = Cardinality(B) - 1
    BY <2>4, FS_RemoveElement
  <2>6. Cardinality(C) \in Nat
    BY <2>5, FS_CardinalityType
  <2> HIDE DEF A, B, C
  <2> QED
    BY <1>1, <2>3, <2>4, <2>5, <2>6
<1>3. ASSUME Cardinality(S) > 2 PROVE InOrder(S)
  <2>1. S # {}
    BY <1>3, FS_EmptySet
  <2>2. PICK i \in S : TRUE
    BY <2>1
  <2> DEFINE A == S \ {i}
  <2>3. IsFiniteSet(A) /\ Cardinality(A) = Cardinality(S) - 1
    BY <2>2, FS_RemoveElement
  <2>4. A # {}
    BY <1>1, <1>3, <2>3, FS_EmptySet
  <2>5. PICK j \in A : TRUE
    BY <2>4
  <2> DEFINE B == A \ {j}
  <2>6. IsFiniteSet(B) /\ Cardinality(B) = Cardinality(A) - 1
    BY <2>3, <2>5, FS_RemoveElement
  <2>7. B # {}
    BY <1>1, <1>3, <2>3, <2>6, FS_EmptySet
  <2>8. PICK k \in B : TRUE
    BY <2>7
  <2>9. /\ i \in S /\ j \in S /\ k \in S /\ i # j /\ j # k /\ i # k
        /\ i \in Int /\ j \in Int /\ k \in Int
    BY <2>2, <2>5, <2>8
  <2>10. \/ (i < j /\ j < k) \/ (i < k /\ k < j) \/ (j < i /\ i < k)
         \/ (j < k /\ k < i) \/ (k < i /\ i < j) \/ (k < j /\ j < i)
    <3> HIDE DEF A, B
    <3>1. (i < j \/ j < i) /\ (j < k \/ k < j) /\ (i < k \/ k < i)
      BY <2>9
    <3> QED
      BY ONLY <3>1
  <2> QED
    BY <2>9, <2>10 DEF InOrder
<1> QED
  BY <1>1, <1>2, <1>3

-----------------------------------------------------------------------------
\* The constructors accept exactly what the patterns of the contract say.
LEMMA IdentifierExact ==
    ASSUME NEW t \in ContractTexts
    PROVE  IdentifierError(t, MaxIdentifierLength) = "none" <=> IdPattern(t)
<1>1. Len(t) \in Nat /\ (t = <<>> <=> Len(t) = 0) /\ MaxIdentifierLength \in Nat
  BY NamesAssumption DEF ContractTexts
<1>2. t = <<>> => IdentifierError(t, MaxIdentifierLength) # "none"
  BY DEF IdentifierError
<1>3. Len(t) > MaxIdentifierLength => IdentifierError(t, MaxIdentifierLength) # "none"
  BY DEF IdentifierError
<1>4. ASSUME t # <<>>, ~(Len(t) > MaxIdentifierLength)
      PROVE  IdentifierError(t, MaxIdentifierLength) = "none" <=>
               t[1] \in Alphanumeric /\ Consists(t, Alphanumeric \cup Punctuation)
  BY <1>4 DEF IdentifierError
<1>5. Len(t) \in 1..MaxIdentifierLength <=> t # <<>> /\ ~(Len(t) > MaxIdentifierLength)
  BY <1>1
<1> QED
  BY <1>2, <1>3, <1>4, <1>5 DEF IdPattern

LEMMA NoDotsWithin ==
    ASSUME NEW s, NEW C, Consists(s, C), "." \notin C
    PROVE  Dots(s) = {}
BY DEF Consists, Dots

LEMMA PiecesAreDotFree == DotFree(NamePieces) /\ DotFree(NumberPieces)
<1>1. "." \notin Lower \cup Digits \cup {"_"} /\ "." \notin Digits
  BY NamesAssumption DEF Alphanumeric, Letters, Punctuation
<1> QED
  BY <1>1, NoDotsWithin DEF DotFree, NamePieces, NumberPieces

\* The segments of a text are what the constructor asks for when they are pieces.
LEMMA NamePiecesExact ==
    ASSUME NEW t \in ContractTexts
    PROVE  (\A s \in Segments(t) : NameSegment(s)) <=> Segments(t) \subseteq NamePieces
BY SegmentTexts DEF NameSegment, NamePieces

LEMMA NumberPiecesExact ==
    ASSUME NEW t \in ContractTexts
    PROVE  (\A s \in Segments(t) : s # <<>> /\ Consists(s, Digits))
             <=> Segments(t) \subseteq NumberPieces
BY SegmentTexts DEF NumberPieces

\* A text with a dot that begins and ends with something else has three
\* characters.
LEMMA DotWithin ==
    ASSUME NEW t \in ContractTexts, NEW Legal, DotFree(Legal), Segments(t) \subseteq Legal,
           Dots(t) # {}
    PROVE  Len(t) >= 3
<1>1. PICK k, f, s : BehindDot(t, k, f, s) /\ Dots(s) = {}
  BY LastDot
<1>2. f \in ContractTexts /\ Segments(t) = Segments(f) \cup {s}
  BY <1>1, LastSegment
<1>3. Spelled(f, Legal) /\ s # <<>> /\ s \in Seq(Characters)
  BY <1>2, SegmentsSpell DEF DotFree, ContractTexts
<1>4. PICK p : DottedPiece(p, s) /\ t = f \o p
  BY <1>1, DotFound
<1>5. f \in Seq(Characters) /\ p \in Seq(Characters) /\ f # <<>> /\ p # <<>>
  BY <1>2, <1>3, <1>4 DEF ContractTexts, DottedPiece, Spelled
<1>6. Len(s) = Len(p) - 1 /\ Len(s) \in Nat \ {0} /\ Len(f) \in Nat \ {0}
  BY <1>3, <1>4, <1>5, HeadTailProperties DEF DottedPiece
<1>7. Len(t) = Len(f) + Len(p) /\ Len(p) \in Nat
  BY <1>4, <1>5
<1> QED
  BY <1>6, <1>7

LEMMA NameExact ==
    ASSUME NEW t \in ContractTexts
    PROVE  NameError(t) = "none" <=> NamePattern(t)
<1> DEFINE n == Cardinality(Dots(t)) + 1
           Named == Segments(t) \subseteq NamePieces
<1>1. /\ Len(t) \in Nat /\ (t = <<>> <=> Len(t) = 0) /\ DOMAIN t = 1..Len(t)
      /\ MaxNameLength \in Nat
  BY NamesAssumption DEF ContractTexts
<1>2. IdentifierError(t, MaxNameLength) = "none" <=>
        /\ t # <<>> /\ ~(Len(t) > MaxNameLength) /\ t[1] \in Alphanumeric
        /\ Consists(t, Alphanumeric \cup Punctuation)
  BY DEF IdentifierError
<1>3. NameError(t) = "none" <=>
        /\ IdentifierError(t, MaxNameLength) = "none" /\ Dots(t) # {} /\ Named
  <2>1. Named <=> ~ \E s \in Segments(t) : ~NameSegment(s)
    BY NamePiecesExact
  <2> HIDE DEF Named
  <2> QED
    BY <2>1 DEF NameError
<1>4. NamePattern(t) <=>
        /\ Len(t) \in 3..MaxNameLength /\ Named
        /\ n \in 2..Len(t)
  <2>1. 0 \notin 2..Len(t)
    OBVIOUS
  <2>2. Joined(t, NamePieces, 2..Len(t)) <=>
          \E m \in 2..Len(t) : OfSegments(t, NamePieces, m)
    BY <2>1, JoinedSegments, PiecesAreDotFree
  <2>3. IsFiniteSet(Dots(t))
    BY DotsAreFinite
  <2> QED
    BY <2>2, <2>3 DEF NamePattern, OfSegments
<1>5. /\ n \in Nat \ {0} /\ (n = 1 <=> Dots(t) = {})
      /\ Len(t) > 0 /\ 1 \notin Dots(t) => n <= Len(t)
  BY DotsAreFinite
<1>6. ASSUME Named
      PROVE  /\ t # <<>> /\ t[1] \in Alphanumeric /\ 1 \notin Dots(t)
             /\ Consists(t, Alphanumeric \cup Punctuation)
             /\ Dots(t) # {} => Len(t) >= 3
  <2>1. Spelled(t, NamePieces)
    BY <1>6, SegmentsSpell, PiecesAreDotFree
  <2>2. Lower \subseteq Alphanumeric /\ Lower \cup Digits \cup {"_"} \subseteq Alphanumeric \cup Punctuation
    BY DEF Alphanumeric, Letters, Punctuation
  <2>3. \A s \in NamePieces : s[1] \in Lower /\ \A j \in DOMAIN s : s[j] \in Alphanumeric \cup Punctuation
    BY <2>2 DEF NamePieces, Consists
  <2>4. t[1] \in Alphanumeric /\ t # <<>>
    BY <2>1, <2>2, <2>3 DEF Spelled
  <2>5. 1 \notin Dots(t)
    BY <2>4, NamesAssumption DEF Dots, Punctuation
  <2>6. Consists(t, Alphanumeric \cup Punctuation)
    <3>1. "." \in Punctuation
      BY DEF Punctuation
    <3> QED
      BY <2>1, <2>3, <3>1 DEF Spelled, Consists
  <2>7. Dots(t) # {} => Len(t) >= 3
    BY <1>6, DotWithin, PiecesAreDotFree
  <2> QED
    BY <2>4, <2>5, <2>6, <2>7
<1> HIDE DEF n, Named
<1>7. CASE ~Named
  BY <1>3, <1>4, <1>7
<1>8. CASE Named
  <2>1. NameError(t) = "none" <=> ~(Len(t) > MaxNameLength) /\ Dots(t) # {}
    BY <1>2, <1>3, <1>6, <1>8
  <2>2. n <= Len(t) /\ (Dots(t) # {} => Len(t) >= 3)
    BY <1>1, <1>5, <1>6, <1>8
  <2>3. NamePattern(t) <=> Len(t) \in 3..MaxNameLength /\ n # 1
    <3>1. n \in 2..Len(t) <=> n # 1
      BY <1>1, <1>5, <2>2
    <3> QED
      BY <1>4, <1>8, <3>1
  <2> QED
    BY <1>1, <1>5, <2>1, <2>2, <2>3
<1> QED
  BY <1>7, <1>8

\* Up to three numbers.
LEMMA NumbersExact ==
    ASSUME NEW t \in ContractTexts
    PROVE  Joined(t, NumberPieces, 1..3) <=>
             /\ ~InOrder(Dots(t))
             /\ \A s \in Segments(t) : s # <<>> /\ Consists(s, Digits)
<1>1. Joined(t, NumberPieces, 1..3) <=> \E m \in 1..3 : OfSegments(t, NumberPieces, m)
  <2>1. 0 \notin 1..3
    OBVIOUS
  <2> QED
    BY <2>1, JoinedSegments, PiecesAreDotFree
<1>2. IsFiniteSet(Dots(t)) /\ Dots(t) \subseteq Int /\ Cardinality(Dots(t)) \in Nat
  BY DotsAreFinite DEF Dots, ContractTexts
<1>3. InOrder(Dots(t)) <=> Cardinality(Dots(t)) > 2
  BY <1>2, ThreeInOrder
<1>4. Cardinality(Dots(t)) + 1 \in 1..3 <=> ~(Cardinality(Dots(t)) > 2)
  BY <1>2
<1> QED
  BY <1>1, <1>2, <1>3, <1>4, NumberPiecesExact DEF OfSegments

\* Numbers hold no sign and are not empty.
LEMMA NumbersWithoutSign ==
    ASSUME NEW t \in ContractTexts, Joined(t, NumberPieces, 1..3)
    PROVE  t # <<>> /\ \A i \in DOMAIN t : t[i] \notin {"+", "-"}
<1>1. Segments(t) \subseteq NumberPieces
  BY NumbersExact, NumberPiecesExact
<1>2. Spelled(t, NumberPieces)
  BY <1>1, SegmentsSpell, PiecesAreDotFree
<1>3. "+" \notin Digits /\ "-" \notin Digits
  BY NamesAssumption DEF Alphanumeric, Punctuation
<1>4. \A s \in NumberPieces : \A j \in DOMAIN s : s[j] \notin {"+", "-"}
  BY <1>3 DEF NumberPieces, Consists
<1> QED
  BY <1>2, <1>4 DEF Spelled

Signs(t) == {i \in DOMAIN t : t[i] \in {"+", "-"}}
FirstSign(t) == CHOOSE i \in Signs(t) : \A j \in Signs(t) : i <= j

LEMMA FirstSignExists ==
    ASSUME NEW t \in ContractTexts, Signs(t) # {}
    PROVE  FirstSign(t) \in Signs(t) /\ \A j \in Signs(t) : FirstSign(t) <= j
<1>1. Signs(t) \in SUBSET Nat
  BY DEF Signs, ContractTexts
<1>2. \E i \in Signs(t) : \A j \in Signs(t) : i <= j
  BY <1>1, LeastNumber
<1> QED
  BY <1>2 DEF FirstSign

\* A sign ends the numbers when what is before it is some: so it is the first.
SignedAt(t, k) ==
    /\ t[k] \in {"+", "-"}
    /\ Joined(SubSeq(t, 1, k - 1), NumberPieces, 1..3)
    /\ Consists(SubSeq(t, k + 1, Len(t)), Alphanumeric \cup {".", "-"})

LEMMA SignIsFirst ==
    ASSUME NEW t \in ContractTexts, NEW k \in 1..Len(t), SignedAt(t, k)
    PROVE  k \in 2..Len(t) /\ Signs(t) # {} /\ k = FirstSign(t)
<1> DEFINE core == SubSeq(t, 1, k - 1)
<1>1. t \in Seq(Characters) /\ Len(t) \in Nat /\ DOMAIN t = 1..Len(t) /\ k \in 1..Len(t)
  BY DEF ContractTexts
<1>2. core \in Seq(Characters) /\ Len(core) = k - 1 /\ \A i \in 1..(k - 1) : core[i] = t[i]
  BY <1>1
<1>3. core # <<>> /\ \A i \in DOMAIN core : core[i] \notin {"+", "-"}
  <2>1. core \in ContractTexts /\ Joined(core, NumberPieces, 1..3)
    BY <1>2 DEF SignedAt, ContractTexts
  <2> HIDE DEF core
  <2> QED
    BY <2>1, NumbersWithoutSign
<1> HIDE DEF core
<1>4. k # 1 /\ k \in Signs(t)
  BY <1>1, <1>2, <1>3 DEF SignedAt, Signs
<1>5. \A i \in Signs(t) : k <= i
  <2> SUFFICES ASSUME NEW i \in Signs(t), ~(k <= i) PROVE FALSE
    OBVIOUS
  <2>1. i \in 1..(k - 1)
    BY <1>1 DEF Signs
  <2>2. core[i] \notin {"+", "-"} /\ core[i] = t[i]
    BY <1>2, <1>3, <2>1
  <2> QED
    BY <2>2 DEF Signs
<1>6. FirstSign(t) \in Signs(t) /\ FirstSign(t) <= k /\ k <= FirstSign(t)
  BY <1>4, <1>5, FirstSignExists
<1>7. FirstSign(t) \in Nat
  BY <1>1, <1>6 DEF Signs
<1> QED
  BY <1>1, <1>4, <1>6, <1>7

LEMMA VersionExact ==
    ASSUME NEW t \in ContractTexts
    PROVE  VersionError(t) = "none" <=> VersionPattern(t)
<1> DEFINE first == FirstSign(t)
           core == IF Signs(t) = {} THEN t ELSE SubSeq(t, 1, first - 1)
           suffix == IF Signs(t) = {} THEN <<>> ELSE SubSeq(t, first + 1, Len(t))
           Short == Len(t) \in 1..MaxVersionLength
           Numbers == Joined(core, NumberPieces, 1..3)
           Behind == suffix # <<>> /\ Consists(suffix, Alphanumeric \cup {".", "-"})
<1>1. /\ t \in Seq(Characters) /\ Len(t) \in Nat /\ DOMAIN t = 1..Len(t)
      /\ (t = <<>> <=> Len(t) = 0) /\ MaxVersionLength \in Nat
  BY NamesAssumption DEF ContractTexts
<1>2. Signs(t) # {} =>
        /\ first \in 1..Len(t) /\ t[first] \in {"+", "-"}
        /\ first - 1 \in 0..Len(t) /\ first + 1 \in 1..(Len(t) + 1)
  BY <1>1, FirstSignExists DEF Signs
<1>3. core \in ContractTexts
  BY <1>1, <1>2 DEF ContractTexts
<1>4. Numbers <=> ~InOrder(Dots(core))
                  /\ \A s \in Segments(core) : s # <<>> /\ Consists(s, Digits)
  <2> HIDE DEF core
  <2> QED
    BY <1>3, NumbersExact
<1>5. VersionError(t) = "none" <=> Short /\ Numbers /\ (Signs(t) # {} => Behind)
  <2>1. VersionError(t) =
          IF t = <<>> THEN "Empty"
          ELSE IF Len(t) > MaxVersionLength THEN "TooLong"
          ELSE IF \/ InOrder(Dots(core))
                  \/ ~ \A s \in Segments(core) : s # <<>> /\ Consists(s, Digits)
                  \/ /\ Signs(t) # {}
                     /\ suffix = <<>> \/ ~Consists(suffix, Alphanumeric \cup {".", "-"})
            THEN "InvalidVersion"
          ELSE "none"
    BY DEF VersionError, Signs, FirstSign, InOrder
  <2>2. Short <=> t # <<>> /\ ~(Len(t) > MaxVersionLength)
    BY <1>1
  <2> HIDE DEF core, suffix, Short, Numbers
  <2> QED
    BY <1>4, <2>1, <2>2
<1>6. VersionPattern(t) <=>
        Short /\ (Joined(t, NumberPieces, 1..3) \/ \E k \in 2..(Len(t) - 1) : SignedAt(t, k))
  BY DEF VersionPattern, SignedAt
<1>7. CASE Signs(t) = {}
  <2>1. ~ \E k \in 2..(Len(t) - 1) : SignedAt(t, k)
    BY <1>1, <1>7 DEF SignedAt, Signs
  <2>2. core = t
    BY <1>7
  <2> HIDE DEF core, Short
  <2> QED
    BY <1>5, <1>6, <1>7, <2>1, <2>2
<1>8. CASE Signs(t) # {}
  <2>1. ~Joined(t, NumberPieces, 1..3)
    BY <1>8, NumbersWithoutSign DEF Signs
  <2>2. core = SubSeq(t, 1, first - 1) /\ suffix = SubSeq(t, first + 1, Len(t))
    BY <1>8
  <2>3. suffix # <<>> <=> first # Len(t)
    <3>1. first \in 1..Len(t)
      BY <1>2, <1>8
    <3>2. first = Len(t) => suffix = <<>>
      BY <1>1, <2>2, <3>1
    <3>3. first # Len(t) => suffix # <<>>
      <4> DEFINE m == first + 1
                 l == Len(t)
      <4>1. m \in Int /\ l \in Int /\ \A i \in m..l : t[i] \in Characters
        BY <1>1, <3>1
      <4>2. suffix = SubSeq(t, m, l)
        BY <2>2
      <4>3. first # Len(t) => m <= l /\ l - m + 1 # 0
        BY <1>1, <3>1
      <4> HIDE DEF m, l, suffix
      <4>4. Len(suffix) = IF m <= l THEN l - m + 1 ELSE 0
        BY ONLY <4>1, <4>2, SubSeqProperties
      <4>5. Len(<<>>) = 0
        OBVIOUS
      <4> QED
        BY <4>3, <4>4, <4>5
    <3> QED
      BY <3>2, <3>3
  <2>4. SignedAt(t, first) <=> Numbers /\ Consists(suffix, Alphanumeric \cup {".", "-"})
    <3>1. t[first] \in {"+", "-"}
      BY <1>2, <1>8
    <3> HIDE DEF first, core, suffix
    <3> QED
      BY <2>2, <3>1 DEF SignedAt
  <2>5. (\E k \in 2..(Len(t) - 1) : SignedAt(t, k)) <=> SignedAt(t, first) /\ first # Len(t)
    <3>1. first \in 1..Len(t)
      BY <1>2, <1>8
    <3>2. ASSUME NEW k \in 2..(Len(t) - 1), SignedAt(t, k)
          PROVE  k = first
      BY <1>1, <3>2, SignIsFirst
    <3>3. SignedAt(t, first) => first \in 2..Len(t)
      BY <1>1, <3>1, SignIsFirst
    <3> HIDE DEF first
    <3>4. SignedAt(t, first) /\ first # Len(t) => first \in 2..(Len(t) - 1)
      <4>1. \A l \in Nat : \A x \in 2..l : x # l => x \in 2..(l - 1)
        OBVIOUS
      <4> QED
        BY Zenon, <1>1, <3>3, <4>1
    <3>5. first \in 2..(Len(t) - 1) => first # Len(t)
      <4>1. \A l \in Nat : l \notin 2..(l - 1)
        OBVIOUS
      <4> QED
        BY Zenon, <1>1, <4>1
    <3> QED
      BY <3>2, <3>4, <3>5
  <2> HIDE DEF core, suffix, Short, Numbers
  <2> QED
    BY <1>5, <1>6, <1>8, <2>1, <2>3, <2>4, <2>5
<1> QED
  BY <1>7, <1>8

-----------------------------------------------------------------------------
\* Arrays without duplicates, counted as to_set counts them.
Distinct(array) == \A i, j \in DOMAIN array : array[i] = array[j] => i = j

LEMMA CountedOnce ==
    ASSUME NEW array, NEW n \in Nat, DOMAIN array = 1..n
    PROVE  Cardinality({array[i] : i \in DOMAIN array}) = n <=> Distinct(array)
<1> DEFINE S == {array[i] : i \in DOMAIN array}
           f == [i \in 1..n |-> array[i]]
<1>1. f \in Surjection(1..n, S)
  BY DEF Surjection
<1>2. IsFiniteSet(1..n) /\ Cardinality(1..n) = n
  <2>1. 1 \in Int /\ n \in Int
    OBVIOUS
  <2>2. IsFiniteSet(1..n) /\ Cardinality(1..n) = IF 1 > n THEN 0 ELSE n - 1 + 1
    BY <2>1, FS_Interval
  <2> QED
    BY <2>2
<1>3. f \in Injection(1..n, S) <=> Distinct(array)
  BY DEF Injection, IsInjective, Distinct
<1> HIDE DEF S, f
<1>4. Cardinality(S) = Cardinality(1..n) <=> f \in Injection(1..n, S)
  BY <1>1, <1>2, FS_Surjection
<1> QED
  BY <1>2, <1>3, <1>4 DEF S

\* What to_set lets pass.
LEMMA SetExact ==
    ASSUME NEW X, NEW array \in Seq(X), NEW maximum \in Nat
    PROVE  SetError(array, maximum) = "none" <=> Len(array) <= maximum /\ Distinct(array)
<1>1. Len(array) \in Nat /\ DOMAIN array = 1..Len(array)
  OBVIOUS
<1>2. Cardinality(Set(array)) = Len(array) <=> Distinct(array)
  BY <1>1, CountedOnce DEF Set
<1> HIDE DEF Set
<1> QED
  BY <1>1, <1>2 DEF SetError

\* The items of an array, whatever is said of each.
Items(array, lowest) == Len(array) \in lowest..MaxSet /\ Distinct(array)

LEMMA SelectorExact ==
    ASSUME NEW X, NEW array \in Seq(X), array # Absent
    PROVE  SelectorError(array) = "none" <=> Items(array, 1)
<1>1. MaxSet \in Nat /\ Len(array) \in Nat /\ (array = <<>> <=> Len(array) = 0)
  BY CapsAssumption
<1>2. SetError(array, MaxSet) = "none" <=> Len(array) <= MaxSet /\ Distinct(array)
  BY <1>1, SetExact
<1>3. SelectorError(array) = "none" <=> array # <<>> /\ SetError(array, MaxSet) = "none"
  BY DEF SelectorError
<1> QED
  BY <1>1, <1>2, <1>3 DEF Items

LEMMA NoErrors ==
    ASSUME NEW codes
    PROVE  Errors(codes) = {} <=> \A e \in codes : e = "none"
BY DEF Errors

\* A selector of each kind.
SelectorConforms(r, d) ==
    \/ d \in NameDimensions /\ UniqueItems(r.selects[d], 1..MaxSet, NamePattern)
    \/ d \in EnumDimensions /\ UniqueItems(r.selects[d], 1..MaxSet, IsMember)
    \/ /\ d = "canonical_path_prefixes"
       /\ UniqueItems(r.selects[d], 1..MaxSet, IsProse)
       /\ Fit(r.selects[d], BytesIn, MaxPrefix)

SelectorShape(r, d) ==
    /\ d \in NameDimensions => \A i \in DOMAIN r.selects[d] : NameError(r.selects[d][i]) = "none"
    /\ d \in EnumDimensions => Set(r.selects[d]) \subseteq Members
    /\ d = "canonical_path_prefixes" =>
          Fit(r.selects[d], BytesIn, MaxPrefix)

LEMMA OneSelector ==
    ASSUME NEW r \in RuleTexts, NEW d \in Selectors, r.selects[d] # Absent
    PROVE  /\ Len(r.selects[d]) \in Nat
           /\ SelectorError(r.selects[d]) = "none" /\ SelectorShape(r, d)
                <=> SelectorConforms(r, d)
<1> DEFINE array == r.selects[d]
<1>1. \/ d \in NameDimensions /\ array \in Seq(ContractTexts)
      \/ d \in EnumDimensions /\ array \in Seq(EnumTexts)
      \/ d = "canonical_path_prefixes" /\ array \in Seq(Prose)
  BY DocumentsAssumption DEF Selectors
<1>2. /\ NameDimensions \cap EnumDimensions = {}
      /\ "canonical_path_prefixes" \notin NameDimensions \cup EnumDimensions
  BY CapsAssumption
<1>3. Len(array) \in Nat /\ (SelectorError(array) = "none" <=> Items(array, 1))
  BY <1>1, SelectorExact
<1>4. CASE d \in NameDimensions
  <2>1. \A i \in DOMAIN array : array[i] \in ContractTexts
    BY <1>1, <1>2, <1>4
  <2>2. \A i \in DOMAIN array : NameError(array[i]) = "none" <=> NamePattern(array[i])
    BY <2>1, NameExact
  <2>3. SelectorShape(r, d) <=> \A i \in DOMAIN array : NamePattern(array[i])
    BY <1>2, <1>4, <2>2 DEF SelectorShape
  <2>4. SelectorConforms(r, d) <=>
          Items(array, 1) /\ \A i \in DOMAIN array : NamePattern(array[i])
    BY <1>2, <1>4 DEF SelectorConforms, UniqueItems, Items, Distinct
  <2> QED
    BY <1>3, <2>3, <2>4
<1>5. CASE d \in EnumDimensions
  <2>1. SelectorShape(r, d) <=> \A i \in DOMAIN array : IsMember(array[i])
    BY <1>2, <1>5 DEF SelectorShape, Set, IsMember
  <2>2. SelectorConforms(r, d) <=>
          Items(array, 1) /\ \A i \in DOMAIN array : IsMember(array[i])
    BY <1>2, <1>5 DEF SelectorConforms, UniqueItems, Items, Distinct
  <2> QED
    BY <1>3, <2>1, <2>2
<1>6. CASE d = "canonical_path_prefixes"
  <2>1. SelectorShape(r, d) <=> Fit(array, BytesIn, MaxPrefix)
    BY <1>2, <1>6 DEF SelectorShape
  <2>2. \A i \in DOMAIN array : IsProse(array[i])
    BY <1>1, <1>2, <1>6 DEF IsProse
  <2>3. SelectorConforms(r, d) <=> Items(array, 1) /\ Fit(array, BytesIn, MaxPrefix)
    BY <1>2, <1>6, <2>2 DEF SelectorConforms, UniqueItems, Items, Distinct
  <2> QED
    BY <1>3, <2>1, <2>3
<1> QED
  BY <1>3, <1>4, <1>5, <1>6 DEF Selectors

\* A rule passes all that is asked of it exactly when it conforms.
LEMMA RuleExact ==
    ASSUME NEW r \in RuleTexts
    PROVE  RuleShape(r) /\ RuleErrors(r) = {} <=> RuleConforms(r, BytesIn)
<1> DEFINE S == r.selects
           paths == S["canonical_path_prefixes"]
           Selected == \A d \in Selectors : SelectorError(S[d]) = "none"
           Shaped == \A d \in Selectors : S[d] # Absent => SelectorShape(r, d)
           Texts == Len(r.alternatives) <= MaxAlternatives
                    /\ Fit(r.alternatives, BytesIn, MaxText)
           Categories == SetError(r.categories, MaxSet) = "none" /\ r.categories # <<>>
           Named == \A i \in DOMAIN r.categories : NameError(r.categories[i]) = "none"
           Some == \E d \in Selectors : S[d] # Absent
<1>1. /\ r.id \in ContractTexts /\ r.categories \in Seq(ContractTexts)
      /\ Len(r.alternatives) \in Nat /\ MaxAlternatives \in Nat /\ MaxSet \in Nat
      /\ NameDimensions \cup EnumDimensions \subseteq Selectors
      /\ "canonical_path_prefixes" \in Selectors
  BY DocumentsAssumption, CapsAssumption DEF Selectors
<1>2. RuleErrors(r) = {} <=>
        /\ Selected /\ ~InvalidPrefix(r) /\ ~(Len(r.alternatives) > MaxAlternatives)
        /\ SetError(r.categories, MaxSet) = "none" /\ ~InvalidRule(r)
  <2> DEFINE codes == {SelectorError(r.selects[d]) : d \in Selectors}
             selectors == Errors(codes)
  <2>1. selectors = {} <=> Selected
    <3>1. (\A e \in codes : e = "none") <=> Selected
      OBVIOUS
    <3> HIDE DEF codes, Selected
    <3> QED
      BY <3>1, NoErrors
  <2>2. RuleErrors(r) =
          IF selectors # {} THEN selectors
          ELSE IF InvalidPrefix(r) THEN {"Invalid"}
          ELSE IF Len(r.alternatives) > MaxAlternatives THEN {"TooManyValues"}
          ELSE IF SetError(r.categories, MaxSet) # "none"
            THEN {SetError(r.categories, MaxSet)}
          ELSE IF InvalidRule(r) THEN {"Invalid"}
          ELSE {}
    BY DEF RuleErrors
  <2> HIDE DEF selectors, Selected
  <2> QED
    BY <2>1, <2>2
<1>3. ~InvalidPrefix(r) <=>
        (paths # Absent => Fit(paths, BytesIn, MaxPrefix))
  BY DEF InvalidPrefix, Fit
<1>4. ~InvalidRule(r) <=>
        /\ Some /\ r.categories # <<>> /\ BytesIn[r.rationale] \in 1..MaxText
        /\ Fit(r.alternatives, BytesIn, MaxText)
  BY DEF InvalidRule, Fit
<1>5. RuleShape(r) /\ ~InvalidPrefix(r) <=>
        /\ IdentifierError(r.id, MaxIdentifierLength) = "none" /\ r.effect \in {"ask", "deny"}
        /\ Shaped /\ Named
  <2>1. Shaped <=>
          /\ \A d \in NameDimensions : S[d] # Absent =>
                \A i \in DOMAIN S[d] : NameError(S[d][i]) = "none"
          /\ \A d \in EnumDimensions : S[d] # Absent => Set(S[d]) \subseteq Members
          /\ ~InvalidPrefix(r)
    BY <1>1, <1>3 DEF SelectorShape
  <2> HIDE DEF Shaped
  <2> QED
    BY <2>1 DEF RuleShape
<1>6. Selected /\ Shaped <=> \A d \in Selectors : S[d] # Absent => SelectorConforms(r, d)
  <2>1. \A d \in Selectors : S[d] = Absent => SelectorError(S[d]) = "none"
    BY DEF SelectorError
  <2>2. \A d \in Selectors : S[d] # Absent =>
          (SelectorError(S[d]) = "none" /\ SelectorShape(r, d) <=> SelectorConforms(r, d))
    BY OneSelector
  <2> HIDE DEF S
  <2> QED
    BY <2>1, <2>2
<1>7. Categories /\ Named <=> UniqueItems(r.categories, 1..MaxSet, NamePattern)
  <2>1. Categories <=> Items(r.categories, 1)
    <3>1. /\ Len(r.categories) \in Nat
          /\ (r.categories = <<>> <=> Len(r.categories) = 0)
      BY <1>1
    <3>2. SetError(r.categories, MaxSet) = "none" <=>
            Len(r.categories) <= MaxSet /\ Distinct(r.categories)
      BY <1>1, SetExact
    <3> QED
      BY <1>1, <3>1, <3>2 DEF Items
  <2>2. \A i \in DOMAIN r.categories : r.categories[i] \in ContractTexts
    BY <1>1
  <2>3. Named <=> \A i \in DOMAIN r.categories : NamePattern(r.categories[i])
    BY <2>2, NameExact
  <2> HIDE DEF Categories, Named
  <2> QED
    BY <2>1, <2>3 DEF UniqueItems, Items, Distinct
<1>9. RuleConforms(r, BytesIn) <=>
        /\ IdPattern(r.id) /\ r.effect \in {"ask", "deny"} /\ Some
        /\ \A d \in Selectors : S[d] # Absent => SelectorConforms(r, d)
        /\ UniqueItems(r.categories, 1..MaxSet, NamePattern)
        /\ BytesIn[r.rationale] \in 1..MaxText /\ Texts
  BY DEF RuleConforms, SelectorConforms
<1>10. IdentifierError(r.id, MaxIdentifierLength) = "none" <=> IdPattern(r.id)
  BY <1>1, IdentifierExact
<1>11. ~(Len(r.alternatives) > MaxAlternatives) <=> Len(r.alternatives) <= MaxAlternatives
  BY <1>1
<1> HIDE DEF S, paths, Selected, Shaped, Named, Some
<1> QED
  BY <1>2, <1>4, <1>5, <1>6, <1>7, <1>9, <1>10, <1>11

LEMMA ScopeOf ==
    ASSUME NEW X, NEW array \in Seq(X)
    PROVE  SetError(array, MaxSet) = "none" <=> Items(array, 0)
<1>1. MaxSet \in Nat /\ Len(array) \in Nat
  BY CapsAssumption
<1> QED
  BY <1>1, SetExact DEF Items

\* What precedes the rules, likewise.
LEMMA HeaderExact ==
    ASSUME NEW h \in HeaderTexts
    PROVE  HeaderShape(h) /\ HeaderError(h) = "none" <=> HeaderConforms(h) /\ IssuedAt(h.issued)
<1> DEFINE tenants == h.scope["tenant_ids"]
           repositories == h.scope["repository_ids"]
           environments == h.scope["environments"]
           Known(ids) == \A i \in DOMAIN ids :
                            IdentifierError(ids[i], MaxIdentifierLength) = "none"
           Counted3 == /\ SetError(tenants, MaxSet) = "none"
                       /\ SetError(repositories, MaxSet) = "none"
                       /\ SetError(environments, MaxSet) = "none"
<1>1. /\ h.id \in ContractTexts /\ h.version \in ContractTexts /\ h.issuer \in ContractTexts
      /\ tenants \in Seq(ContractTexts) /\ repositories \in Seq(ContractTexts)
      /\ environments \in Seq(EnumTexts)
  BY DocumentsAssumption
<1>2. HeaderError(h) = "none" <=> h.schema = "1.0" /\ IssuedAt(h.issued) /\ Counted3
  <2> DEFINE codes == {SetError(h.scope[f], MaxSet) : f \in ScopeFields}
             scope == Errors(codes)
  <2>1. HeaderError(h) =
          IF h.schema # "1.0" THEN "UnsupportedSchemaVersion"
          ELSE IF ~IssuedAt(h.issued) THEN "InvalidIssuedAt"
          ELSE IF scope # {} THEN CHOOSE e \in scope : TRUE
          ELSE "none"
    BY DEF HeaderError
  <2>2. (\A e \in codes : e = "none") <=> Counted3
    BY DEF ScopeFields
  <2> HIDE DEF codes, Counted3
  <2>3. scope = {} <=> Counted3
    BY <2>2, NoErrors
  <2>4. scope # {} => (CHOOSE e \in scope : TRUE) # "none"
    <3>1. "none" \notin scope
      BY DEF Errors
    <3> HIDE DEF scope
    <3>2. scope # {} => (CHOOSE e \in scope : TRUE) \in scope
      OBVIOUS
    <3> QED
      BY <3>1, <3>2
  <2> HIDE DEF scope
  <2> QED
    BY <2>1, <2>3, <2>4
<1>3. HeaderShape(h) <=>
        /\ IdentifierError(h.id, MaxIdentifierLength) = "none" /\ VersionError(h.version) = "none"
        /\ IdentifierError(h.issuer, MaxIdentifierLength) = "none"
        /\ h.layer \in {"organization", "user", "repository"}
        /\ Known(tenants) /\ Known(repositories) /\ Set(environments) \subseteq Members
  <2>1. (\A f \in ScopeFields \ {"environments"} : Known(h.scope[f]))
          <=> Known(tenants) /\ Known(repositories)
    BY DEF ScopeFields
  <2> QED
    BY <2>1 DEF HeaderShape
<1>4. ASSUME NEW ids \in Seq(ContractTexts)
      PROVE  Known(ids) /\ SetError(ids, MaxSet) = "none" <=> UniqueItems(ids, 0..MaxSet, IdPattern)
  <2>1. \A i \in DOMAIN ids : ids[i] \in ContractTexts
    OBVIOUS
  <2>2. Known(ids) <=> \A i \in DOMAIN ids : IdPattern(ids[i])
    BY <2>1, IdentifierExact
  <2>3. SetError(ids, MaxSet) = "none" <=> Items(ids, 0)
    BY ScopeOf
  <2> HIDE DEF Known
  <2> QED
    BY <2>2, <2>3 DEF UniqueItems, Items, Distinct
<1>5. Set(environments) \subseteq Members /\ SetError(environments, MaxSet) = "none"
        <=> UniqueItems(environments, 0..MaxSet, IsMember)
  <2>1. SetError(environments, MaxSet) = "none" <=> Items(environments, 0)
    BY <1>1, ScopeOf
  <2>2. Set(environments) \subseteq Members <=>
          \A i \in DOMAIN environments : IsMember(environments[i])
    BY DEF Set, IsMember
  <2> HIDE DEF environments
  <2> QED
    BY <2>1, <2>2 DEF UniqueItems, Items, Distinct
<1>6. /\ IdentifierError(h.id, MaxIdentifierLength) = "none" <=> IdPattern(h.id)
      /\ IdentifierError(h.issuer, MaxIdentifierLength) = "none" <=> IdPattern(h.issuer)
      /\ VersionError(h.version) = "none" <=> VersionPattern(h.version)
  BY <1>1, IdentifierExact, VersionExact
<1>7. /\ Known(tenants) /\ SetError(tenants, MaxSet) = "none"
           <=> UniqueItems(tenants, 0..MaxSet, IdPattern)
      /\ Known(repositories) /\ SetError(repositories, MaxSet) = "none"
           <=> UniqueItems(repositories, 0..MaxSet, IdPattern)
  BY <1>1, <1>4
<1>8. HeaderConforms(h) <=>
        /\ h.schema = "1.0" /\ IdPattern(h.id) /\ VersionPattern(h.version)
        /\ h.layer \in {"organization", "user", "repository"} /\ IdPattern(h.issuer)
        /\ UniqueItems(tenants, 0..MaxSet, IdPattern)
        /\ UniqueItems(repositories, 0..MaxSet, IdPattern)
        /\ UniqueItems(environments, 0..MaxSet, IsMember)
  BY DEF HeaderConforms
<1> HIDE DEF tenants, repositories, environments, Known
<1> QED
  BY <1>2, <1>3, <1>5, <1>6, <1>7, <1>8
-----------------------------------------------------------------------------
\* The rules so far are the first ones of the document, each without a fault.
Converts ==
    /\ Len(rules) <= Len(document)
    /\ \A i \in 1..Len(rules) :
          rules[i] = Converted(document[i]) /\ RuleErrors(document[i]) = {}

\* Of a rule exactly what it selects on is loaded.
Loads(loaded, r) ==
    /\ loaded.id = r.id /\ loaded.effect = r.effect
    /\ \A d \in Selectors :
          \/ r.selects[d] = Absent /\ loaded.selects[d] = {}
          \/ /\ r.selects[d] \notin {Absent, <<>>}
             /\ loaded.selects[d] = Set(r.selects[d])

\* What the code holds a document to: what the schema says of it, lengths in
\* bytes, but of its date only the shape.
Fits(h, texts) ==
    /\ HeaderConforms(h) /\ IssuedAt(h.issued)
    /\ \A i \in DOMAIN texts : RuleConforms(texts[i], BytesIn)
    /\ \A i, j \in DOMAIN texts : texts[i].id = texts[j].id => i = j
    /\ Len(texts) <= MaxRules

\* Which is decided exactly.
Decided ==
    /\ result = "Ok" =>
          /\ Fits(header, document)
          /\ Len(rules) = Len(document)
          /\ \A r \in Set(document) : \E loaded \in Set(rules) : Loads(loaded, r)
    /\ header # Absent /\ parsing # "broken" /\ result \notin {"Parsing", "Ok"} =>
          ~Fits(header, document)

\* What is known while a document is read and converted, and that it is all of
\* it when it is over.
BundleInv ==
    /\ header \in HeaderTexts \cup {Absent}
    /\ document \in Seq(RuleTexts)
    /\ rules \in Seq({Converted(r) : r \in RuleTexts})
    /\ result = "Parsing" =>
          /\ parsing \in {"bytes", "rules", "convert"}
          /\ parsing = "bytes" => header = Absent
          /\ parsing \in {"rules", "convert"} => header \in HeaderTexts /\ HeaderShape(header)
          /\ parsing = "convert" => HeaderError(header) = "none"
          /\ \A i \in DOMAIN document : RuleShape(document[i])
          /\ Converts
    /\ Decided

LEMMA BundleStart == BundleInit => BundleInv
BY DEF BundleInit, BundleInv, Decided, Converts

\* What is refused keeps the invariant when it is not the bundle's to blame, or
\* the bundle does not conform.
LEMMA RefusedBundle ==
    ASSUME header' \in HeaderTexts \cup {Absent}, document' \in Seq(RuleTexts), rules' \in Seq({Converted(r) : r \in RuleTexts}),
           result' \notin {"Parsing", "Ok"},
           header' = Absent \/ parsing' = "broken" \/ ~Fits(header', document')
    PROVE  BundleInv'
BY DEF BundleInv, Decided

\* What every error code is not.
LEMMA SetErrorCodes ==
    ASSUME NEW array, NEW maximum
    PROVE  SetError(array, maximum) \notin {"Parsing", "Ok"}
BY DEF SetError

LEMMA HeaderErrorCodes ==
    ASSUME NEW h
    PROVE  HeaderError(h) \notin {"Parsing", "Ok"}
<1> DEFINE codes == {SetError(h.scope[f], MaxSet) : f \in ScopeFields}
           scope == Errors(codes)
<1>1. \A e \in scope : e \notin {"Parsing", "Ok"}
  BY SetErrorCodes DEF Errors
<1>2. HeaderError(h) =
        IF h.schema # "1.0" THEN "UnsupportedSchemaVersion"
        ELSE IF ~IssuedAt(h.issued) THEN "InvalidIssuedAt"
        ELSE IF scope # {} THEN CHOOSE e \in scope : TRUE
        ELSE "none"
  BY DEF HeaderError
<1> HIDE DEF scope
<1>3. scope # {} => (CHOOSE e \in scope : TRUE) \in scope
  OBVIOUS
<1> QED
  BY <1>1, <1>2, <1>3

LEMMA RuleErrorCodes ==
    ASSUME NEW r
    PROVE  \A e \in RuleErrors(r) : e \notin {"Parsing", "Ok"}
<1> DEFINE selectors == Errors({SelectorError(r.selects[d]) : d \in Selectors})
<1>1. \A e \in selectors : e \notin {"Parsing", "Ok"}
  <2>1. \A d : SelectorError(r.selects[d]) \notin {"Parsing", "Ok"}
    BY SetErrorCodes DEF SelectorError
  <2> QED
    BY <2>1 DEF Errors
<1>2. RuleErrors(r) =
        IF selectors # {} THEN selectors
        ELSE IF InvalidPrefix(r) THEN {"Invalid"}
        ELSE IF Len(r.alternatives) > MaxAlternatives THEN {"TooManyValues"}
        ELSE IF SetError(r.categories, MaxSet) # "none"
          THEN {SetError(r.categories, MaxSet)}
        ELSE IF InvalidRule(r) THEN {"Invalid"}
        ELSE {}
  BY DEF RuleErrors
<1> HIDE DEF selectors
<1> QED
  BY <1>1, <1>2, SetErrorCodes

-----------------------------------------------------------------------------
\* Refused before serde is called, or in the middle of what is not JSON.
LEMMA BytesRefused ==
    ASSUME BundleInv, TooLarge \/ NotUtf8 \/ Malformed
    PROVE  BundleInv'
<1>1. CASE TooLarge \/ NotUtf8
  <2>1. /\ header' = Absent /\ document' = document /\ rules' = rules
        /\ result' \notin {"Parsing", "Ok"}
    BY <1>1 DEF TooLarge, NotUtf8, FailBundle, BundleInv
  <2> QED
    BY <2>1, RefusedBundle DEF BundleInv
<1>2. CASE Malformed
  BY <1>2, RefusedBundle DEF Malformed, BundleInv
<1> QED
  BY <1>1, <1>2

LEMMA ReadHeaderKeeps ==
    ASSUME BundleInv, NEW h \in HeaderTexts, ReadHeader(h)
    PROVE  BundleInv'
<1>1. /\ parsing = "bytes" /\ result = "Parsing" /\ header' = h
      /\ document' = document /\ rules' = rules
  BY DEF ReadHeader
<1>2. CASE HeaderShape(h)
  <2>1. parsing' = "rules" /\ result' = "Parsing"
    BY <1>1, <1>2 DEF ReadHeader
  <2> QED
    BY <1>1, <1>2, <2>1 DEF BundleInv, Decided, Converts
<1>3. CASE ~HeaderShape(h)
  <2>1. result' = "MalformedShape"
    BY <1>3 DEF ReadHeader
  <2>2. ~Fits(header', document')
    BY <1>1, <1>3, HeaderExact DEF Fits
  <2> QED
    BY <1>1, <2>1, <2>2, RefusedBundle DEF BundleInv
<1> QED
  BY <1>2, <1>3

LEMMA ReadRuleKeeps ==
    ASSUME BundleInv, NEW r \in RuleTexts, ReadRule(r)
    PROVE  BundleInv'
<1>1. /\ parsing = "rules" /\ result = "Parsing" /\ document' = Append(document, r)
      /\ header' = header /\ rules' = rules /\ parsing' = parsing
      /\ result' = IF RuleShape(r) THEN result ELSE "MalformedShape"
  BY DEF ReadRule
<1>2. document \in Seq(RuleTexts)
  BY DEF BundleInv
<1>3. /\ document' \in Seq(RuleTexts) /\ Len(document) \in Nat
      /\ Len(document') = Len(document) + 1 /\ document'[Len(document) + 1] = r
      /\ DOMAIN document = 1..Len(document) /\ DOMAIN document' = 1..Len(document')
      /\ \A i \in 1..Len(document) : document'[i] = document[i]
  BY <1>1, <1>2, AppendProperties
<1>4. CASE RuleShape(r)
  <2>1. result' = "Parsing"
    BY <1>1, <1>4
  <2>2. \A i \in DOMAIN document' : RuleShape(document'[i])
    <3> TAKE i \in DOMAIN document'
    <3>1. CASE i = Len(document) + 1
      BY <1>3, <1>4, <3>1
    <3>2. CASE i # Len(document) + 1
      <4>1. i \in DOMAIN document
        BY <1>3, <3>2
      <4> QED
        BY <1>1, <1>3, <4>1 DEF BundleInv
    <3> QED
      BY <3>1, <3>2
  <2>3. Converts'
    <3>1. Len(rules) \in Nat /\ Converts
      BY <1>1 DEF BundleInv
    <3>2. 1..Len(rules) \subseteq 1..Len(document) /\ Len(rules) <= Len(document')
      BY <1>3, <3>1 DEF Converts
    <3>3. \A i \in 1..Len(rules) : document'[i] = document[i]
      BY <1>3, <3>2
    <3> QED
      BY <1>1, <3>1, <3>2, <3>3 DEF Converts
  <2> QED
    BY <1>1, <1>3, <2>1, <2>2, <2>3 DEF BundleInv, Decided
<1>5. CASE ~RuleShape(r)
  <2>1. result' = "MalformedShape"
    BY <1>1, <1>5
  <2>2. ~Fits(header', document')
    <3>1. ~RuleConforms(document'[Len(document) + 1], BytesIn) /\ Len(document) + 1 \in DOMAIN document'
      BY <1>3, <1>5, RuleExact
    <3> QED
      BY <3>1 DEF Fits
  <2> QED
    BY <1>1, <1>3, <2>1, <2>2, RefusedBundle DEF BundleInv
<1> QED
  BY <1>4, <1>5

LEMMA EndOfDocumentKeeps ==
    ASSUME BundleInv, EndOfDocument
    PROVE  BundleInv'
<1>1. /\ parsing = "rules" /\ result = "Parsing" /\ header \in HeaderTexts
      /\ header' = header /\ document' = document /\ rules' = rules
  BY DEF EndOfDocument, FailBundle, BundleInv
<1>2. CASE HeaderError(header) # "none"
  <2>1. result' = HeaderError(header)
    BY <1>2 DEF EndOfDocument, FailBundle
  <2>2. result' \notin {"Parsing", "Ok"}
    BY <2>1, HeaderErrorCodes
  <2>3. ~Fits(header', document')
    BY <1>1, <1>2, HeaderExact DEF Fits
  <2> QED
    BY <1>1, <2>2, <2>3, RefusedBundle DEF BundleInv
<1>3. CASE HeaderError(header) = "none"
  <2>1. parsing' = "convert" /\ result' = "Parsing"
    BY <1>1, <1>3 DEF EndOfDocument
  <2> QED
    BY <1>1, <1>3, <2>1 DEF BundleInv, Decided, Converts
<1> QED
  BY <1>2, <1>3

LEMMA ConvertRuleKeeps ==
    ASSUME BundleInv, ConvertRule
    PROVE  BundleInv'
<1> DEFINE n == Len(rules) + 1
<1>1. /\ parsing = "convert" /\ result = "Parsing" /\ Len(rules) < Len(document)
      /\ header' = header /\ document' = document /\ parsing' = parsing
      /\ document \in Seq(RuleTexts) /\ rules \in Seq({Converted(r) : r \in RuleTexts})
      /\ Converts
  BY DEF ConvertRule, RejectRule, FailBundle, BundleInv
<1>2. Len(rules) \in Nat /\ n \in DOMAIN document /\ Current = document[n] /\ Current \in RuleTexts
  BY <1>1 DEF Current
<1>3. CASE RuleErrors(Current) # {}
  <2>1. PICK error \in RuleErrors(Current) : FailBundle(error)
    BY <1>3 DEF ConvertRule, RejectRule
  <2>2. result' \notin {"Parsing", "Ok"} /\ rules' = rules
    BY <2>1, RuleErrorCodes DEF FailBundle
  <2>3. ~Fits(header', document')
    <3>1. ~RuleConforms(Current, BytesIn)
      BY <1>2, <1>3, RuleExact
    <3> QED
      BY <1>1, <1>2, <3>1 DEF Fits
  <2> QED
    BY <1>1, <2>2, <2>3, RefusedBundle DEF BundleInv
<1>4. CASE RuleErrors(Current) = {}
  <2> DEFINE next == Converted(Current)
             C == {Converted(r) : r \in RuleTexts}
  <2>1. rules' = Append(rules, next) /\ result' = "Parsing"
    BY <1>1, <1>4 DEF ConvertRule
  <2>2. next \in C /\ rules \in Seq(C)
    BY <1>1, <1>2
  <2> HIDE DEF C
  <2>3. /\ rules' \in Seq(C) /\ Len(rules') = n /\ rules'[n] = next
        /\ \A i \in 1..Len(rules) : rules'[i] = rules[i]
    BY <2>1, <2>2, AppendProperties
  <2>4. Converts'
    <3>1. n <= Len(document)
      BY <1>1, <1>2
    <3>2. ASSUME NEW i \in 1..n
          PROVE  rules'[i] = Converted(document[i]) /\ RuleErrors(document[i]) = {}
      <4>1. CASE i = n
        BY <1>2, <1>4, <2>3, <4>1
      <4>2. CASE i # n
        <5>1. i \in 1..Len(rules)
          BY <1>2, <4>2
        <5> QED
          BY <1>1, <2>3, <5>1 DEF Converts
      <4> QED
        BY <4>1, <4>2
    <3> QED
      BY <1>1, <2>3, <3>1, <3>2 DEF Converts
  <2>5. rules' \in Seq({Converted(r) : r \in RuleTexts})
    BY <2>3 DEF C
  <2> QED
    BY <1>1, <2>1, <2>4, <2>5 DEF BundleInv, Decided
<1> QED
  BY <1>3, <1>4

LEMMA FaultlessLoads ==
    ASSUME NEW r, RuleErrors(r) = {}
    PROVE  Loads(Converted(r), r)
<1> DEFINE codes == {SelectorError(r.selects[d]) : d \in Selectors}
<1>1. Errors(codes) = {}
  BY DEF RuleErrors
<1>2. \A e \in codes : e = "none"
  <2> HIDE DEF codes
  <2> QED
    BY <1>1, NoErrors
<1>3. \A d \in Selectors : SelectorError(r.selects[d]) = "none"
  BY <1>2
<1>4. \A d \in Selectors : r.selects[d] = Absent \/ r.selects[d] \notin {Absent, <<>>}
  <2> TAKE d \in Selectors
  <2>1. SelectorError(r.selects[d]) = "none"
    BY <1>3
  <2> QED
    BY <2>1 DEF SelectorError
<1>5. /\ Converted(r).id = r.id /\ Converted(r).effect = r.effect
      /\ \A d \in Selectors : Converted(r).selects[d] =
            IF r.selects[d] = Absent THEN {} ELSE Set(r.selects[d])
  BY DEF Converted
<1> QED
  BY <1>4, <1>5 DEF Loads

LEMMA ValidateKeeps ==
    ASSUME BundleInv, Validate
    PROVE  BundleInv'
<1> DEFINE C == {Converted(r) : r \in RuleTexts}
           ids == [i \in DOMAIN rules |-> rules[i].id]
<1>1. /\ parsing = "convert" /\ result = "Parsing" /\ Len(rules) = Len(document)
      /\ header' = header /\ document' = document /\ parsing' = parsing
      /\ header \in HeaderTexts /\ HeaderShape(header) /\ HeaderError(header) = "none"
      /\ document \in Seq(RuleTexts) /\ rules \in Seq(C)
      /\ \A i \in DOMAIN document : RuleShape(document[i])
      /\ Converts
  BY DEF Validate, FailBundle, BundleInv
<1>2. /\ Len(rules) \in Nat /\ DOMAIN rules = 1..Len(rules) /\ DOMAIN document = 1..Len(rules)
      /\ DOMAIN ids = 1..Len(rules)
  BY <1>1
<1>3. \A i \in DOMAIN document : /\ rules[i] = Converted(document[i])
                                 /\ RuleErrors(document[i]) = {}
                                 /\ document[i] \in RuleTexts /\ rules[i].id = document[i].id
  <2> TAKE i \in DOMAIN document
  <2>1. rules[i] = Converted(document[i]) /\ RuleErrors(document[i]) = {}
    BY <1>1, <1>2 DEF Converts
  <2>2. Converted(document[i]).id = document[i].id
    BY DEF Converted
  <2>3. document[i] \in RuleTexts
    BY <1>1
  <2> QED
    BY <2>1, <2>2, <2>3
<1>4. Cardinality({rules[i].id : i \in DOMAIN rules}) = Len(rules) <=>
        \A i, j \in DOMAIN document : document[i].id = document[j].id => i = j
  <2>1. {rules[i].id : i \in DOMAIN rules} = {ids[i] : i \in DOMAIN ids}
    OBVIOUS
  <2>2. \A i \in DOMAIN document : ids[i] = document[i].id
    BY <1>2, <1>3
  <2> HIDE DEF ids
  <2>3. Cardinality({ids[i] : i \in DOMAIN ids}) = Len(rules) <=> Distinct(ids)
    BY <1>2, CountedOnce
  <2> QED
    BY <1>2, <2>1, <2>2, <2>3 DEF Distinct
<1> HIDE DEF ids
<1>5. HeaderConforms(header) /\ IssuedAt(header.issued) /\ \A i \in DOMAIN document : RuleConforms(document[i], BytesIn)
  BY <1>1, <1>3, HeaderExact, RuleExact
<1>6. Fits(header, document) <=>
        /\ Cardinality({rules[i].id : i \in DOMAIN rules}) = Len(rules)
        /\ ~(Len(rules) > MaxRules)
  <2>1. MaxRules \in Nat
    BY CapsAssumption
  <2>2. Len(document) <= MaxRules <=> ~(Len(rules) > MaxRules)
    BY <1>1, <1>2, <2>1
  <2> QED
    BY <1>4, <1>5, <2>2 DEF Fits
<1>7. CASE ~Fits(header, document)
  <2>1. FailBundle("Invalid")
    BY <1>6, <1>7 DEF Validate
  <2> QED
    BY <1>1, <1>7, <2>1, RefusedBundle DEF FailBundle
<1>8. CASE Fits(header, document)
  <2>1. /\ result' = "Ok"
        /\ \E sorted \in [DOMAIN rules -> Set(rules)] :
              Set(sorted) = Set(rules) /\ rules' = sorted
    BY <1>6, <1>8 DEF Validate
  <2>2. rules' \in [DOMAIN rules -> Set(rules)] /\ Set(rules') = Set(rules)
    BY <2>1
  <2>3. Set(rules) \subseteq C
    BY <1>1 DEF Set
  <2>4. rules' \in Seq(C) /\ Len(rules') = Len(rules)
    <3> HIDE DEF C
    <3>1. rules' \in [1..Len(rules) -> C]
      BY <1>2, <2>2, <2>3
    <3> QED
      BY <1>2, <3>1
  <2>5. \A r \in Set(document) : \E loaded \in Set(rules') : Loads(loaded, r)
    <3> TAKE r \in Set(document)
    <3>1. PICK i \in DOMAIN document : r = document[i]
      BY DEF Set
    <3>2. Loads(rules[i], r)
      BY <1>3, <3>1, FaultlessLoads
    <3>3. rules[i] \in Set(rules)
      BY <1>2, <3>1 DEF Set
    <3> QED
      BY <2>2, <3>2, <3>3
  <2>6. Fits(header', document')
    BY <1>1, <1>8
  <2>7. Decided'
    <3>1. Set(document') = Set(document) /\ Len(rules') = Len(document')
      BY <1>1, <2>4
    <3>2. \A r \in Set(document') : \E loaded \in Set(rules') : Loads(loaded, r)
      BY <2>5, <3>1
    <3> QED
      BY <2>1, <2>6, <3>1, <3>2 DEF Decided, Loads
  <2> QED
    BY <1>1, <2>1, <2>4, <2>7 DEF BundleInv
<1> QED
  BY <1>7, <1>8

-----------------------------------------------------------------------------
\* What is short enough in bytes is so in characters.
LEMMA FitsInCharacters ==
    ASSUME NEW maximum \in Nat, NEW t \in Prose, BytesIn[t] \in 1..maximum
    PROVE  CharsIn[t] \in 1..maximum
BY ProseAssumption

LEMMA RuleInCharacters ==
    ASSUME NEW r \in RuleTexts, RuleConforms(r, BytesIn)
    PROVE  RuleConforms(r, CharsIn)
<1> DEFINE paths == r.selects["canonical_path_prefixes"]
<1>1. /\ r.rationale \in Prose /\ r.alternatives \in Seq(Prose)
      /\ paths \in Seq(Prose) \cup {Absent}
      /\ MaxText \in Nat /\ MaxPrefix \in Nat
  BY DocumentsAssumption, CapsAssumption
<1>2. ASSUME NEW array \in Seq(Prose), NEW maximum \in Nat, Fit(array, BytesIn, maximum)
      PROVE  Fit(array, CharsIn, maximum)
  <2>1. \A i \in DOMAIN array : array[i] \in Prose /\ BytesIn[array[i]] \in 1..maximum
    BY <1>2 DEF Fit
  <2> QED
    BY <2>1, FitsInCharacters DEF Fit
<1>3. CharsIn[r.rationale] \in 1..MaxText /\ Fit(r.alternatives, CharsIn, MaxText)
  BY <1>1, <1>2, FitsInCharacters DEF RuleConforms
<1>4. paths # Absent /\ Fit(paths, BytesIn, MaxPrefix) => Fit(paths, CharsIn, MaxPrefix)
  BY <1>1, <1>2
<1>5. \A d \in Selectors : r.selects[d] # Absent =>
          \/ d \in NameDimensions /\ UniqueItems(r.selects[d], 1..MaxSet, NamePattern)
          \/ d \in EnumDimensions /\ UniqueItems(r.selects[d], 1..MaxSet, IsMember)
          \/ /\ d = "canonical_path_prefixes"
             /\ UniqueItems(r.selects[d], 1..MaxSet, IsProse)
             /\ Fit(r.selects[d], CharsIn, MaxPrefix)
  BY <1>4 DEF RuleConforms
<1> QED
  BY <1>3, <1>5 DEF RuleConforms

\* A date-time of the schema whose T is a capital has the shape looked for.
LEMMA DatedIsIssued ==
    ASSUME NEW h \in HeaderTexts, Dated(h), h.issued.capital
    PROVE  IssuedAt(h.issued)
<1>1. /\ h.issued.chars \in Nat /\ h.issued.bytes \in Nat /\ h.issued.chars <= 35
      /\ h.issued.printable /\ h.issued.chars = h.issued.bytes
      /\ h.issued.bytes >= 20 /\ h.issued.shaped
  BY DocumentsAssumption DEF Dated
<1> QED
  BY <1>1 DEF IssuedAt

LEMMA DecidedIsWhole ==
    ASSUME BundleInv
    PROVE  BundleIsWhole
<1>1. ASSUME result = "Ok"
      PROVE  /\ HeaderConforms(header) /\ RulesConform(CharsIn)
             /\ Len(rules) = Len(document)
             /\ \A r \in Set(document) : \E loaded \in Set(rules) : Loads(loaded, r)
  <2>1. /\ Fits(header, document) /\ Len(rules) = Len(document)
        /\ \A r \in Set(document) : \E loaded \in Set(rules) : Loads(loaded, r)
    BY <1>1 DEF BundleInv, Decided
  <2>2. \A i \in DOMAIN document :
          document[i] \in RuleTexts /\ RuleConforms(document[i], BytesIn)
    BY <2>1 DEF BundleInv, Fits
  <2>3. \A i \in DOMAIN document : RuleConforms(document[i], CharsIn)
    BY <2>2, RuleInCharacters
  <2> QED
    BY <2>1, <2>3 DEF Fits, RulesConform
<1>2. ASSUME header # Absent, parsing # "broken", result \notin {"Parsing", "Ok"},
             HeaderConforms(header), RulesConform(BytesIn),
             Dated(header), header.issued.capital
      PROVE  FALSE
  <2>1. ~Fits(header, document) /\ header \in HeaderTexts
    BY <1>2 DEF BundleInv, Decided
  <2>2. IssuedAt(header.issued)
    BY <1>2, <2>1, DatedIsIssued
  <2> QED
    BY <1>2, <2>1, <2>2 DEF Fits, RulesConform
<1> QED
  BY <1>1, <1>2 DEF BundleIsWhole, Loads

\* A bundle is all or nothing, however many rules a document has and whatever
\* stands in them, for texts and arrays of any length.  What loads has a header
\* and rules that the schema admits, and all of it is loaded exactly; what the
\* schema admits is not refused for its values when its lengths are kept in
\* bytes too and its date has a capital T.
THEOREM BundleWhole == BundleSpec => []BundleIsWhole
<1>1. BundleInit => BundleInv
  BY BundleStart
<1>2. BundleInv /\ [BundleNext]_bundleVars => BundleInv'
  <2> SUFFICES ASSUME BundleInv, [BundleNext]_bundleVars PROVE BundleInv'
    OBVIOUS
  <2>1. CASE TooLarge \/ NotUtf8 \/ Malformed
    BY <2>1, BytesRefused
  <2>2. CASE \E h \in HeaderTexts : ReadHeader(h)
    BY <2>2, ReadHeaderKeeps
  <2>3. CASE \E r \in RuleTexts : ReadRule(r)
    BY <2>3, ReadRuleKeeps
  <2>4. CASE EndOfDocument
    BY <2>4, EndOfDocumentKeeps
  <2>5. CASE ConvertRule
    BY <2>5, ConvertRuleKeeps
  <2>6. CASE Validate
    BY <2>6, ValidateKeeps
  <2>7. CASE UNCHANGED bundleVars
    BY <2>7 DEF bundleVars, BundleInv, Decided, Converts
  <2> QED
    BY <2>1, <2>2, <2>3, <2>4, <2>5, <2>6, <2>7 DEF BundleNext
<1>3. BundleInv => BundleIsWhole
  BY DecidedIsWhole
<1> QED
  BY <1>1, <1>2, <1>3, PTL DEF BundleSpec
=============================================================================
