------------------------- MODULE Playground_proofs -------------------------
(***************************************************************************)
(* Theorems about the code, the language, the URL, the storage and the     *)
(* links of a page, for any languages, examples and texts.                 *)
(***************************************************************************)
EXTENDS Playground, SequenceTheorems, TLAPS

USE PlaygroundAssumption

-----------------------------------------------------------------------------
(* The inductive invariant, in named parts.                                *)

(* A stored code has the language it was written for beside it, and what   *)
(* is stored is what is shown once the debounced store has run.            *)
Stored == /\ storedCode # None => storedFor # None
          /\ ~timer => storedCode = code /\ storedLang = lang

(* The addresses that name no snippet or a stored one.                     *)
Keyed == {u \in Urls : u.s <= Len(shared)}

(* The addresses of the page and its fetches name stored snippets only.    *)
Known == /\ url \in Keyed /\ past \in Seq(Keyed) /\ ahead \in Seq(Keyed)
         /\ \A f \in loads : f.key <= Len(shared)

(* A URL that names no code names no language but the one that is shown,   *)
(* unless the visitor went back or forward to it.                          *)
Named == url.s = 0 /\ url.e = None /\ ~moved => url.l \in {None, lang}

(* A link names its language, and its code by a snippet or an example.     *)
Linking ==
  link # NoLink =>
    /\ link.url.l = link.lang
    /\ link.url.s # 0 => /\ link.url.s <= Len(shared)
                         /\ shared[link.url.s].code = link.code
    /\ link.url.s = 0 => /\ link.url.e \in Examples(link.lang)
                         /\ Example[link.lang][link.url.e] = link.code

IInv == TypeOK /\ Stored /\ Known /\ Named /\ Linking /\ LanguageOfCode

-----------------------------------------------------------------------------
(* What the functions of utils.ts return.                                  *)

LEMMA ExampleTyped ==
  ASSUME NEW l \in Langs
  PROVE  /\ \A i \in Examples(l) : /\ i \in Ids
                                   /\ Example[l][i] \in Codes \ {Empty, None}
         /\ Fallback(l) \in Codes \ {Empty, None}
BY DEF Examples, Fallback

LEMMA LanguageTyped ==
  ASSUME NEW u \in Urls, NEW sl \in Langs \cup {None}
  PROVE  LanguageOf(u, sl) \in Langs
BY DEF LanguageOf, Urls

LEMMA CodeTyped ==
  ASSUME NEW u \in Urls, u.s = 0, NEW l \in Langs, NEW sc \in Codes \cup {None}
  PROVE  CodeAtOnce(u, l, sc) \in Codes
<1>1. u.e \in Ids \cup {None}
  BY DEF Urls
<1>2. CASE u.e # None
  BY <1>1, <1>2, ExampleTyped DEF CodeAtOnce
<1>3. CASE u.e = None
  BY <1>3, ExampleTyped DEF CodeAtOnce
<1> QED
  BY <1>2, <1>3

LEMMA FetchTyped ==
  ASSUME TypeOK, NEW key \in 1..Len(shared), NEW l \in Langs, NEW ok \in BOOLEAN
  PROVE  /\ CodeFetched(key, l, ok) \in Codes
         /\ shared[key] \in Snippet
<1>1. shared[key] \in Snippet
  BY DEF TypeOK
<1> QED
  BY <1>1, ExampleTyped DEF CodeFetched, Snippet

(* A snippet, once stored, stays what it was.                              *)
LEMMA SharedGrows ==
  ASSUME TypeOK, NEW h \in Snippet, shared' = Append(shared, h)
  PROVE  /\ shared' \in Seq(Snippet) /\ Len(shared') = Len(shared) + 1
         /\ Len(shared) \in Nat
         /\ \A k \in 1..Len(shared) : shared'[k] = shared[k]
         /\ shared'[Len(shared) + 1] = h
BY DEF TypeOK

(* An address that named a stored snippet still does.                      *)
LEMMA KeyedGrows ==
  ASSUME Len(shared) \in Nat, Len(shared') \in Nat, Len(shared) <= Len(shared')
  PROVE  /\ Keyed \subseteq Keyed' /\ Seq(Keyed) \subseteq Seq(Keyed')
         /\ Keyed \subseteq Urls /\ Seq(Keyed) \subseteq Seq(Urls)
<1>1. Keyed \subseteq Keyed' /\ Keyed \subseteq Urls
  BY DEF Keyed, Urls
<1> QED
  BY <1>1, SeqMonotonic

(* The steps of the browser's history keep its entries what they are.      *)
EntriesIn(K, p, a) == /\ p \in Seq(K) /\ a \in Seq(K)
                      /\ Len(p) + Len(a) <= MaxEntries

LEMMA PushKeeps ==
  ASSUME NEW K, NEW u \in K, url \in K, EntriesIn(K, past, ahead), PushURL(u)
  PROVE  url' = u /\ EntriesIn(K, past', ahead')
<1>1. /\ past \in Seq(K) /\ Len(past) \in Nat /\ Len(ahead) \in Nat
      /\ Len(past) <= MaxEntries /\ MaxEntries \in Nat
  BY DEF EntriesIn
<1>2. url' = u /\ ahead' = <<>> /\ ahead' \in Seq(K) /\ Len(ahead') = 0
  BY DEF PushURL
<1>3. CASE MaxEntries = 0
  BY <1>2, <1>3 DEF PushURL, EntriesIn
<1>4. CASE MaxEntries # 0 /\ Len(past) < MaxEntries
  BY <1>1, <1>2, <1>4 DEF PushURL, EntriesIn
<1>5. CASE MaxEntries # 0 /\ ~(Len(past) < MaxEntries)
  <2>1. Tail(past) \in Seq(K) /\ Len(Tail(past)) = Len(past) - 1
    BY <1>1, <1>5
  <2>2. past' = Append(Tail(past), url)
    BY <1>5 DEF PushURL
  <2> QED
    BY <1>1, <1>2, <1>5, <2>1, <2>2 DEF EntriesIn
<1> QED
  BY <1>3, <1>4, <1>5

LEMMA GoKeeps ==
  ASSUME NEW K, url \in K, EntriesIn(K, past, ahead), Back \/ Forward
  PROVE  url' \in K /\ EntriesIn(K, past', ahead')
<1>1. /\ past \in Seq(K) /\ Len(past) \in Nat
      /\ ahead \in Seq(K) /\ Len(ahead) \in Nat
      /\ Len(past) + Len(ahead) <= MaxEntries
  BY DEF EntriesIn
<1>2. CASE Back
  <2>1. /\ Len(past) # 0 /\ url' = past[Len(past)]
        /\ past' = SubSeq(past, 1, Len(past) - 1) /\ ahead' = <<url>> \o ahead
    BY <1>1, <1>2, EmptySeq DEF Back, GoTo, Last, Front
  <2>2. past' \in Seq(K) /\ Len(past') = Len(past) - 1 /\ url' \in K
    BY <1>1, <2>1
  <2>3. ahead' \in Seq(K) /\ Len(ahead') = Len(ahead) + 1
    BY <1>1, <2>1
  <2> QED
    BY <1>1, <2>2, <2>3 DEF EntriesIn
<1>3. CASE Forward
  <2>1. /\ ahead # <<>> /\ url' = Head(ahead)
        /\ past' = Append(past, url) /\ ahead' = Tail(ahead)
    BY <1>3 DEF Forward, GoTo
  <2>2. ahead' \in Seq(K) /\ Len(ahead') = Len(ahead) - 1 /\ url' \in K
    BY <1>1, <2>1
  <2>3. past' \in Seq(K) /\ Len(past') = Len(past) + 1
    BY <1>1, <2>1
  <2> QED
    BY <1>1, <2>2, <2>3 DEF EntriesIn
<1> QED
  BY <1>2, <1>3

LEMMA KeyedEntries ==
  ASSUME TypeOK, Known
  PROVE  url \in Keyed /\ EntriesIn(Keyed, past, ahead) /\ Len(shared) \in Nat
BY DEF TypeOK, Known, EntriesIn

-----------------------------------------------------------------------------
LEMMA InitIInv == Init => IInv
<1> SUFFICES ASSUME Init PROVE IInv
  OBVIOUS
<1>1. PICK u \in Addresses : /\ url = u
                             /\ lang = LanguageOf(u, None)
                             /\ code = CodeAtOnce(u, lang, None)
  BY DEF Init
<1>2. u \in Urls /\ u.s = 0
  <2>1. u \in Urls /\ u.s <= 0 /\ u.s \in Nat
    BY DEF Addresses, Urls, Init
  <2> QED
    BY <2>1
<1>3. lang \in Langs
  BY <1>1, <1>2, LanguageTyped
<1>4. code \in Codes
  BY <1>1, <1>2, <1>3, CodeTyped
<1>5. TypeOK
  <2>1. /\ shared = <<>> /\ loads = {} /\ shares = {} /\ link = NoLink
        /\ storedCode = None /\ storedLang = None /\ storedFor = None
        /\ written = lang /\ astray = FALSE /\ timer = TRUE
        /\ past = <<>> /\ ahead = <<>> /\ moved = FALSE
    BY DEF Init
  <2>2. shared \in Seq(Snippet) /\ Len(shared) <= MaxShares
    BY <2>1
  <2>3. /\ past \in Seq(Urls) /\ ahead \in Seq(Urls)
        /\ Len(past) + Len(ahead) <= MaxEntries
    BY <2>1
  <2> QED
    BY <1>1, <1>2, <1>3, <1>4, <2>1, <2>2, <2>3 DEF TypeOK
<1>6. Stored /\ Known /\ Linking /\ LanguageOfCode
  <2>1. url \in Keyed
    BY <1>1 DEF Addresses, Keyed
  <2> QED
    BY <1>1, <1>2, <2>1 DEF Init, Stored, Known, Linking, LanguageOfCode
<1>7. Named
  BY <1>1, <1>2 DEF Named, LanguageOf
<1> QED
  BY <1>5, <1>6, <1>7 DEF IInv

(* The page is opened or reloaded.                                         *)
LEMMA OpenStep ==
  ASSUME IInv, NEW u \in Keyed, OpenAt(u),
         \/ past' = past /\ ahead' = ahead
         \/ past' = <<>> /\ ahead' = <<>>
  PROVE  IInv'
<1>0. TypeOK /\ Stored /\ Known /\ Linking /\ u \in Urls /\ u.s <= Len(shared)
  BY DEF IInv, Keyed
<1>1. /\ url' = u /\ lang' = LanguageOf(u, storedLang)
      /\ code' = IF u.s # 0 THEN Empty ELSE CodeAtOnce(u, lang', storedCode)
      /\ written' = IF u.s = 0 /\ u.e = None /\ storedCode \notin {None, Empty}
                    THEN storedFor ELSE lang'
      /\ loads' = IF u.s # 0 THEN {} \cup {[key |-> u.s, lang |-> lang']} ELSE {}
      /\ astray' = (storedCode # None /\ storedFor # lang')
      /\ timer' = (timer \/ TRUE) /\ shares' = {} /\ moved' = FALSE
      /\ UNCHANGED <<storedCode, storedLang, storedFor, link, shared>>
  BY DEF OpenAt, Determine, Debounce, storage
<1>2. lang' \in Langs
  BY <1>0, <1>1, LanguageTyped DEF TypeOK
<1>3. code' \in Codes
  <2>1. CASE u.s = 0
    BY <1>0, <1>1, <1>2, <2>1, CodeTyped DEF TypeOK
  <2>2. CASE u.s # 0
    BY <1>1, <2>2
  <2> QED
    BY <2>1, <2>2
<1>4. written' \in Langs /\ LanguageOfCode'
  BY <1>0, <1>1, <1>2 DEF TypeOK, Stored, LanguageOfCode
<1>5. loads' \subseteq Load /\ \A f \in loads' : f.key <= Len(shared)
  <2>1. CASE u.s = 0
    BY <1>1, <2>1
  <2>2. CASE u.s # 0
    <3>1. loads' = {[key |-> u.s, lang |-> lang']} /\ u.s \in 1..MaxShares
      BY <1>0, <1>1, <2>2 DEF Urls
    <3> QED
      BY <1>0, <1>2, <3>1 DEF Load
  <2> QED
    BY <2>1, <2>2
<1>6. TypeOK'
  <2>1. /\ shares' \subseteq Snippet /\ timer' \in BOOLEAN /\ astray' \in BOOLEAN
        /\ moved' \in BOOLEAN
    BY <1>1
  <2>2. /\ past' \in Seq(Urls) /\ ahead' \in Seq(Urls)
        /\ Len(past') + Len(ahead') <= MaxEntries
    <3>1. CASE past' = past /\ ahead' = ahead
      BY <1>0, <3>1 DEF TypeOK
    <3>2. CASE past' = <<>> /\ ahead' = <<>>
      BY <3>2, EmptySeq
    <3> QED
      BY <3>1, <3>2
  <2> QED
    BY <1>0, <1>1, <1>2, <1>3, <1>4, <1>5, <2>1, <2>2 DEF TypeOK
<1>7. Stored' /\ Known' /\ Linking'
  <2>1. Keyed' = Keyed
    BY <1>1 DEF Keyed
  <2>2. past' \in Seq(Keyed) /\ ahead' \in Seq(Keyed)
    <3>1. CASE past' = past /\ ahead' = ahead
      BY <1>0, <3>1 DEF Known
    <3>2. CASE past' = <<>> /\ ahead' = <<>>
      BY <3>2, EmptySeq
    <3> QED
      BY <3>1, <3>2
  <2> QED
    BY <1>0, <1>1, <1>5, <2>1, <2>2 DEF Stored, Known, Linking
<1>8. Named'
  BY <1>1 DEF Named, LanguageOf
<1> QED
  BY <1>4, <1>6, <1>7, <1>8 DEF IInv

LEMMA OpenAnyStep ==
  ASSUME IInv, Open PROVE IInv'
<1>1. PICK u \in Addresses : /\ OpenAt(u)
                             /\ \/ past' = past /\ ahead' = ahead
                                \/ past' = <<>> /\ ahead' = <<>>
  BY DEF Open
<1>2. u \in Keyed
  BY DEF Addresses, Keyed
<1> QED
  BY <1>1, <1>2, OpenStep

(* Only the address changes.                                               *)
LEMMA GoStep ==
  ASSUME IInv, Back \/ Forward PROVE IInv'
<1>1. /\ UNCHANGED <<stateVars, storage, timer, loads, shares, link, shared>>
      /\ moved' = TRUE
  BY DEF Back, Forward, GoTo
<1>2. url \in Keyed /\ EntriesIn(Keyed, past, ahead) /\ Keyed' = Keyed
  BY <1>1, KeyedEntries DEF IInv, Keyed
<1>3. url' \in Keyed /\ EntriesIn(Keyed, past', ahead')
  BY <1>2, GoKeeps
<1>4. Keyed \subseteq Urls /\ Seq(Keyed) \subseteq Seq(Urls)
  BY SeqMonotonic DEF Keyed
<1>5. /\ url' \in Urls /\ past' \in Seq(Urls) /\ ahead' \in Seq(Urls)
      /\ Len(past') + Len(ahead') <= MaxEntries /\ moved' \in BOOLEAN
      /\ url' \in Keyed' /\ past' \in Seq(Keyed') /\ ahead' \in Seq(Keyed')
  BY <1>1, <1>2, <1>3, <1>4 DEF EntriesIn
<1> QED
  BY <1>1, <1>5 DEF IInv, TypeOK, Stored, Known, Named, Linking,
     LanguageOfCode, stateVars, storage

(* An address more, and the parts that depend on the address alone.        *)
LEMMA PushStep ==
  ASSUME TypeOK, Known, NEW u \in Urls, PushURL(u), Len(shared') \in Nat,
         u.s <= Len(shared'), Len(shared) <= Len(shared')
  PROVE  /\ url' = u
         /\ past' \in Seq(Urls) /\ ahead' \in Seq(Urls)
         /\ Len(past') + Len(ahead') <= MaxEntries
         /\ url' \in Keyed' /\ past' \in Seq(Keyed') /\ ahead' \in Seq(Keyed')
<1>1. url \in Keyed /\ EntriesIn(Keyed, past, ahead) /\ Len(shared) \in Nat
  BY KeyedEntries
<1>2. Keyed \subseteq Keyed' /\ Seq(Keyed) \subseteq Seq(Keyed')
  BY <1>1, KeyedGrows
<1>3. u \in Keyed' /\ url \in Keyed' /\ EntriesIn(Keyed', past, ahead)
  BY <1>1, <1>2 DEF Keyed, EntriesIn
<1>4. url' = u /\ EntriesIn(Keyed', past', ahead')
  BY <1>3, PushKeeps
<1>5. Keyed' \subseteq Urls
  BY DEF Keyed, Urls
<1>6. Seq(Keyed') \subseteq Seq(Urls)
  BY <1>5, SeqMonotonic
<1> QED
  BY <1>3, <1>4, <1>6 DEF EntriesIn

LEMMA EditStep ==
  ASSUME IInv, NEW c \in Codes, Edit(c) PROVE IInv'
<1>1. TypeOK'
  BY DEF IInv, TypeOK, Edit, Debounce, address, storage
<1> QED
  BY <1>1 DEF IInv, Edit, Debounce, address, storage, Stored, Known, Keyed, Named, Linking,
     LanguageOfCode

LEMMA SwitchStep ==
  ASSUME IInv, NEW l \in Langs, SwitchLanguage(l) PROVE IInv'
<1>0. TypeOK /\ Stored /\ Known /\ Linking
  BY DEF IInv
<1>1. /\ lang' = l /\ PushURL([url EXCEPT !.l = l]) /\ moved' = FALSE
      /\ storedCode' = None
      /\ code' = IF url'.s # 0 THEN Empty ELSE CodeAtOnce(url', l, None)
      /\ written' = l /\ astray' = FALSE /\ timer' = (timer \/ TRUE)
      /\ loads' = IF url'.s # 0 THEN loads \cup {[key |-> url'.s, lang |-> l]}
                  ELSE loads
      /\ UNCHANGED <<storedLang, storedFor, shares, link, shared>>
  BY DEF SwitchLanguage, Determine, Debounce
<1>2. /\ url' = [url EXCEPT !.l = l]
      /\ url' \in Urls /\ url'.s = url.s /\ url'.l = l
      /\ past' \in Seq(Urls) /\ ahead' \in Seq(Urls)
      /\ Len(past') + Len(ahead') <= MaxEntries
      /\ url' \in Keyed' /\ past' \in Seq(Keyed') /\ ahead' \in Seq(Keyed')
  <2> DEFINE u == [url EXCEPT !.l = l]
  <2>1. u \in Urls /\ u.s = url.s /\ u.l = l
    BY <1>0 DEF TypeOK, Urls
  <2>2. u.s <= Len(shared) /\ Len(shared) \in Nat /\ shared' = shared
    BY <1>0, <1>1, <2>1 DEF TypeOK, Known, Keyed
  <2> HIDE DEF u
  <2>3. PushURL(u)
    BY <1>1 DEF u
  <2>4. Len(shared') \in Nat /\ u.s <= Len(shared') /\ Len(shared) <= Len(shared')
    BY <2>2
  <2>5. /\ url' = u /\ past' \in Seq(Urls) /\ ahead' \in Seq(Urls)
        /\ Len(past') + Len(ahead') <= MaxEntries
        /\ url' \in Keyed' /\ past' \in Seq(Keyed') /\ ahead' \in Seq(Keyed')
    BY <1>0, <2>1, <2>3, <2>4, PushStep
  <2> QED
    BY <2>1, <2>5 DEF u
<1>3. code' \in Codes
  <2>1. CASE url'.s = 0
    BY <1>1, <1>2, <2>1, CodeTyped
  <2>2. CASE url'.s # 0
    BY <1>1, <2>2
  <2> QED
    BY <2>1, <2>2
<1>4. loads' \subseteq Load /\ \A f \in loads' : f.key <= Len(shared)
  <2>1. CASE url'.s = 0
    BY <1>0, <1>1, <2>1 DEF TypeOK, Known
  <2>2. CASE url'.s # 0
    <3>1. url'.s \in 1..MaxShares /\ url'.s <= Len(shared)
      BY <1>0, <1>1, <1>2, <2>2 DEF Urls, Keyed
    <3> QED
      BY <1>0, <1>1, <2>2, <3>1 DEF Load, TypeOK, Known
  <2> QED
    BY <2>1, <2>2
<1>5. TypeOK'
  <2>1. timer' \in BOOLEAN /\ astray' \in BOOLEAN /\ moved' \in BOOLEAN
    BY <1>1
  <2> QED
    BY <1>0, <1>1, <1>2, <1>3, <1>4, <2>1 DEF TypeOK
<1>6. Stored' /\ Known' /\ Linking' /\ Named' /\ LanguageOfCode'
  BY <1>0, <1>1, <1>2, <1>4 DEF Stored, Known, Linking, Named, LanguageOfCode
<1> QED
  BY <1>5, <1>6 DEF IInv

LEMMA LoadStep ==
  ASSUME IInv, NEW f \in loads, LoadDone(f) \/ LoadThrows(f) PROVE IInv'
<1>0. /\ TypeOK /\ Stored /\ Known /\ Named /\ Linking /\ LanguageOfCode
      /\ loads' = loads \ {f}
      /\ UNCHANGED <<lang, address, storage, shares, link, shared>>
  BY DEF IInv, LoadDone, LoadThrows, stateVars
<1>1. CASE LoadThrows(f)
  <2>1. UNCHANGED <<code, written, astray, timer>>
    BY <1>1 DEF LoadThrows, stateVars
  <2> QED
    BY <1>0, <2>1 DEF IInv, TypeOK, Stored, Known, Keyed, Named, Linking,
       LanguageOfCode, address, storage
<1>2. CASE LoadDone(f)
  <2>1. PICK ok \in BOOLEAN :
          /\ code' = CodeFetched(f.key, f.lang, ok)
          /\ written' = IF Usable(f.key, ok) THEN shared[f.key].lang ELSE f.lang
    BY <1>2 DEF LoadDone
  <2>2. /\ astray' = (lang # f.lang \/ lang # shared[f.key].lang)
        /\ timer' = (timer \/ (code' # code))
    BY <1>2 DEF LoadDone, Debounce
  <2>3. f.key \in 1..Len(shared) /\ f.lang \in Langs
    BY <1>0 DEF TypeOK, Load, Known
  <2>4. code' \in Codes /\ shared[f.key].lang \in Langs
    BY <1>0, <2>1, <2>3, FetchTyped DEF Snippet
  <2>5. written' \in Langs /\ LanguageOfCode'
    BY <1>0, <2>1, <2>2, <2>3, <2>4 DEF LanguageOfCode
  <2>6. timer' \in BOOLEAN /\ astray' \in BOOLEAN
    BY <2>2
  <2>7. TypeOK'
    BY <1>0, <2>4, <2>5, <2>6 DEF TypeOK, address, storage
  <2>8. Stored'
    BY <1>0, <2>2 DEF Stored, storage
  <2> QED
    BY <1>0, <2>5, <2>7, <2>8 DEF IInv, Known, Keyed, Named, Linking, address
<1> QED
  BY <1>1, <1>2

LEMMA StoreStep ==
  ASSUME IInv, StoreFires PROVE IInv'
<1>1. TypeOK'
  BY DEF IInv, TypeOK, StoreFires, stateVars, address
<1>2. Stored'
  BY <1>1 DEF StoreFires, stateVars, Stored, TypeOK
<1> QED
  BY <1>1, <1>2 DEF IInv, StoreFires, stateVars, address, Known, Keyed, Named, Linking,
     LanguageOfCode

LEMMA SelectStep ==
  ASSUME IInv, NEW i \in Ids, SelectExample(i) PROVE IInv'
<1>0. TypeOK /\ Stored /\ Known /\ Linking /\ lang \in Langs
  BY DEF IInv, TypeOK
<1>1. /\ i \in Examples(lang) /\ PushURL([l |-> url.l, s |-> 0, e |-> i])
      /\ code' = Example[lang][i] /\ timer' = (timer \/ (code' # code))
      /\ written' = lang /\ astray' = FALSE
      /\ UNCHANGED <<lang, moved, storage, loads, shares, link, shared>>
  BY DEF SelectExample, Debounce
<1>2. /\ url' \in Urls /\ url'.s = 0 /\ url'.e # None
      /\ past' \in Seq(Urls) /\ ahead' \in Seq(Urls)
      /\ Len(past') + Len(ahead') <= MaxEntries
      /\ url' \in Keyed' /\ past' \in Seq(Keyed') /\ ahead' \in Seq(Keyed')
  <2> DEFINE u == [l |-> url.l, s |-> 0, e |-> i]
  <2>1. i \in Ids /\ i # None /\ 0 \in 0..MaxShares
    BY <1>0, <1>1, ExampleTyped
  <2>2. url.l \in Langs \cup {None}
    BY <1>0 DEF TypeOK, Urls
  <2>3. u \in Urls /\ u.s = 0 /\ u.e = i
    BY <2>1, <2>2 DEF Urls
  <2> HIDE DEF u
  <2>4. PushURL(u)
    BY <1>1 DEF u
  <2>5. Len(shared') \in Nat /\ u.s <= Len(shared') /\ Len(shared) <= Len(shared')
    BY <1>0, <1>1, <2>3 DEF TypeOK
  <2> QED
    BY <1>0, <2>1, <2>3, <2>4, <2>5, PushStep
<1>3. code' \in Codes
  BY <1>0, <1>1, ExampleTyped
<1>4. timer' \in BOOLEAN
  BY <1>1
<1>5. TypeOK'
  BY <1>0, <1>1, <1>2, <1>3, <1>4 DEF TypeOK, storage
<1>6. Stored'
  <2>1. UNCHANGED <<lang, storedCode, storedLang, storedFor>>
    BY <1>1 DEF storage
  <2>2. timer \in BOOLEAN
    BY <1>0 DEF TypeOK
  <2>3. ~timer' => ~timer /\ code' = code
    BY <1>1
  <2> QED
    BY <1>0, <2>1, <2>2, <2>3 DEF Stored
<1>7. Len(shared) \in Nat
  BY <1>0 DEF TypeOK
<1> QED
  BY <1>0, <1>1, <1>2, <1>5, <1>6, <1>7 DEF IInv, Known, Linking, Named,
     LanguageOfCode

LEMMA ShareStep ==
  ASSUME IInv, Share PROVE IInv'
<1>0. /\ TypeOK /\ Stored /\ Known /\ Named /\ Linking /\ LanguageOfCode
      /\ lang \in Langs /\ code \in Codes
      /\ UNCHANGED <<stateVars, storage, timer, loads, shared>>
      /\ Len(shared) \in Nat
  BY DEF IInv, TypeOK, Share
<1>1. CASE /\ shares' = shares \cup {[code |-> code, lang |-> lang]}
           /\ UNCHANGED <<address, link>>
  <2>1. TypeOK'
    BY <1>0, <1>1 DEF TypeOK, Snippet, stateVars, address, storage
  <2> QED
    BY <1>0, <1>1, <2>1 DEF IInv, Stored, Known, Keyed, Named, Linking,
       LanguageOfCode, stateVars, address, storage
<1>2. ASSUME NEW i \in Examples(lang), Example[lang][i] = code, shares' = shares,
             Copy([l |-> lang, s |-> 0, e |-> i], code, lang)
      PROVE  IInv'
  <2> DEFINE u == [l |-> lang, s |-> 0, e |-> i]
  <2>1. i \in Ids /\ i # None
    BY <1>0, <1>2, ExampleTyped
  <2>2. u \in Urls /\ u.s = 0 /\ u.l = lang
    BY <1>0, <2>1 DEF Urls
  <2>3. PushURL(u) /\ link' = [url |-> u, code |-> code, lang |-> lang]
        /\ moved' = FALSE
    BY <1>2 DEF Copy
  <2>7. /\ url' = u /\ past' \in Seq(Urls) /\ ahead' \in Seq(Urls)
        /\ Len(past') + Len(ahead') <= MaxEntries
        /\ url' \in Keyed' /\ past' \in Seq(Keyed') /\ ahead' \in Seq(Keyed')
    <3> HIDE DEF u
    <3>1. Len(shared') \in Nat /\ u.s <= Len(shared') /\ Len(shared) <= Len(shared')
      BY <1>0, <2>2
    <3> QED
      BY <1>0, <2>2, <2>3, <3>1, PushStep
  <2>4. TypeOK'
    BY <1>0, <1>2, <2>2, <2>3, <2>7 DEF TypeOK, stateVars, storage
  <2>5. Linking'
    BY <1>0, <1>2, <2>3 DEF Linking, stateVars
  <2>6. Known'
    BY <1>0, <2>7 DEF Known, stateVars
  <2> QED
    BY <1>0, <2>1, <2>3, <2>4, <2>5, <2>6, <2>7 DEF IInv, Stored, Named,
       LanguageOfCode, stateVars, storage
<1> QED
  BY <1>1, <1>2 DEF Share

LEMMA ShareEndStep ==
  ASSUME IInv, NEW h \in shares, ShareDone(h) \/ ShareFails(h) PROVE IInv'
<1>0. /\ TypeOK /\ Stored /\ Known /\ Named /\ Linking /\ LanguageOfCode
      /\ shares' = shares \ {h}
      /\ UNCHANGED <<stateVars, storage, timer, loads>>
  BY DEF IInv, ShareDone, ShareFails
<1>1. CASE ShareFails(h)
  <2>1. UNCHANGED <<address, link, shared>>
    BY <1>1 DEF ShareFails
  <2> QED
    BY <1>0, <2>1 DEF IInv, TypeOK, Stored, Known, Keyed, Named, Linking,
       LanguageOfCode, stateVars, address, storage
<1>2. CASE ShareDone(h)
  <2> DEFINE n == Len(shared) + 1
             u == [l |-> h.lang, s |-> n, e |-> None]
  <2>1. /\ Len(shared) < MaxShares /\ shared' = Append(shared, h)
        /\ PushURL(u) /\ moved' = FALSE
        /\ link' = [url |-> u, code |-> h.code, lang |-> h.lang]
    BY <1>2 DEF ShareDone, Copy
  <2>2. h \in Snippet /\ h.code \in Codes /\ h.lang \in Langs
    BY <1>0 DEF TypeOK, Snippet
  <2>3. /\ shared' \in Seq(Snippet) /\ Len(shared') = n /\ Len(shared) \in Nat
        /\ \A k \in 1..Len(shared) : shared'[k] = shared[k]
        /\ shared'[n] = h
    BY <1>0, <2>1, <2>2, SharedGrows
  <2>4. n \in 1..MaxShares /\ u \in Urls /\ u.s = n /\ u.l = h.lang
    BY <2>1, <2>2, <2>3 DEF Urls
  <2>9. /\ url' = u /\ past' \in Seq(Urls) /\ ahead' \in Seq(Urls)
        /\ Len(past') + Len(ahead') <= MaxEntries
        /\ url' \in Keyed' /\ past' \in Seq(Keyed') /\ ahead' \in Seq(Keyed')
    <3> HIDE DEF u
    <3>1. Len(shared') \in Nat /\ u.s <= Len(shared') /\ Len(shared) <= Len(shared')
      BY <2>3, <2>4
    <3> QED
      BY <1>0, <2>1, <2>4, <3>1, PushStep
  <2>5. TypeOK'
    <3>1. link' \in [url : Urls, code : Codes, lang : Langs]
      BY <2>1, <2>2, <2>4
    <3>2. shares' \subseteq Snippet /\ moved' \in BOOLEAN
      BY <1>0, <2>1 DEF TypeOK
    <3>3. shared' \in Seq(Snippet) /\ Len(shared') <= MaxShares
      BY <2>3, <2>4
    <3> HIDE DEF u
    <3> QED
      BY <1>0, <2>4, <2>9, <3>1, <3>2, <3>3 DEF TypeOK, stateVars, storage
  <2>6. Linking'
    BY <2>1, <2>3, <2>4 DEF Linking
  <2>7. Known'
    <3>1. \A f \in loads : f.key \in Nat
      BY <1>0 DEF TypeOK, Load
    <3> QED
      BY <1>0, <2>3, <2>9, <3>1 DEF Known
  <2>8. Named' /\ Stored' /\ LanguageOfCode'
    BY <1>0, <2>1, <2>3, <2>4, <2>9 DEF Named, Stored, LanguageOfCode, stateVars,
       storage
  <2> QED
    BY <2>5, <2>6, <2>7, <2>8 DEF IInv
<1> QED
  BY <1>1, <1>2

LEMMA IInvStep == IInv /\ [Next]_vars => IInv'
<1> SUFFICES ASSUME IInv, [Next]_vars PROVE IInv'
  OBVIOUS
<1>1. CASE UNCHANGED vars
  BY <1>1 DEF vars, stateVars, address, storage, IInv, TypeOK, Stored, Known,
     Keyed, Named, Linking, LanguageOfCode
<1> QED
  BY <1>1, OpenAnyStep, GoStep, EditStep, SwitchStep, LoadStep, StoreStep, SelectStep,
     ShareStep, ShareEndStep DEF Next

LEMMA Invariant == Spec => []IInv
BY InitIInv, IInvStep, PTL DEF Spec

-----------------------------------------------------------------------------
(* The editor always holds a text, never null, and the page a language:    *)
(* the fallbacks of determineCode cover every URL and every stored value.  *)
THEOREM TypeCorrect == Spec => []TypeOK
<1>1. IInv => TypeOK
  BY DEF IInv
<1> QED
  BY Invariant, <1>1, PTL

(* A link opens what was shown when Share was clicked, in its language,    *)
(* whatever was typed, chosen or shared while the request was out.         *)
THEOREM LinksAreTrue == Spec => []LinksOpenWhatWasShared
<1>1. ASSUME IInv, link # NoLink, link.code # Empty
      PROVE  /\ LanguageOf(link.url, None) = link.lang
             /\ link.code = IF link.url.s # 0
                            THEN CodeFetched(link.url.s, link.lang, TRUE)
                            ELSE CodeAtOnce(link.url, link.lang, None)
  <2>1. TypeOK /\ Linking
    BY <1>1 DEF IInv
  <2>2. link.url \in Urls /\ link.lang \in Langs /\ link.url.l = link.lang
    BY <1>1, <2>1 DEF TypeOK, Linking
  <2>3. LanguageOf(link.url, None) = link.lang
    BY <2>2 DEF LanguageOf
  <2>4. CASE link.url.s # 0
    BY <1>1, <2>1, <2>3, <2>4 DEF Linking, CodeFetched, Usable
  <2>5. CASE link.url.s = 0
    <3>1. /\ link.url.e \in Examples(link.lang)
          /\ Example[link.lang][link.url.e] = link.code
      BY <1>1, <2>1, <2>5 DEF Linking
    <3>2. link.url.e # None
      BY <2>2, <3>1, ExampleTyped
    <3>3. CodeAtOnce(link.url, link.lang, None) = link.code
      BY <2>5, <3>1, <3>2 DEF CodeAtOnce
    <3> QED
      BY <2>3, <2>5, <3>3
  <2> QED
    BY <2>4, <2>5
<1>2. IInv => LinksOpenWhatWasShared
  BY <1>1 DEF LinksOpenWhatWasShared
<1> QED
  BY Invariant, <1>2, PTL

(* A reload of a page whose URL names no code shows the code that was     *)
(* shown, as soon as the debounced store has run, and in the language that *)
(* was chosen unless Back or Forward led there (utils.ts pushes addresses  *)
(* and nothing handles popstate).                                          *)
THEOREM ReloadsRestore == Spec => []ReloadRestores
<1>1. ASSUME IInv, ~timer, url.s = 0, url.e = None, code # Empty
      PROVE  /\ CodeAtOnce(url, LanguageOf(url, storedLang), storedCode) = code
             /\ LanguageOf(url, storedLang) = lang \/ moved
  <2>1. /\ code \in Codes /\ lang \in Langs /\ storedCode = code
        /\ storedLang = lang
        /\ url.l \in {None, lang} \/ moved
    BY <1>1 DEF IInv, TypeOK, Stored, Named
  <2>2. LanguageOf(url, storedLang) = lang \/ moved
    BY <2>1 DEF LanguageOf
  <2>3. CodeAtOnce(url, LanguageOf(url, storedLang), storedCode) = code
    BY <1>1, <2>1 DEF CodeAtOnce
  <2> QED
    BY <2>2, <2>3
<1>2. IInv => ReloadRestores
  BY <1>1 DEF ReloadRestores
<1> QED
  BY Invariant, <1>2, PTL

(* Code is shown under the language it was written for, unless it came     *)
(* from a load or a store of another language.                             *)
THEOREM LanguagesMatch == Spec => []LanguageOfCode
<1>1. IInv => LanguageOfCode
  BY DEF IInv
<1> QED
  BY Invariant, <1>1, PTL
=============================================================================
