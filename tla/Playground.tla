---------------------------- MODULE Playground ----------------------------
(***************************************************************************)
(* What a page of the frontend does with code: the editor, the language,   *)
(* the page's URL, the browser's local storage and the links that Share    *)
(* makes (components/CodeContext.tsx, ShareButton, RightExamplesPanel and  *)
(* utils.ts).  An event handler or the continuation of an await is one     *)
(* step, with the effects of the render it causes.  The browser's Back and *)
(* Forward are steps too, of which the code is not told.                   *)
(*                                                                         *)
(* The shared snippets of the control service are a sequence here: its     *)
(* keys are numbers.  The layout and the spinner are left out.             *)
(***************************************************************************)
EXTENDS Integers, FiniteSets, SequencesExt

CONSTANTS Langs, Default,  \* the languages; JavaScript
          Codes, Empty,    \* the texts the editor may hold, "" among them
          Ids,             \* ids of examples, which languages may share
          Example,         \* Example[l][i]: the code of example i, or None
          First,           \* First[l]: the first example of l
          None,
          MaxShares,       \* bound: snippets stored and being stored
          MaxEntries       \* the entries the browser keeps beside the page's

Examples(l) == {i \in Ids : Example[l][i] # None}

ASSUME PlaygroundAssumption ==
  /\ Default \in Langs /\ Empty \in Codes
  /\ None \notin Langs \cup Codes \cup Ids
  /\ Example \in [Langs -> [Ids -> (Codes \ {Empty}) \cup {None}]]
  /\ First \in [Langs -> Ids] /\ \A l \in Langs : First[l] \in Examples(l)
  /\ MaxShares \in Nat /\ MaxEntries \in Nat

VARIABLES code, lang,   \* the state of CodeContext
          url,          \* the parameters l, s and e of the page's URL
          past, ahead,  \* the URLs that Back and Forward lead to
          moved,        \* history: they led here, and neither a load nor a
                        \* switch of the language nor Share came since
          storedCode,   \* localStorage "code"
          storedLang,   \* localStorage "language"
          timer,        \* is the debounced store pending?
          loads,        \* fetches of a shared snippet by determineCode
          shares,       \* Share clicks whose create request is out
          link,         \* the last link Share copied, and of what
          written,      \* history: the language the code was written for
          storedFor,    \* history: the same of the stored code
          astray,       \* history: the code came from a load or a store that
                        \* was made under another language
          shared        \* the snippets of the control service, by key, and
                        \* (history) their languages, which it does not keep

stateVars == <<code, lang, written, astray>>
storage == <<storedCode, storedLang, storedFor>>
address == <<url, past, ahead, moved>>
vars == <<stateVars, address, storage, timer, loads, shares, link, shared>>

Urls == [l : Langs \cup {None}, s : 0..MaxShares, e : Ids \cup {None}]

Load == [key : 1..MaxShares, lang : Langs]

Snippet == [code : Codes, lang : Langs]

NoLink == [url |-> None, code |-> None, lang |-> None]

TypeOK ==
  /\ code \in Codes /\ lang \in Langs
  /\ url \in Urls
  /\ past \in Seq(Urls) /\ ahead \in Seq(Urls)
  /\ Len(past) + Len(ahead) <= MaxEntries
  /\ moved \in BOOLEAN
  /\ storedCode \in Codes \cup {None} /\ storedLang \in Langs \cup {None}
  /\ timer \in BOOLEAN
  /\ loads \subseteq Load
  /\ shares \subseteq Snippet
  /\ link = NoLink \/ link \in [url : Urls, code : Codes, lang : Langs]
  /\ written \in Langs /\ astray \in BOOLEAN /\ storedFor \in Langs \cup {None}
  /\ shared \in Seq(Snippet) /\ Len(shared) <= MaxShares

-----------------------------------------------------------------------------
(* utils.ts.  Of a URL, s = 0 says that it has no s, None that it has no e.*)

Fallback(l) == Example[l][First[l]]

(* determineLanguage                                                       *)
LanguageOf(u, sl) == IF u.l # None THEN u.l
                     ELSE IF sl # None THEN sl ELSE Default

(* determineCode up to its fetch: what it sets at once.                    *)
CodeAtOnce(u, l, sc) ==
  CASE u.s # 0 -> None
    [] u.s = 0 /\ u.e # None -> IF u.e \in Examples(l) THEN Example[l][u.e]
                                ELSE Fallback(l)
    [] OTHER -> IF sc \in {None, Empty} THEN Fallback(l) ELSE sc

(* determineCode after its fetch: null and the empty text fall back.       *)
Usable(key, ok) == ok /\ shared[key].code # Empty

CodeFetched(key, l, ok) == IF Usable(key, ok) THEN shared[key].code
                           ELSE Fallback(l)

(* pushNewURL: an entry more, the last one, and the oldest one goes.       *)
PushURL(u) ==
  /\ url' = u
  /\ past' = IF MaxEntries = 0 THEN <<>>
             ELSE IF Len(past) < MaxEntries THEN Append(past, url)
             ELSE Append(Tail(past), url)
  /\ ahead' = <<>>

(* useDebounceCallback: the last render's store is the one that runs.      *)
Debounce(rendered) == timer' = (timer \/ rendered)

(* The effect on [examples], in a state that was just set to code "".      *)
Determine(u, l, sc, pending) ==
  /\ code' = IF u.s # 0 THEN Empty ELSE CodeAtOnce(u, l, sc)
  /\ written' = IF u.s = 0 /\ u.e = None /\ sc \notin {None, Empty}
                THEN storedFor ELSE l
  /\ loads' = IF u.s # 0 THEN pending \cup {[key |-> u.s, lang |-> l]}
              ELSE pending

(* The page is loaded at u.                                                *)
OpenAt(u) ==
  /\ url' = u /\ moved' = FALSE
  /\ lang' = LanguageOf(u, storedLang)
  /\ Determine(u, lang', storedCode, {})
  /\ astray' = (storedCode # None /\ storedFor # lang')
  /\ Debounce(TRUE)
  /\ shares' = {}
  /\ UNCHANGED <<storage, link, shared>>

(* What a visitor may have of a link, a bookmark or a page left before: any *)
(* address the frontend makes.  None has both a snippet and an example.    *)
Addresses == {u \in Urls : u.s <= Len(shared) /\ (u.s = 0 \/ u.e = None)}

Init ==
  /\ shared = <<>>
  /\ \E u \in Addresses :
       /\ url = u
       /\ lang = LanguageOf(u, None)
       /\ code = CodeAtOnce(u, lang, None)
  /\ storedCode = None /\ storedLang = None /\ storedFor = None
  /\ written = lang /\ astray = FALSE
  /\ timer = TRUE
  /\ past = <<>> /\ ahead = <<>> /\ moved = FALSE
  /\ loads = {} /\ shares = {} /\ link = NoLink

(* A reload keeps the entries, another page begins with none.              *)
Open ==
  \E u \in Addresses :
    /\ OpenAt(u)
    /\ \/ u = url /\ UNCHANGED <<past, ahead>>
       \/ past' = <<>> /\ ahead' = <<>>

(* The browser goes to another entry of the page.  No handler of popstate  *)
(* is there: only the address changes.                                     *)
GoTo(u) ==
  /\ url' = u /\ moved' = TRUE
  /\ UNCHANGED <<stateVars, storage, timer, loads, shares, link, shared>>

Back ==
  /\ past # <<>>
  /\ GoTo(Last(past))
  /\ past' = Front(past)
  /\ ahead' = <<url>> \o ahead

Forward ==
  /\ ahead # <<>>
  /\ GoTo(Head(ahead))
  /\ past' = Append(past, url)
  /\ ahead' = Tail(ahead)

-----------------------------------------------------------------------------
(* CodeContext                                                             *)

Edit(c) ==
  /\ c # code
  /\ code' = c
  /\ written' = lang /\ astray' = FALSE
  /\ Debounce(TRUE)
  /\ UNCHANGED <<lang, address, storage, loads, shares, link, shared>>

(* Mutant: the URL is left alone.                                          *)
SwitchLanguageOnly(l) ==
  /\ l # lang
  /\ lang' = l
  /\ storedCode' = None
  /\ Determine(url, l, storedCode', loads)
  /\ Debounce(TRUE)
  /\ astray' = FALSE
  /\ UNCHANGED <<address, storedLang, storedFor, shares, link, shared>>

(* Mutant: what is stored is left alone.                                   *)
SwitchLanguageKeepsCode(l) ==
  /\ l # lang
  /\ lang' = l
  /\ PushURL([url EXCEPT !.l = l]) /\ moved' = FALSE
  /\ Determine(url', l, storedCode, loads)
  /\ astray' = FALSE
  /\ Debounce(TRUE)
  /\ UNCHANGED <<storage, shares, link, shared>>

(* handleSetLanguage.  The parameters s and e of the URL stay.             *)
SwitchLanguage(l) ==
  /\ l # lang
  /\ lang' = l
  /\ PushURL([url EXCEPT !.l = l]) /\ moved' = FALSE
  /\ storedCode' = None
  /\ Determine(url', l, storedCode', loads)
  /\ Debounce(TRUE)
  /\ astray' = FALSE
  /\ UNCHANGED <<storedLang, storedFor, shares, link, shared>>

(* Mutant: the fetched text is not checked.                                *)
LoadUnchecked(f) ==
  /\ \E ok \in BOOLEAN : code' = IF ok THEN shared[f.key].code ELSE None
  /\ Debounce(TRUE)
  /\ loads' = loads \ {f}
  /\ UNCHANGED <<lang, written, astray, address, storage, shares, link, shared>>

(* The fetch of determineCode ends; the language may be another by now.    *)
LoadDone(f) ==
  /\ \E ok \in BOOLEAN :
       /\ code' = CodeFetched(f.key, f.lang, ok)
       /\ written' = IF Usable(f.key, ok) THEN shared[f.key].lang ELSE f.lang
  /\ astray' = (lang # f.lang \/ lang # shared[f.key].lang)
  /\ Debounce(code' # code)
  /\ loads' = loads \ {f}
  /\ UNCHANGED <<lang, address, storage, shares, link, shared>>

(* It throws: nothing is set.                                              *)
LoadThrows(f) ==
  /\ loads' = loads \ {f}
  /\ UNCHANGED <<stateVars, address, storage, timer, shares, link, shared>>

(* handleLazyStore, 500 ms after the last render, with its state.          *)
StoreFires ==
  /\ timer
  /\ timer' = FALSE
  /\ storedCode' = code
  /\ storedLang' = lang /\ storedFor' = written
  /\ UNCHANGED <<stateVars, address, loads, shares, link, shared>>

(* RightExamplesPanel: an example is clicked.                              *)
SelectExample(i) ==
  /\ i \in Examples(lang)
  /\ PushURL([l |-> url.l, s |-> 0, e |-> i])
  /\ code' = Example[lang][i]
  /\ Debounce(code' # code)
  /\ written' = lang /\ astray' = FALSE
  /\ UNCHANGED <<lang, moved, storage, loads, shares, link, shared>>

-----------------------------------------------------------------------------
(* ShareButton                                                             *)

Copy(u, c, l) ==
  /\ PushURL(u) /\ moved' = FALSE
  /\ link' = [url |-> u, code |-> c, lang |-> l]

(* An example needs no snippet.  The state at the click is what is shared. *)
Share ==
  LET same == {i \in Examples(lang) : Example[lang][i] = code}
  IN /\ IF same = {}
        THEN /\ Len(shared) + Cardinality(shares) < MaxShares
             /\ shares' = shares \cup {[code |-> code, lang |-> lang]}
             /\ UNCHANGED <<address, link>>
        ELSE /\ \E i \in same : Copy([l |-> lang, s |-> 0, e |-> i], code, lang)
             /\ UNCHANGED shares
     /\ UNCHANGED <<stateVars, storage, timer, loads, shared>>

(* Mutant: the language is read after the request.                         *)
ShareDoneLate(h) ==
  /\ Len(shared) < MaxShares
  /\ shared' = Append(shared, h)
  /\ Copy([l |-> lang, s |-> Len(shared) + 1, e |-> None], h.code, h.lang)
  /\ shares' = shares \ {h}
  /\ UNCHANGED <<stateVars, storage, timer, loads>>

ShareDone(h) ==
  /\ Len(shared) < MaxShares
  /\ shared' = Append(shared, h)
  /\ Copy([l |-> h.lang, s |-> Len(shared) + 1, e |-> None], h.code, h.lang)
  /\ shares' = shares \ {h}
  /\ UNCHANGED <<stateVars, storage, timer, loads>>

(* Not ok, or it throws: the user is told, or not, and nothing changes.    *)
ShareFails(h) ==
  /\ shares' = shares \ {h}
  /\ UNCHANGED <<stateVars, address, storage, timer, loads, link, shared>>

Next ==
  \/ Open \/ Back \/ Forward \/ StoreFires \/ Share
  \/ \E c \in Codes : Edit(c)
  \/ \E l \in Langs : SwitchLanguage(l)
  \/ \E i \in Ids : SelectExample(i)
  \/ \E f \in loads : LoadDone(f) \/ LoadThrows(f)
  \/ \E h \in shares : ShareDone(h) \/ ShareFails(h)

Spec == Init /\ [][Next]_vars

-----------------------------------------------------------------------------
(* Properties                                                              *)

(* A link opens what was shown when Share was clicked, in its language,    *)
(* whatever was typed and chosen while the request was out; but an empty   *)
(* snippet opens the first example.  A snippet stays what it is here: that *)
(* a rival may overwrite one with the same identifier is ShareStore's.     *)
LinksOpenWhatWasShared ==
  link # NoLink /\ link.code # Empty =>
    /\ LanguageOf(link.url, None) = link.lang
    /\ link.code = IF link.url.s # 0
                   THEN CodeFetched(link.url.s, link.lang, TRUE)
                   ELSE CodeAtOnce(link.url, link.lang, None)

(* Once the debounced store has run, a reload of a page whose URL names    *)
(* neither a snippet nor an example shows the same code; and it shows it   *)
(* in the same language, unless the visitor went back or forward: then the *)
(* URL may name another one, under which the code is shown.                *)
ReloadRestores ==
  ~timer /\ url.s = 0 /\ url.e = None /\ code # Empty =>
    /\ CodeAtOnce(url, LanguageOf(url, storedLang), storedCode) = code
    /\ LanguageOf(url, storedLang) = lang \/ moved

(* Code is shown under the language it was written for, unless it was      *)
(* loaded for another one, or shared from another one, or the page was     *)
(* opened with another one than that of the stored code.  Nothing done in  *)
(* the page, and no order of it, mixes them otherwise.                     *)
LanguageOfCode == written = lang \/ astray
=============================================================================
