----------------------------- MODULE LangStore ------------------------------
(* A LangGraph long-term store over a memory handle:                        *)
(* src/integrations/langchain.ts.  An entry is a namespace and a key; its   *)
(* value is a live fact tagged with the namespace.  A put adds the new fact *)
(* and then retires the one before it, each a call of the memory store, so  *)
(* puts of one entry wait for one another in a queue of the handle.  The      *)
(* clock that facts and searches are stamped by is not set back.            *)
EXTENDS Naturals, Sequences, FiniteSets, SequencesExt

CONSTANTS LgCallers,
          LgNamespaces,   \* sequences of segments
          LgTag,          \* LgTag[ns]: its segments joined with "/"
          LgKeys,
          LgOlder,        \* the entries 0.11.0 left in the store
          LgMaxOlder,     \* MAX_OLDER_NAMESPACES
          LgMaxCalls, LgMaxFailures, LgMaxElsewhere, LgMaxClock   \* bounds

Entries == [ns : LgNamespaces, key : LgKeys]

VARIABLES lgFacts,    \* the facts of the store, in the order they were added; from is validFrom
          lgQueue,    \* putsInFlight: the callers in line for each entry
          lgCall,
          lgList,     \* olderNamespaces: unread, being read, or the list
          lgCount,    \* how many calls, failures and changes made elsewhere
          lgClock,
          lgLast,     \* for the properties: the fact each entry's last put left
          lgTorn      \* entries a put added a fact to and then failed

lgVars == <<lgFacts, lgQueue, lgCall, lgList, lgCount, lgClock, lgLast, lgTorn>>

None == 0
Unread == [at |-> "unread", names |-> {}]
Reading == [at |-> "reading", names |-> {}]
LgIdle == [at |-> "idle"]
LgIds == DOMAIN lgFacts

\* startsWith()
AtOrBelow(ns, prefix) == Len(prefix) <= Len(ns) /\ SubSeq(ns, 1, Len(prefix)) = prefix

\* entryTags(): its own namespace, and the namespaces it sits inside; 0.11.0
\* wrote the first only.
TagsOf(f) ==
  {<<"ns", LgTag[f.ns]>>}
    \cup (IF f.older THEN {} ELSE {<<"in", LgTag[SubSeq(f.ns, 1, n)]>> : n \in 1 .. Len(f.ns) - 1})

LiveFacts == {i \in LgIds : lgFacts[i].state = "live"}

\* find(): the tag may be shared, so the namespace itself is compared.
Found(entry) ==
  {i \in LiveFacts : <<"ns", LgTag[entry.ns]>> \in TagsOf(lgFacts[i])
                     /\ lgFacts[i].ns = entry.ns /\ lgFacts[i].key = entry.key}

\* writtenBeforePrefixTags(), of every live entry.
OlderNamespaces == {lgFacts[i].ns : i \in {j \in LiveFacts : lgFacts[j].older /\ Len(lgFacts[j].ns) > 1}}

\* prefixTags(): past the cap, every entry is read.
FoundBelow(prefix, older) ==
  LET below == {ns \in older : Len(ns) > Len(prefix) /\ AtOrBelow(ns, prefix)}
      tags == {<<"ns", LgTag[prefix]>>, <<"in", LgTag[prefix]>>} \cup {<<"ns", LgTag[ns]>> : ns \in below}
  IN
  IF Cardinality(below) > LgMaxOlder THEN LiveFacts ELSE {i \in LiveFacts : TagsOf(lgFacts[i]) \cap tags # {}}

----------------------------------------------------------------------------
LgInit ==
  /\ \E first \in Bijection(1 .. Cardinality(LgOlder), LgOlder) :
       /\ lgFacts = [i \in DOMAIN first |-> [ns |-> first[i].ns, key |-> first[i].key, older |-> TRUE, from |-> 0,
                                        state |-> "live"]]
       /\ lgLast = [e \in Entries |-> IF e \in LgOlder THEN CHOOSE i \in DOMAIN first : first[i] = e ELSE None]
  /\ lgQueue = [e \in Entries |-> <<>>]
  /\ lgCall = [c \in LgCallers |-> LgIdle]
  /\ lgList = Unread
  /\ lgCount = [calls |-> 0, failures |-> 0, elsewhere |-> 0]
  /\ lgClock = 1
  /\ lgTorn = {}

LgGoes(c, call) == lgCall' = [lgCall EXCEPT ![c] = call]

LgBegins(c) ==
  /\ lgCall[c] = LgIdle
  /\ lgCount.calls < LgMaxCalls
  /\ lgCount' = [lgCount EXCEPT !.calls = @ + 1]

\* putInTurn(): in line behind the puts of this entry.
Put(c, entry, deletes) ==
  /\ LgBegins(c)
  /\ LgGoes(c, [at |-> "queued", entry |-> entry, deletes |-> deletes])
  /\ lgQueue' = [lgQueue EXCEPT ![entry] = Append(@, c)]
  /\ UNCHANGED <<lgFacts, lgList, lgLast, lgTorn, lgClock>>

\* A variant in which a put does not wait for those before it.
AtOnce(c) == lgCall[c].at = "queued"

InTurn(c) == lgCall[c].at = "queued" /\ Head(lgQueue[lgCall[c].entry]) = c

\* doPut(): the entry's live fact is looked for, and the new one is stamped; the
\* store may make it wait before it is added.
FindPrevious(c) ==
  LET call == lgCall[c] IN
  /\ InTurn(c)
  /\ \E previous \in IF Found(call.entry) = {} THEN {None} ELSE Found(call.entry) :
       LgGoes(c, [at |-> IF call.deletes THEN "retire" ELSE "add", entry |-> call.entry, from |-> lgClock,
                  new |-> None, previous |-> previous])
  /\ UNCHANGED <<lgFacts, lgQueue, lgList, lgCount, lgLast, lgTorn, lgClock>>

AddEntry(c) ==
  LET call == lgCall[c] IN
  /\ call.at = "add"
  /\ lgFacts' = Append(lgFacts, [ns |-> call.entry.ns, key |-> call.entry.key, older |-> FALSE, from |-> call.from,
                               state |-> "live"])
  /\ LgGoes(c, [call EXCEPT !.at = "retire", !.new = Len(lgFacts) + 1])
  /\ UNCHANGED <<lgQueue, lgList, lgCount, lgLast, lgTorn, lgClock>>

\* The put is over: the next in line goes on, whether this one failed or not.
PutEnds(c, left, torn) ==
  LET entry == lgCall[c].entry
      place == CHOOSE n \in DOMAIN lgQueue[entry] : lgQueue[entry][n] = c
  IN
  /\ LgGoes(c, LgIdle)
  /\ lgQueue' = [lgQueue EXCEPT ![entry] = RemoveAt(@, place)]
  /\ lgLast' = [lgLast EXCEPT ![entry] = left]
  /\ lgTorn' = IF torn THEN lgTorn \cup {entry} ELSE lgTorn
  /\ UNCHANGED <<lgList, lgClock>>

\* invalidate(): the fact is read, and closed unless it was closed already.
\* With no fact before it, the put is over; a fact no longer there fails it.
RetirePrevious(c) ==
  LET call == lgCall[c]
      live(i) == i # None /\ lgFacts[i].state = "live"
  IN
  /\ call.at = "retire"
  /\ IF call.previous = None THEN PutEnds(c, IF live(call.new) THEN call.new ELSE None, FALSE) /\ UNCHANGED <<lgFacts, lgCount>>
     ELSE CASE lgFacts[call.previous].state = "erased" -> PutEnds(c, lgLast[call.entry], call.new # None) /\ UNCHANGED <<lgFacts, lgCount>>
            [] lgFacts[call.previous].state # "erased" ->
                 /\ lgFacts' = [lgFacts EXCEPT ![call.previous].state = "closed"]
                 /\ PutEnds(c, IF live(call.new) THEN call.new ELSE None, FALSE)
                 /\ UNCHANGED lgCount

\* A call of the memory store fails (a full disk, a refusing policy).
FailPut(c) ==
  /\ lgCall[c].at = "add" \/ (lgCall[c].at = "retire" /\ lgCall[c].previous # None)
  /\ lgCount.failures < LgMaxFailures
  /\ lgCount' = [lgCount EXCEPT !.failures = @ + 1]
  /\ PutEnds(c, lgLast[lgCall[c].entry], lgCall[c].new # None)
  /\ UNCHANGED lgFacts

\* The owner retires or erases a fact by other means.
ChangeElsewhere(i, to) ==
  /\ lgFacts[i].state = "live"
  /\ lgCount.elsewhere < LgMaxElsewhere
  /\ lgCount' = [lgCount EXCEPT !.elsewhere = @ + 1]
  /\ lgFacts' = [lgFacts EXCEPT ![i].state = to]
  /\ lgLast' = [e \in Entries |-> IF lgLast[e] = i THEN None ELSE lgLast[e]]
  /\ UNCHANGED <<lgQueue, lgCall, lgList, lgTorn, lgClock>>

----------------------------------------------------------------------------
\* doSearch(): the instant it asks about is now; then the older namespaces are
\* waited for.  Two searches share one reading of them.
Search(c, prefix) ==
  /\ LgBegins(c)
  /\ LgGoes(c, [at |-> "older", prefix |-> prefix, validAt |-> lgClock])
  /\ lgList' = IF lgList = Unread THEN Reading ELSE lgList
  /\ UNCHANGED <<lgFacts, lgQueue, lgLast, lgTorn, lgClock>>

OlderRead ==
  /\ lgList = Reading
  /\ lgList' = [at |-> "read", names |-> OlderNamespaces]
  /\ UNCHANGED <<lgFacts, lgQueue, lgCall, lgCount, lgLast, lgTorn, lgClock>>

\* A failed reading fails the searches that wait for it, and is forgotten.
OlderFails ==
  /\ lgList = Reading
  /\ lgCount.failures < LgMaxFailures
  /\ lgCount' = [lgCount EXCEPT !.failures = @ + 1]
  /\ lgList' = Unread
  /\ lgCall' = [c \in LgCallers |-> IF lgCall[c].at = "older" THEN LgIdle ELSE lgCall[c]]
  /\ UNCHANGED <<lgFacts, lgQueue, lgLast, lgTorn, lgClock>>

\* The store is read as of the instant the search began with, and of what it
\* gives only what is open by now counts: an entry replaced in between is found
\* neither by its old fact nor by its new one.
SearchBelow(c) ==
  LET call == lgCall[c] IN
  /\ call.at = "older" /\ lgList.at = "read"
  /\ LgGoes(c, [at |-> "answered", prefix |-> call.prefix, validAt |-> call.validAt, live |-> LiveFacts,
                hits |-> {i \in FoundBelow(call.prefix, lgList.names) :
                            AtOrBelow(lgFacts[i].ns, call.prefix) /\ lgFacts[i].from <= call.validAt}])
  /\ UNCHANGED <<lgFacts, lgQueue, lgList, lgCount, lgLast, lgTorn, lgClock>>

TakeAnswer(c) ==
  /\ lgCall[c].at = "answered"
  /\ LgGoes(c, LgIdle)
  /\ UNCHANGED <<lgFacts, lgQueue, lgList, lgCount, lgLast, lgTorn, lgClock>>

LgTick ==
  /\ lgClock < LgMaxClock
  /\ lgClock' = lgClock + 1
  /\ UNCHANGED <<lgFacts, lgQueue, lgCall, lgList, lgCount, lgLast, lgTorn>>

LgNext ==
  \/ \E c \in LgCallers :
       \/ \E entry \in Entries, deletes \in BOOLEAN : Put(c, entry, deletes)
       \/ FindPrevious(c) \/ AddEntry(c) \/ RetirePrevious(c) \/ FailPut(c)
       \/ \E prefix \in LgNamespaces : Search(c, prefix)
       \/ SearchBelow(c) \/ TakeAnswer(c)
  \/ OlderRead \/ OlderFails \/ LgTick
  \/ \E i \in LgIds, to \in {"closed", "erased"} : ChangeElsewhere(i, to)

LgSpec == LgInit /\ [][LgNext]_lgVars

----------------------------------------------------------------------------
(* Properties *)

\* The type of the store, the queue and the calls.
LgTypeOK ==
  /\ \A i \in LgIds : lgFacts[i].state \in {"live", "closed", "erased"} /\ lgFacts[i].ns \in LgNamespaces
                     /\ lgFacts[i].from \in 0 .. lgClock
  /\ \A e \in Entries : \A c \in LgCallers :
       (\E n \in DOMAIN lgQueue[e] : lgQueue[e][n] = c) <=> (lgCall[c].at \in {"queued", "add", "retire"} /\ lgCall[c].entry = e)
  /\ lgList \in {Unread, Reading} \/ (lgList.at = "read" /\ lgList.names \subseteq LgNamespaces)

\* However puts of an entry overlap and fail, a get with no put in line finds
\* what the last put that succeeded left, and nothing else
\* (langchain.ts:167-172, 209) - unless a put failed between adding its fact
\* and retiring the one before.
GetFindsLastPut ==
  \A e \in Entries : lgQueue[e] = <<>> /\ e \notin lgTorn => Found(e) = {lgLast[e]} \ {None}

\* A search answers with every fact at or below its prefix that was there when
\* the search began, or came in the same millisecond, and is live when the store
\* is read, those 0.11.0 wrote among them, and with no other: a namespace that
\* shares its tag does not answer for another (langchain.ts:213-230).
SearchFindsAllBelow ==
  \A c \in LgCallers :
    LET call == lgCall[c] IN
    call.at = "answered" =>
      call.hits = {i \in call.live : AtOrBelow(lgFacts[i].ns, call.prefix) /\ lgFacts[i].from <= call.validAt}
============================================================================
