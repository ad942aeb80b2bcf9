--------------------------- MODULE AdminPagesProofs ---------------------------
(***************************************************************************)
(* What the pages of the admins guarantee, for any number of rows, forms   *)
(* and fetches in any order: where the rows that they show come from, and  *)
(* that a success is followed by a fetch that sees it.                     *)
(***************************************************************************)
EXTENDS AdminPages, SequenceTheorems, TLAPS

-----------------------------------------------------------------------------
(* Sequences of fetches *)

(* What is left of a sequence without its i-th element                     *)
LEMMA RemoveAtProperties ==
  ASSUME NEW S, NEW s \in Seq(S), NEW i \in 1..Len(s)
  PROVE  /\ RemoveAt(s, i) \in Seq(S)
         /\ Len(RemoveAt(s, i)) = Len(s) - 1
         /\ \A j \in 1..(Len(s) - 1) : RemoveAt(s, i)[j] = IF j < i THEN s[j] ELSE s[j + 1]
<1> DEFINE a == SubSeq(s, 1, i - 1)
           b == SubSeq(s, i + 1, Len(s))
<1>0. Len(s) \in Nat
  BY LenProperties
<1>1. a \in Seq(S) /\ Len(a) = i - 1 /\ \A j \in 1..(i - 1) : a[j] = s[j]
  <2>1. \A j \in 1..(i - 1) : s[j] \in S
    BY <1>0, ElementOfSeq
  <2> QED BY <1>0, <2>1, SubSeqProperties
<1>2. b \in Seq(S) /\ Len(b) = Len(s) - i /\ \A j \in 1..(Len(s) - i) : b[j] = s[i + j]
  <2>1. \A j \in (i + 1)..Len(s) : s[j] \in S
    BY <1>0, ElementOfSeq
  <2> QED BY <1>0, <2>1, SubSeqProperties
<1>3. RemoveAt(s, i) = a \o b
  BY DEF RemoveAt
<1> HIDE DEF a, b
<1>4. /\ a \o b \in Seq(S) /\ Len(a \o b) = Len(a) + Len(b)
      /\ \A j \in 1..(Len(a) + Len(b)) : (a \o b)[j] = IF j <= Len(a) THEN a[j] ELSE b[j - Len(a)]
  BY <1>1, <1>2, ConcatProperties
<1>5. Len(a \o b) = Len(s) - 1
  BY <1>0, <1>1, <1>2, <1>4
<1>6. ASSUME NEW j \in 1..(Len(s) - 1) PROVE (a \o b)[j] = IF j < i THEN s[j] ELSE s[j + 1]
  <2>1. CASE j < i
    BY <1>0, <1>1, <1>2, <1>4, <2>1
  <2>2. CASE ~(j < i)
    <3>1. j - (i - 1) \in 1..(Len(s) - i) /\ i + (j - (i - 1)) = j + 1
      BY <1>0, <2>2
    <3>2. (a \o b)[j] = b[j - (i - 1)]
      BY <1>0, <1>1, <1>2, <1>4, <2>2
    <3> QED BY <1>2, <2>2, <3>1, <3>2
  <2> QED BY <2>1, <2>2
<1> QED BY <1>3, <1>4, <1>5, <1>6
-----------------------------------------------------------------------------
(* Forms, lists and fetches *)

(* A form that was sent has a kind, a key and a value.                     *)
FormsKnown ==
  \A r \in Requests :
    request[r].pc \in {"sent", "yes", "no"} => 
      request[r].form # "none" /\ request[r].key \in Keys /\ request[r].value \in Values

(* The server's lists have rows of the table only.                         *)
Genuine(list) == \A k \in Keys \ Ids : ~Has(list, k)
FetchesGenuine == \A i \in DOMAIN fetches : Genuine(fetches[i].list)

(* No form was answered that the page has not looked at yet.               *)
AllSeen == \A r \in Requests : request[r].pc \notin {"yes", "no"}

(* Unless something went wrong, the fetch that was sent last has the table *)
(* as it is, or will: when there is none, the page has it.                 *)
Fresh ==
  AllSeen /\ ~failed /\ ~foreign /\ ~overtaken =>
    IF fetches = << >> THEN rows = Current
    ELSE LET last == fetches[Len(fetches)] IN last.served => last.list = Of(table)

FetchRecords == [served : BOOLEAN, list : Lists]
FetchTypes == fetches \in Seq(FetchRecords) /\ Len(fetches) <= MaxFetches

ListTypes ==
  /\ table \in [Ids -> Values \cup {Absent}]
  /\ rows \in Lists /\ stored \in Lists

RestTypes ==
  /\ page \in Pages
  /\ loading \in BOOLEAN
  /\ selected \in Keys \cup {Absent} /\ halls \subseteq Values
  /\ failed \in BOOLEAN /\ foundNone \in BOOLEAN /\ foreign \in BOOLEAN /\ overtaken \in BOOLEAN

RequestRecords == [pc : {"idle", "sent", "yes", "no", "done"},
                   form : {"none", "add", "edit", "membership", "delete"},
                   key : Keys \cup {Absent}, value : Values \cup {Absent}]
RequestTypes == request \in [Requests -> RequestRecords]

Types == FetchTypes /\ ListTypes /\ RestTypes /\ RequestTypes

LEMMA TypesImply == Types => TypeOK
<1> SUFFICES ASSUME Types PROVE TypeOK
  OBVIOUS
<1>1. \A i \in DOMAIN fetches : fetches[i] \in FetchRecords
  BY ElementOfSeq, LenProperties DEF Types, FetchTypes
<1> QED BY <1>1 DEF Types, FetchTypes, FetchRecords, ListTypes, RestTypes, RequestTypes,
                    RequestRecords, TypeOK

(* A list of what the table holds has rows of the table only.              *)
LEMMA OfTable ==
  ASSUME ListTypes
  PROVE  Of(table) \in Lists /\ Genuine(Of(table))
  BY DEF ListTypes, Of, Lists, Genuine, Has

LEMMA EmptyFetch == Fetch \in FetchRecords /\ ~Fetch.served /\ Genuine(Fetch.list)
  BY DEF Fetch, FetchRecords, Nothing, Lists, Genuine, Has

(* What a form does to a list leaves a list.                               *)
LEMMA DoneTyped ==
  ASSUME NEW D, NEW list \in [D -> Values \cup {Absent}],
         NEW form \in {"add", "edit", "membership", "delete"}, NEW key,
         NEW value \in Values \cup {Absent}
  PROVE  Done(list, form, key, value) \in [D -> Values \cup {Absent}]
<1>1. CASE form = "add"
  BY <1>1 DEF Done
<1>2. CASE form \in {"edit", "membership"}
  BY <1>2 DEF Done
<1>3. CASE form = "delete"
  BY <1>3 DEF Done
<1> QED BY <1>1, <1>2, <1>3

(* A page of any kind, when a fetch settles, shows what the fetch brought, *)
(* or the page of films finds no films and shows its copy, or a call       *)
(* failed.                                                                 *)
Settles(i) ==
  \/ /\ Arrived(i) /\ Show(i)
     /\ page = "movies" => fetches[i].list # Nothing
  \/ Arrived(i) /\ page = "movies" /\ fetches[i].list = Nothing /\ ShowStored(i)
  \/ /\ rows' \in Lists /\ failed' = TRUE /\ UNCHANGED <<foundNone, overtaken>>
     /\ page = "cities" => rows' = rows

LEMMA Settling ==
  ASSUME Types, NEW i,
         fetchData(i) \/ fetchMovies(i) \/ fetchCinemas(i) \/ fetchUsers(i) \/ fetchCities(i)
  PROVE  Settled(i) /\ loading' \in BOOLEAN /\ Settles(i)
<1>1. SampleList \in Lists
  BY AdminAssumption DEF SampleList, Lists
<1>2. CASE fetchData(i) \/ fetchCinemas(i) \/ fetchUsers(i)
  BY <1>1, <1>2 DEF fetchData, fetchCinemas, fetchUsers, ListOrSample, FallBack, Settles
<1>3. CASE fetchCities(i)
  BY <1>3 DEF fetchCities, FallBack, Types, ListTypes, Settles
<1>4. CASE fetchMovies(i)
  BY <1>4 DEF fetchMovies, FallBack, Types, ListTypes, RestTypes, Settles
<1> QED BY <1>2, <1>3, <1>4

(* Every form is sent in the same way.                                     *)
LEMMA Sending ==
  ASSUME NEW r \in Requests,
         \/ \E value \in Values : Adding(r, value)
         \/ \E key \in Keys : Deleting(r, key)
         \/ \E key \in Keys, value \in Values : Editing(r, key, value)
  PROVE  \E form \in {"add", "edit", "membership", "delete"}, key \in Keys, value \in Values :
           Submit(r, form, key, value)
<1>1. <<"new", r>> \in Keys
  BY DEF Keys, Invented
<1>2. ASSUME NEW value \in Values, Adding(r, value)
      PROVE  Submit(r, "add", <<"new", r>>, value)
  BY <1>2 DEF Adding, handleAddShowtime, handleAddMovie, handleAddCinema, Add
<1>3. ASSUME NEW key \in Keys, Deleting(r, key)
      PROVE  Submit(r, "delete", key, 0) /\ 0 \in Values
  BY <1>3, AdminAssumption DEF Deleting, handleDeleteMovie, confirmDeleteUser, confirmDeleteCity, Delete
<1>4. ASSUME NEW key \in Keys, NEW value \in Values, Editing(r, key, value)
      PROVE  \/ Submit(r, "edit", key, value) \/ Submit(r, "membership", key, value)
             \/ Submit(r, "add", <<"new", r>>, value)
  BY <1>4 DEF Editing, handleEditMovie, handleAddHall, handleSubmitRole, handleSubmitMembership,
              handleSubmitCity, Add, Edit
<1> QED BY <1>1, <1>2, <1>3, <1>4

(* What happens to the fetches: one is served, one settles, some are sent. *)
LEMMA ServeFetches ==
  ASSUME Types, NEW i, ServeFetch(i)
  PROVE  /\ FetchTypes' /\ Len(fetches') = Len(fetches)
         /\ \A j \in 1..Len(fetches) :
              fetches'[j] = IF j = i THEN [served |-> TRUE, list |-> Of(table)] ELSE fetches[j]
<1>1. fetches \in Seq(FetchRecords) /\ i \in 1..Len(fetches)
  BY LenProperties DEF Types, FetchTypes, ServeFetch
<1>2. [served |-> TRUE, list |-> Of(table)] \in FetchRecords
  BY OfTable DEF Types, FetchRecords
<1>3. fetches' = [fetches EXCEPT ![i] = [served |-> TRUE, list |-> Of(table)]]
  BY DEF ServeFetch
<1> QED BY <1>1, <1>2, <1>3, ExceptSeq DEF Types, FetchTypes

LEMMA SettleFetches ==
  ASSUME Types, NEW i, Settled(i)
  PROVE  /\ FetchTypes' /\ i \in 1..Len(fetches) /\ Len(fetches') = Len(fetches) - 1
         /\ \A j \in 1..Len(fetches') : fetches'[j] = IF j < i THEN fetches[j] ELSE fetches[j + 1]
<1>1. fetches \in Seq(FetchRecords) /\ i \in 1..Len(fetches) /\ Len(fetches) \in Nat
  BY LenProperties DEF Types, FetchTypes, Settled
<1>2. fetches' = RemoveAt(fetches, i)
  BY DEF Settled
<1>3. /\ fetches' \in Seq(FetchRecords) /\ Len(fetches') = Len(fetches) - 1
      /\ \A j \in 1..(Len(fetches) - 1) : fetches'[j] = IF j < i THEN fetches[j] ELSE fetches[j + 1]
  BY <1>1, <1>2, RemoveAtProperties
<1>4. FetchTypes'
  BY <1>1, <1>3, AdminAssumption DEF Types, FetchTypes
<1> QED BY <1>1, <1>3, <1>4

LEMMA SendFetches ==
  ASSUME Types, NEW n \in {1, 2}, Send(n)
  PROVE  /\ FetchTypes' /\ Len(fetches') = Len(fetches) + n
         /\ \A j \in 1..Len(fetches') : fetches'[j] = IF j <= Len(fetches) THEN fetches[j] ELSE Fetch
<1>1. fetches \in Seq(FetchRecords) /\ Len(fetches) \in Nat
  BY LenProperties DEF Types, FetchTypes
<1>2. Fetches(n) \in [1..n -> FetchRecords] /\ n \in Nat
  BY EmptyFetch DEF Fetches
<1>3. Fetches(n) \in Seq(FetchRecords)
  BY <1>2, SeqDef
<1>4. Len(Fetches(n)) = n
  BY <1>2, <1>3, LenProperties
<1>5. \A j \in 1..n : Fetches(n)[j] = Fetch
  BY DEF Fetches
<1>6. fetches' = fetches \o Fetches(n) /\ Len(fetches) + n <= MaxFetches
  BY DEF Send
<1>7. /\ fetches' \in Seq(FetchRecords) /\ Len(fetches') = Len(fetches) + n
      /\ \A j \in 1..(Len(fetches) + n) :
           fetches'[j] = IF j <= Len(fetches) THEN fetches[j] ELSE Fetches(n)[j - Len(fetches)]
  BY <1>1, <1>3, <1>4, <1>6, ConcatProperties
<1>8. ASSUME NEW j \in 1..(Len(fetches) + n)
      PROVE  fetches'[j] = IF j <= Len(fetches) THEN fetches[j] ELSE Fetch
  <2>1. ~(j <= Len(fetches)) => j - Len(fetches) \in 1..n
    BY <1>1, <1>2
  <2> QED BY <1>5, <1>7, <2>1
<1>9. FetchTypes'
  BY <1>6, <1>7 DEF FetchTypes
<1> QED BY <1>7, <1>8, <1>9
-----------------------------------------------------------------------------
(* Types, and where the rows come from *)

(* The copy in the browser's storage has rows that the page made up only   *)
(* after a failure.                                                        *)
StoredHasACause == (\E k \in Invented : Has(stored, k)) => failed

Causes == InventedHasACause /\ StoredHasACause

AdminInv == Types /\ FormsKnown /\ FetchesGenuine /\ Causes

LEMMA AdminInit == Init => AdminInv
<1> SUFFICES ASSUME Init PROVE AdminInv
  OBVIOUS
<1>1. FetchTypes /\ FetchesGenuine
  <2>1. fetches \in [1..1 -> FetchRecords] /\ fetches = <<Fetch>>
    BY EmptyFetch DEF Init
  <2>2. fetches \in Seq(FetchRecords) /\ Len(fetches) = 1 /\ fetches[1] = Fetch
    BY <2>1, SeqDef
  <2> QED BY <2>2, EmptyFetch, LenProperties, AdminAssumption DEF FetchTypes, FetchesGenuine
<1>2. ListTypes
  BY AdminAssumption DEF Init, ListTypes, Nothing, SampleList, Lists
<1>3. RestTypes
  BY DEF Init, RestTypes
<1>4. RequestTypes /\ FormsKnown
  BY DEF Init, RequestTypes, RequestRecords, FormsKnown, Form
<1>5. Causes
  <2>1. Invented \cap Sample = {} => StoredHasACause
    BY DEF Init, StoredHasACause, Has, SampleList, Keys
  <2>2. Invented \cap Sample = {}
    BY AdminAssumption DEF Invented, Requests
  <2>3. \A k \in Invented \cup Sample : rows[k] = Absent
    BY DEF Init, Nothing, Keys
  <2> QED BY <2>1, <2>2, <2>3 DEF Init, Causes, InventedHasACause, Has
<1> QED BY <1>1, <1>2, <1>3, <1>4, <1>5 DEF AdminInv, Types

(* A step that leaves the fetches alone keeps what is said of them.        *)
LEMMA FetchesLeft ==
  ASSUME Types, FetchesGenuine, UNCHANGED fetches
  PROVE  FetchTypes' /\ FetchesGenuine'
  BY DEF Types, FetchTypes, FetchesGenuine, Genuine, Has

(* Where every element is an old one, a new one or the table, the lists    *)
(* are genuine.                                                            *)
LEMMA FetchesKept ==
  ASSUME Types, FetchesGenuine, FetchTypes',
         \A j \in 1..Len(fetches') :
           \/ \E i \in 1..Len(fetches) : fetches'[j] = fetches[i]
           \/ fetches'[j] \in {Fetch, [served |-> TRUE, list |-> Of(table)]}
  PROVE  FetchesGenuine'
<1>1. DOMAIN fetches = 1..Len(fetches) /\ DOMAIN fetches' = 1..Len(fetches')
  BY LenProperties DEF Types, FetchTypes
<1>2. \A j \in 1..Len(fetches') : Genuine(fetches'[j].list)
  <2>1. Genuine(Fetch.list) /\ Genuine([served |-> TRUE, list |-> Of(table)].list)
    BY OfTable, EmptyFetch DEF Types
  <2> QED BY <1>1, <2>1 DEF FetchesGenuine
<1> QED BY <1>1, <1>2 DEF FetchesGenuine, Genuine, Has

(* The fate of a request: answered or done with.                           *)
LEMMA RequestMoves ==
  ASSUME RequestTypes, FormsKnown, NEW r \in Requests, request[r].pc \in {"sent", "yes", "no"},
         \/ \E pc \in {"yes", "no"} : Answered(r, pc)
         \/ request' = [request EXCEPT ![r] = [Form EXCEPT !.pc = "done"]]
  PROVE  RequestTypes' /\ FormsKnown'
<1>1. CASE \E pc \in {"yes", "no"} : Answered(r, pc)
  BY <1>1 DEF RequestTypes, RequestRecords, FormsKnown, Answered
<1>2. CASE request' = [request EXCEPT ![r] = [Form EXCEPT !.pc = "done"]]
  BY <1>2 DEF RequestTypes, RequestRecords, FormsKnown, Form
<1> QED BY <1>1, <1>2

LEMMA AdminStep == AdminInv /\ [Next]_vars => AdminInv'
<1> SUFFICES ASSUME AdminInv, [Next]_vars PROVE AdminInv'
  OBVIOUS
<1>0. /\ Types /\ FormsKnown /\ FetchesGenuine /\ Causes
      /\ FetchTypes /\ ListTypes /\ RestTypes /\ RequestTypes
  BY DEF AdminInv, Types
<1>whole. ASSUME FetchTypes', FetchesGenuine', ListTypes', RestTypes', RequestTypes', FormsKnown',
                 Causes'
          PROVE  AdminInv'
  BY <1>whole DEF AdminInv, Types
<1>1. CASE UNCHANGED vars
  BY <1>0, <1>1 DEF vars, history, AdminInv, Types, FetchTypes, ListTypes, RestTypes, RequestTypes,
                    FormsKnown, FetchesGenuine, Genuine, Causes, InventedHasACause, StoredHasACause, Has
<1>2. ASSUME NEW i, ServeFetch(i) PROVE AdminInv'
  <2>1. FetchTypes' /\ FetchesGenuine'
    BY <1>0, <1>2, ServeFetches, FetchesKept
  <2>2. UNCHANGED <<page, table, rows, loading, selected, halls, stored, request, history>>
    BY <1>2 DEF ServeFetch
  <2>3. /\ ListTypes' /\ RestTypes' /\ RequestTypes' /\ FormsKnown' /\ Causes'
    BY <1>0, <2>2 DEF history, ListTypes, RestTypes, RequestTypes, FormsKnown,
                      Causes, InventedHasACause, StoredHasACause, Has
  <2> QED BY <1>whole, <2>1, <2>3
<1>3. ASSUME NEW i, fetchData(i) \/ fetchMovies(i) \/ fetchCinemas(i) \/ fetchUsers(i) \/ fetchCities(i)
      PROVE  AdminInv'
  <2>1. Settled(i) /\ loading' \in BOOLEAN /\ Settles(i)
    BY <1>0, <1>3, Settling
  <2>2. FetchTypes' /\ FetchesGenuine'
    <3>1. /\ FetchTypes' /\ i \in 1..Len(fetches) /\ Len(fetches') = Len(fetches) - 1
          /\ Len(fetches) \in Nat
          /\ \A j \in 1..Len(fetches') : fetches'[j] = IF j < i THEN fetches[j] ELSE fetches[j + 1]
      BY <1>0, <2>1, SettleFetches, LenProperties DEF FetchTypes
    <3>2. \A j \in 1..Len(fetches') : j \in 1..Len(fetches) /\ j + 1 \in 1..Len(fetches)
      BY <3>1
    <3>3. \A j \in 1..Len(fetches') : \E k \in 1..Len(fetches) : fetches'[j] = fetches[k]
      BY <3>1, <3>2
    <3> QED BY <1>0, <3>1, <3>3, FetchesKept
  <2>3. i \in DOMAIN fetches => fetches[i] \in FetchRecords /\ Genuine(fetches[i].list)
    BY <1>0, LenProperties, ElementOfSeq DEF FetchTypes, FetchesGenuine
  <2>4. UNCHANGED <<page, table, selected, halls, stored, request, foreign>>
    BY <2>1 DEF Settled
  <2>5. /\ rows' \in Lists /\ failed' \in BOOLEAN /\ foundNone' \in BOOLEAN
        /\ overtaken' \in BOOLEAN
    BY <1>0, <2>1, <2>3
       DEF Settles, Show, ShowStored, Overtakes, Arrived, FetchRecords, RestTypes, ListTypes
  <2>6. Causes'
    <3>1. CASE Arrived(i) /\ Show(i)
      <4>1. \A k \in Keys \ Ids : ~Has(rows', k)
        BY <2>3, <3>1 DEF Arrived, Show, Genuine, Has
      <4>2. (Invented \cup Sample) \cap Ids = {}
        BY AdminAssumption DEF Invented, Requests
      <4>3. failed' = failed
        BY <3>1 DEF Show
      <4> QED BY <1>0, <2>4, <4>1, <4>2, <4>3
              DEF Causes, InventedHasACause, StoredHasACause, Has, Keys
    <3>2. CASE page = "movies" /\ ShowStored(i)
      BY <1>0, <2>4, <3>2 DEF ShowStored, Causes, InventedHasACause, StoredHasACause, Has
    <3>3. CASE failed' = TRUE /\ (page = "cities" => rows' = rows)
              /\ foundNone' = foundNone
      BY <1>0, <2>4, <3>3 DEF Causes, InventedHasACause, StoredHasACause, Has
    <3> QED BY <2>1, <3>1, <3>2, <3>3 DEF Settles
  <2>7. ListTypes' /\ RestTypes' /\ RequestTypes' /\ FormsKnown'
    BY <1>0, <2>1, <2>4, <2>5 DEF ListTypes, RestTypes, RequestTypes, FormsKnown
  <2> QED BY <1>whole, <2>2, <2>6, <2>7
<1>4. ASSUME NEW key \in Keys, Open(key) PROVE AdminInv'
  <2>1. FetchTypes' /\ FetchesGenuine'
    BY <1>0, <1>4, FetchesLeft DEF Open
  <2>2. /\ ListTypes' /\ RequestTypes' /\ FormsKnown' /\ Causes'
    BY <1>0, <1>4 DEF Open, history, ListTypes, RequestTypes, FormsKnown,
                      Causes, InventedHasACause, StoredHasACause, Has
  <2>3. rows[key] \in Values
    BY <1>0, <1>4 DEF Open, Has, ListTypes, Lists
  <2>4. RestTypes'
    BY <1>0, <1>4, <2>3 DEF Open, history, RestTypes
  <2> QED BY <1>whole, <2>1, <2>2, <2>4
<1>5. ASSUME NEW r \in Requests, NEW form \in {"add", "edit", "membership", "delete"},
             NEW key \in Keys, NEW value \in Values, Submit(r, form, key, value)
      PROVE  AdminInv'
  <2>1. FetchTypes' /\ FetchesGenuine'
    BY <1>0, <1>5, FetchesLeft DEF Submit
  <2>2. ListTypes' /\ RestTypes' /\ Causes'
    BY <1>0, <1>5 DEF Submit, history, ListTypes, RestTypes, Causes, InventedHasACause, StoredHasACause, Has
  <2>3. RequestTypes' /\ FormsKnown'
    BY <1>0, <1>5 DEF Submit, RequestTypes, RequestRecords, FormsKnown
  <2> QED BY <1>whole, <2>1, <2>2, <2>3
<1>6. ASSUME NEW r \in Requests, Serve(r) \/ Refuse(r) PROVE AdminInv'
  <2>1. /\ UNCHANGED <<page, rows, loading, selected, halls, stored, fetches, history>>
        /\ request[r].pc = "sent" /\ \E pc \in {"yes", "no"} : Answered(r, pc)
    BY <1>6 DEF Serve, Refuse
  <2>2. FetchTypes' /\ FetchesGenuine'
    BY <1>0, <2>1, FetchesLeft
  <2>3. RequestTypes' /\ FormsKnown'
    BY <1>0, <2>1, RequestMoves
  <2>4. table' \in [Ids -> Values \cup {Absent}]
    <3>1. CASE Refuse(r)
      BY <1>0, <3>1 DEF Refuse, ListTypes
    <3>2. CASE Serve(r)
      <4>1. PICK id \in Ids : table' = Done(table, request[r].form, id, request[r].value)
        BY <3>2 DEF Serve
      <4>2. /\ request[r].form \in {"add", "edit", "membership", "delete"}
            /\ request[r].value \in Values \cup {Absent}
        BY <1>0, <2>1 DEF RequestTypes, RequestRecords, FormsKnown
      <4> QED BY <1>0, <4>1, <4>2, DoneTyped DEF ListTypes
    <3> QED BY <1>6, <3>1, <3>2
  <2>5. ListTypes' /\ RestTypes' /\ Causes'
    BY <1>0, <2>1, <2>4 DEF history, ListTypes, RestTypes, Causes, InventedHasACause, StoredHasACause, Has
  <2> QED BY <1>whole, <2>2, <2>3, <2>5
<1>7. ASSUME NEW r \in Requests, FormDone(r) \/ FormFails(r) PROVE AdminInv'
  <2> DEFINE q == request[r]
  <2>1. /\ q.pc \in {"yes", "no"} /\ UNCHANGED <<page, table, selected, foundNone, foreign, overtaken>>
        /\ ListHall(q.form, q.value)
        /\ request' = [request EXCEPT ![r] = [Form EXCEPT !.pc = "done"]]
    BY <1>7 DEF FormDone, FormFails, history
  <2>2. RequestTypes' /\ FormsKnown'
    BY <1>0, <2>1, RequestMoves
  <2>3. /\ q.form \in {"add", "edit", "membership", "delete"}
        /\ q.value \in Values
    BY <1>0, <2>1 DEF RequestTypes, RequestRecords, FormsKnown
  <2>hall. halls' \subseteq Values
    BY <1>0, <2>1, <2>3 DEF ListHall, RestTypes
  <2>4. Done(rows, q.form, q.key, q.value) \in Lists /\ Done(stored, q.form, q.key, q.value) \in Lists
    BY <1>0, <2>3, DoneTyped DEF ListTypes, Lists
  <2>5. UNCHANGED <<fetches, loading>> \/ \E n \in {1, 2} : Send(n)
    BY <1>7 DEF FormDone, FormFails, Refetches
  <2>6. FetchTypes' /\ FetchesGenuine'
    <3>1. ASSUME NEW n \in {1, 2}, Send(n) PROVE FetchTypes' /\ FetchesGenuine'
      <4>1. /\ FetchTypes' /\ Len(fetches) \in Nat /\ Len(fetches') \in Nat
            /\ \A j \in 1..Len(fetches') : fetches'[j] = IF j <= Len(fetches) THEN fetches[j] ELSE Fetch
        BY <1>0, <3>1, SendFetches, LenProperties DEF FetchTypes
      <4>2. \A j \in 1..Len(fetches') : j \in 1..Len(fetches) \/ fetches'[j] = Fetch
        BY <4>1
      <4> QED BY <1>0, <4>1, <4>2, FetchesKept
    <3> QED BY <1>0, <2>5, <3>1, FetchesLeft
  <2>7. loading' \in BOOLEAN
    BY <1>0, <2>5 DEF Send, RestTypes
  <2>8. CASE FormDone(r)
    <3>1. /\ UNCHANGED <<rows, failed>>
          /\ \/ stored' = stored
             \/ q.form # "add" /\ stored' = Done(stored, q.form, q.key, q.value)
      BY <2>8 DEF FormDone, Store, history
    <3>2. ListTypes' /\ RestTypes'
      BY <1>0, <2>1, <2>hall, <2>4, <2>7, <3>1 DEF ListTypes, RestTypes
    <3>3. \A k \in Keys : Has(stored', k) => Has(stored, k)
      <4>1. stored \in Lists
        BY <1>0 DEF ListTypes
      <4>2. ASSUME q.form \in {"edit", "membership"}, stored' = Done(stored, q.form, q.key, q.value)
            PROVE  \A k \in Keys : Has(stored', k) => Has(stored, k)
        BY <4>1, <4>2 DEF Done, Has, Lists
      <4>3. ASSUME q.form = "delete", stored' = Done(stored, q.form, q.key, q.value)
            PROVE  \A k \in Keys : Has(stored', k) => Has(stored, k)
        BY <4>1, <4>3 DEF Done, Has, Lists
      <4> QED BY <2>3, <3>1, <4>2, <4>3
    <3>4. Causes'
      BY <1>0, <2>1, <3>1, <3>3 DEF Causes, InventedHasACause, StoredHasACause, Has, Keys
    <3> QED BY <1>whole, <2>2, <2>6, <3>2, <3>4
  <2>9. CASE FormFails(r)
    <3>1. /\ failed' = TRUE /\ (page = "cities" => rows' = rows)
          /\ rows' \in {rows, Done(rows, q.form, q.key, q.value)}
          /\ stored' \in {stored, Done(stored, q.form, q.key, q.value)}
      BY <2>9 DEF FormFails, Store
    <3>2. ListTypes' /\ RestTypes'
      BY <1>0, <2>1, <2>hall, <2>4, <2>7, <3>1 DEF ListTypes, RestTypes
    <3>3. Causes'
      BY <1>0, <2>1, <3>1 DEF Causes, InventedHasACause, StoredHasACause, Has
    <3> QED BY <1>whole, <2>2, <2>6, <3>2, <3>3
  <2> QED BY <1>7, <2>8, <2>9
<1>8. ASSUME NEW id \in Ids, NEW value \in Values \cup {Absent}, Elsewhere(id, value) PROVE AdminInv'
  <2>1. FetchTypes' /\ FetchesGenuine'
    BY <1>0, <1>8, FetchesLeft DEF Elsewhere
  <2>2. /\ ListTypes' /\ RestTypes' /\ RequestTypes' /\ FormsKnown' /\ Causes'
    BY <1>0, <1>8 DEF Elsewhere, ListTypes, RestTypes, RequestTypes, FormsKnown,
                      Causes, InventedHasACause, StoredHasACause, Has
  <2> QED BY <1>whole, <2>1, <2>2
<1>9. ASSUME NEW r \in Requests,
             \/ \E value \in Values : Adding(r, value)
             \/ \E key \in Keys : Deleting(r, key)
             \/ \E key \in Keys, value \in Values : Editing(r, key, value)
      PROVE  AdminInv'
  BY <1>5, <1>9, Sending
<1> QED BY <1>1, <1>2, <1>3, <1>4, <1>6, <1>7, <1>8, <1>9 DEF Next, Fetching

LEMMA AdminAlways == Spec => []AdminInv
  BY AdminInit, AdminStep, PTL DEF Spec

(* Every variable of a page keeps its type.                                *)
THEOREM PageTypeCorrect == Spec => []TypeOK
<1>1. AdminInv => TypeOK
  BY TypesImply DEF AdminInv
<1> QED BY <1>1, AdminAlways, PTL

(* Rows that a page made up are shown only after a call failed, rows that  *)
(* it has built in also when the server has no films, and the page of      *)
(* cities never shows either.                                              *)
THEOREM RowsAreGenuine == Spec => []InventedHasACause
<1>1. AdminInv => InventedHasACause
  BY DEF AdminInv, Causes
<1> QED BY <1>1, AdminAlways, PTL
-----------------------------------------------------------------------------
(* What a page holds when everything is over *)

FreshInv == AdminInv /\ Fresh

(* A step that touches neither the table nor what the page knows of it.    *)
LEMMA FreshLeft ==
  ASSUME Fresh, UNCHANGED <<page, table, rows, stored, fetches, history>>,
         AllSeen' => AllSeen
  PROVE  Fresh'
  BY DEF Fresh, AllSeen, Current, Of, history

LEMMA FreshStep == FreshInv /\ [Next]_vars => FreshInv'
<1> SUFFICES ASSUME FreshInv, [Next]_vars PROVE FreshInv'
  OBVIOUS
<1>0. /\ Types /\ FormsKnown /\ Fresh /\ FetchTypes /\ ListTypes /\ RestTypes /\ RequestTypes
      /\ Len(fetches) \in Nat /\ (fetches # << >> => Len(fetches) \in Nat \ {0})
  BY EmptySeq, LenProperties DEF FreshInv, AdminInv, Types, FetchTypes
<1>whole. ASSUME Fresh' PROVE FreshInv'
  BY <1>whole, AdminStep DEF FreshInv
<1>1. CASE UNCHANGED vars
  BY <1>0, <1>1, <1>whole, FreshLeft DEF vars, AllSeen
<1>2. ASSUME NEW i, ServeFetch(i) PROVE FreshInv'
  <2>1. /\ Len(fetches') = Len(fetches) /\ i \in 1..Len(fetches)
        /\ \A j \in 1..Len(fetches) :
             fetches'[j] = IF j = i THEN [served |-> TRUE, list |-> Of(table)] ELSE fetches[j]
    BY <1>0, <1>2, ServeFetches, LenProperties DEF ServeFetch, FetchTypes
  <2>2. UNCHANGED <<page, table, rows, stored, request, failed, foreign, overtaken>>
    BY <1>2 DEF ServeFetch, history
  <2>3. fetches # << >> /\ fetches' # << >>
    BY <1>0, <2>1, EmptySeq
  <2>4. fetches'[Len(fetches')] \in {[served |-> TRUE, list |-> Of(table)], fetches[Len(fetches)]}
    BY <1>0, <2>1
  <2>5. Fresh'
    BY <1>0, <2>2, <2>3, <2>4 DEF Fresh, AllSeen, Current, Of
  <2> QED BY <1>whole, <2>5
<1>3. ASSUME NEW i, fetchData(i) \/ fetchMovies(i) \/ fetchCinemas(i) \/ fetchUsers(i) \/ fetchCities(i)
      PROVE  FreshInv'
  <2> DEFINE list == fetches[i].list
             shown == IF page = "movies" /\ list = Nothing THEN stored ELSE list
             Shows == /\ Arrived(i) /\ Overtakes(i) /\ failed' = failed
                      /\ rows' = shown
  <2>1. /\ Settled(i)
        /\ \/ Shows \/ failed' = TRUE
    BY <1>0, <1>3, Settling DEF Settles, Show, ShowStored
  <2>2. UNCHANGED <<page, table, stored, request, foreign>>
    BY <2>1 DEF Settled
  <2>3. /\ FetchTypes' /\ i \in 1..Len(fetches) /\ Len(fetches') = Len(fetches) - 1
        /\ \A j \in 1..Len(fetches') : fetches'[j] = IF j < i THEN fetches[j] ELSE fetches[j + 1]
    BY <1>0, <2>1, SettleFetches
  <2>4. ASSUME Shows, AllSeen', ~failed', ~foreign', ~overtaken'
        PROVE  IF fetches' = << >> THEN rows' = Current'
               ELSE LET last == fetches'[Len(fetches')] IN last.served => last.list = Of(table)'
    <3>1. i = 1 /\ ~failed /\ ~foreign /\ ~overtaken /\ AllSeen
      <4>1. failed' = failed /\ overtaken' = (overtaken \/ i > 1)
        BY <2>4 DEF Overtakes
      <4>2. ~overtaken /\ ~(i > 1)
        BY <2>4, <4>1
      <4>3. i = 1
        BY <1>0, <2>3, <4>2
      <4>4. ~failed /\ ~foreign /\ AllSeen
        BY <2>2, <2>4, <4>1 DEF AllSeen
      <4> QED BY <4>1, <4>2, <4>3, <4>4
    <3>2. Of(table)' = Of(table) /\ Current' = Current
      BY <2>2 DEF Of, Current
    <3>3. fetches # << >>
      BY <2>3, EmptySeq
    <3>4. fetches[Len(fetches)].served => fetches[Len(fetches)].list = Of(table)
      BY <1>0, <3>1, <3>3 DEF Fresh
    <3>5. CASE Len(fetches) = 1
      <4>1. fetches' = << >>
        BY <2>3, <3>5, EmptySeq DEF FetchTypes
      <4> QED BY <2>4, <3>1, <3>2, <3>4, <3>5, <4>1 DEF Arrived, Current
    <3>6. CASE Len(fetches) # 1
      <4>1. Len(fetches') \in 1..Len(fetches') /\ Len(fetches') + 1 = Len(fetches) /\ Len(fetches') >= 1
        BY <1>0, <2>3, <3>6
      <4>2. fetches'[Len(fetches')] = fetches[Len(fetches)]
        BY <2>3, <3>1, <4>1
      <4>3. fetches' # << >>
        BY <4>1, EmptySeq
      <4> QED BY <3>2, <3>4, <4>2, <4>3
    <3> QED BY <3>5, <3>6
  <2>5. Fresh'
    BY <2>1, <2>4 DEF Fresh
  <2> QED BY <1>whole, <2>5
<1>4. ASSUME NEW key \in Keys, Open(key) PROVE FreshInv'
  BY <1>0, <1>4, <1>whole, FreshLeft DEF Open, AllSeen
<1>5. ASSUME NEW r \in Requests, NEW form \in {"add", "edit", "membership", "delete"},
             NEW key \in Keys, NEW value \in Values, Submit(r, form, key, value)
      PROVE  FreshInv'
  <2>1. AllSeen' => AllSeen
    BY <1>0, <1>5 DEF Submit, Unsent, AllSeen, RequestTypes
  <2> QED BY <1>0, <1>5, <1>whole, <2>1, FreshLeft DEF Submit
<1>6. ASSUME NEW r \in Requests, Serve(r) \/ Refuse(r) PROVE FreshInv'
  <2>1. request'[r].pc \in {"yes", "no"}
    <3>1. PICK pc \in {"yes", "no"} : Answered(r, pc)
      BY <1>6 DEF Serve, Refuse
    <3> QED BY <1>0, <3>1 DEF Answered, RequestTypes, RequestRecords
  <2>2. Fresh'
    BY <2>1 DEF Fresh, AllSeen
  <2> QED BY <1>whole, <2>2
<1>7. ASSUME NEW r \in Requests, FormDone(r) PROVE FreshInv'
  <2>1. PICK n \in {1, 2} : Send(n)
    BY <1>7 DEF FormDone, Refetches
  <2>2. /\ Len(fetches') = Len(fetches) + n
        /\ \A j \in 1..Len(fetches') : fetches'[j] = IF j <= Len(fetches) THEN fetches[j] ELSE Fetch
    BY <1>0, <2>1, SendFetches
  <2>3. fetches'[Len(fetches')] = Fetch
    BY <1>0, <2>2
  <2>4. fetches' # << >>
    BY <1>0, <2>2, EmptySeq
  <2>5. Fresh'
    BY <2>3, <2>4, EmptyFetch DEF Fresh
  <2> QED BY <1>whole, <2>5
<1>8. ASSUME NEW r \in Requests, FormFails(r) PROVE FreshInv'
  <2>1. Fresh'
    BY <1>8 DEF FormFails, Fresh
  <2> QED BY <1>whole, <2>1
<1>9. ASSUME NEW id \in Ids, NEW value \in Values \cup {Absent}, Elsewhere(id, value) PROVE FreshInv'
  <2>1. Fresh'
    BY <1>9 DEF Elsewhere, Fresh
  <2> QED BY <1>whole, <2>1
<1>10. ASSUME NEW r \in Requests,
              \/ \E value \in Values : Adding(r, value)
              \/ \E key \in Keys : Deleting(r, key)
              \/ \E key \in Keys, value \in Values : Editing(r, key, value)
       PROVE  FreshInv'
  BY <1>5, <1>10, Sending
<1> QED BY <1>1, <1>2, <1>3, <1>4, <1>6, <1>7, <1>8, <1>9, <1>10 DEF Next, Fetching

(* When nothing is under way and nothing went wrong, the page holds what   *)
(* the table holds, however forms and fetches overlapped.                  *)
THEOREM PagesCatchUp == Spec => []CurrentAtRest
<1>1. Init => FreshInv
  <2>1. Init => Fresh
    <3>1. Init => Len(fetches) = 1 /\ fetches # << >> /\ fetches[1] = Fetch
      BY EmptySeq DEF Init
    <3> QED BY <3>1, EmptyFetch DEF Fresh
  <2> QED BY <2>1, AdminInit DEF FreshInv
<1>2. FreshInv => CurrentAtRest
  BY DEF FreshInv, Fresh, AllSeen, CurrentAtRest
<1> QED BY <1>1, <1>2, FreshStep, PTL DEF Spec
=============================================================================
