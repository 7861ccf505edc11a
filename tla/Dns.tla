-------------------------------- MODULE Dns ---------------------------------
(***************************************************************************)
(* The DNS client (core/dns.c): a table of names that are asked for or     *)
(* were answered, the retries of dns_tmr, and answers that come late,      *)
(* twice or never, and only from the server that dns_pcb is connected to.  *)
(*                                                                         *)
(* An address is known by the name that it was given for, and the one that *)
(* a request before left in an entry, 0 at first, is Old.  The callback of *)
(* a request may ask for another name.  dns_tmr looks at one entry at a    *)
(* time, and nothing happens between two.                                  *)
(***************************************************************************)
EXTENDS Integers, FiniteSets

CONSTANTS
  Names, Zero, Old,  \* Zero: no name, or no address (NULL)
  NamePrefixes,      \* the names whose labels are the first of those of
  LongerNames,       \* these; all other names are no longer than NamePrefixes
  Ttls,              \* the times to live in answers
  AskAgainOn,        \* the callbacks that may ask: "timeout", "found", "error"
  DNS_TABLE_SIZE, DNS_MAX_SERVERS, DNS_MAX_RETRIES, DNS_MAX_TTL,
  DnsSeqMod, TtlMod, \* the ranges of dns_seqno and of ttl, 2^8 and 2^32 in the code
  MaxAsked           \* bound: the queries that may be answered yet

ASSUME DnsAssumption ==
  /\ DNS_TABLE_SIZE \in Nat \ {0} /\ DNS_MAX_SERVERS \in Nat \ {0}
  /\ DNS_MAX_RETRIES \in Nat \ {0} /\ DNS_MAX_TTL \in Nat \ {0}
  /\ DnsSeqMod \in Nat \ {0} /\ TtlMod \in Nat /\ TtlMod > DNS_MAX_TTL /\ Ttls \subseteq Nat
  /\ Zero \notin Names /\ Old \notin Names /\ Old # Zero
  /\ NamePrefixes \subseteq Names /\ LongerNames \subseteq Names
  /\ NamePrefixes \cap LongerNames = {}

VARIABLES
  dns,     \* dns_table, dns_seqno; the server of dns_pcb; asked: what a server
           \* may answer yet; told: the names and addresses that the last step
           \* passed to the application, Zero for a callback with NULL; begun:
           \* the names for which it returned ERR_INPROGRESS
  entry    \* the one that dns_tmr comes to

dnsVars == <<dns, entry>>

Entries == 0..(DNS_TABLE_SIZE - 1)

UnusedEntry == [state |-> "unused", numdns |-> 0, tmr |-> 0, retries |-> 0, seqno |-> 0,
                ttl |-> 0, name |-> Zero, rest |-> Zero, ipaddr |-> Old]

DnsInit ==
  /\ dns = [table |-> [i \in Entries |-> UnusedEntry], seqno |-> 0, server |-> 0,
            asked |-> {}, told |-> {}, begun |-> {}]
  /\ entry = DNS_TABLE_SIZE

NoTick == entry = DNS_TABLE_SIZE

FirstOf(S) == CHOOSE i \in S : \A j \in S : i <= j

-----------------------------------------------------------------------------
(* dns_send for entry i: sent unless there is no memory.  A query may be lost. *)
Send(d, i, sent) ==
  LET e == d.table[i]
      asked == d.asked \cup {[id |-> i, name |-> e.name, server |-> e.numdns]}
  IN  IF ~sent THEN d
      ELSE [d EXCEPT !.server = e.numdns,
                     !.asked = IF Cardinality(asked) <= MaxAsked THEN asked ELSE @]

(* What is flushed keeps its fields, of which ipaddr and the end of a longer   *)
(* name alone may be read again; as of a completed entry those for the        *)
(* retries are not.                                                           *)
Flush(d, i) == [d EXCEPT !.table[i] = [UnusedEntry EXCEPT !.rest = d.table[i].rest]]

Done(d, name) == {i \in Entries : d.table[i].state = "done" /\ d.table[i].name = name}

(* The entry that dns_enqueue takes, if any: the first unused one, or the     *)
(* oldest completed one.  How old is the difference of two u8_t as int, which *)
(* is not positive once dns_seqno wrapped; entry 0 is tried then.             *)
EntryFor(d) ==
  LET unused == {i \in Entries : d.table[i].state = "unused"}
      age(i) == d.seqno - d.table[i].seqno
      aged   == {i \in Entries : d.table[i].state = "done" /\ age(i) > 0}
      oldest == {i \in aged : \A j \in aged : age(j) <= age(i)}
      lseqi  == IF aged = {} THEN 0 ELSE FirstOf(oldest)
  IN  IF unused # {} THEN {FirstOf(unused)}
      ELSE IF d.table[lseqi].state = "done" THEN {lseqi} ELSE {}

(* strcpy leaves what the buffer holds beyond the new name: the end of the    *)
(* last longer one.                                                           *)
Beyond(e, name) == IF name \in LongerNames THEN name ELSE e.rest

(* dns_enqueue, with the first dns_check_entry of the new entry.              *)
Enqueue(d, name, sent) ==
  IF EntryFor(d) = {} THEN d
  ELSE LET i == FirstOf(EntryFor(d))
           e == [d.table[i] EXCEPT !.state = "asking", !.numdns = 0, !.tmr = 1, !.retries = 0,
                                   !.seqno = d.seqno, !.ttl = 0, !.name = name,
                                   !.rest = Beyond(d.table[i], name), !.ipaddr = Old]
       IN  Send([d EXCEPT !.table[i] = e,
                          !.seqno = (@ + 1) % DnsSeqMod,
                          !.begun = @ \cup {name}],
                i, sent)

Told(d, name, addr) == [d EXCEPT !.told = @ \cup {[name |-> name, addr |-> addr]}]

(* dns_gethostbyname *)
Ask(d, name, sent) ==
  IF Done(d, name) # {} THEN Told(d, name, d.table[FirstOf(Done(d, name))].ipaddr)
  ELSE Enqueue(d, name, sent)

(* The callback found, on one of three occasions; it may ask for some names.  *)
Again(occasion) == IF occasion \in AskAgainOn THEN Names \cup {Zero} ELSE {Zero}

Found(d, i, addr, again, sent) ==
  LET told == Told(d, d.table[i].name, addr)
  IN  IF again = Zero THEN told ELSE Ask(told, again, sent)

Quiet == [dns EXCEPT !.told = {}, !.begun = {}]

dns_gethostbyname ==
  /\ NoTick /\ UNCHANGED entry
  /\ \E name \in Names, sent \in BOOLEAN : dns' = Ask(Quiet, name, sent)

-----------------------------------------------------------------------------
(* dns_tmr: dns_check_entry for each entry                                    *)

(* Mutant: the retries of the server before count.                            *)
NextServerTired(e) == [e EXCEPT !.numdns = @ + 1, !.tmr = 1]

NextServer(e) == [e EXCEPT !.numdns = @ + 1, !.tmr = 1, !.retries = 0]

CheckAsking(e) ==
  LET d == Quiet
  IN  \/ /\ e.tmr > 1
         /\ dns' = [d EXCEPT !.table[entry].tmr = @ - 1]
      \/ /\ e.tmr = 1 /\ e.retries + 1 = DNS_MAX_RETRIES /\ e.numdns + 1 < DNS_MAX_SERVERS
         /\ dns' = [d EXCEPT !.table[entry] = NextServer(@)]
      \/ /\ e.tmr = 1 /\ e.retries + 1 = DNS_MAX_RETRIES /\ e.numdns + 1 >= DNS_MAX_SERVERS
         /\ \E again \in Again("timeout"), sent \in BOOLEAN :
              dns' = Flush(Found(d, entry, Zero, again, sent), entry)
      \/ /\ e.tmr = 1 /\ e.retries + 1 # DNS_MAX_RETRIES
         /\ \E sent \in BOOLEAN :
              dns' = Send([d EXCEPT !.table[entry].retries = @ + 1,
                                    !.table[entry].tmr = e.retries + 1], entry, sent)

(* An answer that lives no time at all wraps.                                 *)
CheckDone(e) ==
  LET ttl == (e.ttl - 1) % TtlMod
  IN  dns' = IF ttl = 0 THEN Flush(Quiet, entry) ELSE [Quiet EXCEPT !.table[entry].ttl = ttl]

dns_check_entry ==
  /\ entry < DNS_TABLE_SIZE /\ entry' = entry + 1
  /\ LET e == dns.table[entry]
     IN  CASE e.state = "asking" -> CheckAsking(e)
           [] e.state = "done"   -> CheckDone(e)
           [] e.state = "unused" -> dns' = Quiet

dns_tmr == NoTick /\ entry' = 0 /\ dns' = Quiet

-----------------------------------------------------------------------------
(* dns_recv.  udp_input hands it what comes from the server of dns_pcb; there *)
(* may be another answer to the same query later.                             *)

(* Mutant: names are not compared.                                            *)
SameNameAny(response, e) == TRUE

Begins(name, longer) == name \in NamePrefixes /\ longer \in LongerNames

(* dns_compare_name stops where the response ends, and reads on where the     *)
(* name in the entry ends.                                                    *)
SameName(response, e) ==
  \/ response = e.name
  \/ Begins(response, e.name)
  \/ Begins(e.name, response) /\ response = e.rest

Smaller(a, b) == IF a < b THEN a ELSE b

Completed(d, i) ==
  [d EXCEPT !.table[i] = [@ EXCEPT !.state = "done", !.numdns = 0, !.tmr = 0, !.retries = 0]]

(* The answer is for another name, or carries an error or no address.  The    *)
(* entry counts as completed while the callback runs, and is flushed then.    *)
ResponseErr(d, i) ==
  \E again \in Again("error"), sent \in BOOLEAN :
    dns' = Flush(Found(Completed(d, i), i, Zero, again, sent), i)

Response(d, q) ==
  /\ SameName(q.name, d.table[q.id])
  /\ \E ttl \in Ttls, again \in Again("found"), sent \in BOOLEAN :
       dns' = Found([Completed(d, q.id) EXCEPT
                              !.table[q.id].ttl = Smaller(ttl, DNS_MAX_TTL),
                              !.table[q.id].ipaddr = q.name],
                    q.id, q.name, again, sent)

Dropped(d, q) == (q.server # d.server \/ d.table[q.id].state # "asking") /\ dns' = d

Taken(d, q) ==
  /\ q.server = d.server /\ d.table[q.id].state = "asking"
  /\ Response(d, q) \/ ResponseErr(d, q.id)

dns_recv ==
  /\ NoTick /\ UNCHANGED entry
  /\ \E q \in dns.asked :
       \/ Taken(Quiet, q)
       \/ LET d == [Quiet EXCEPT !.asked = @ \ {q}] IN Taken(d, q) \/ Dropped(d, q)

-----------------------------------------------------------------------------
DnsNext == dns_gethostbyname \/ dns_tmr \/ dns_check_entry \/ dns_recv

DnsSpec == DnsInit /\ [][DnsNext]_dnsVars

-----------------------------------------------------------------------------
(* Properties *)

DnsTypeOK ==
  /\ \A i \in Entries :
       LET e == dns.table[i]
       IN  /\ e.state \in {"unused", "asking", "done"}
           /\ e.state = "asking" => /\ e.numdns < DNS_MAX_SERVERS
                                    /\ e.retries < DNS_MAX_RETRIES
                                    /\ e.tmr \in 1..DNS_MAX_RETRIES
           /\ e.seqno < DnsSeqMod /\ e.ttl \in 0..(TtlMod - 1)
  /\ entry \in 0..DNS_TABLE_SIZE

(* One name is the other, or begins with all of its labels.                    *)
Related(a, b) == a = b \/ Begins(a, b) \/ Begins(b, a)

(* The callback for an error asked for the same name again, and was answered  *)
(* with the address that was in the entry before.                             *)
LeftOver(t) ==
  /\ NoTick /\ t.addr = Old
  /\ \E i \in Entries : /\ dns.table[i].state = "asking" /\ dns.table[i].name = t.name
                        /\ dns'.table[i].state = "unused"

(* However late an answer comes, and whatever its entry was used for since    *)
(* the question, an address in the table and one that the application is      *)
(* given was given for the name that it goes with, or for one of which one    *)
(* begins with the other.  One that is left over from the request before is   *)
(* only given to a callback that was just told of an error.                   *)
AddressesRight ==
  [][/\ \A i \in Entries :
          LET e == dns'.table[i] IN e.state = "done" => Related(e.ipaddr, e.name)
     /\ \A t \in dns'.told : t.addr = Zero \/ Related(t.addr, t.name) \/ LeftOver(t)]_dnsVars

(* Not so: an answer from the server is taken for a name only if it matches   *)
(* the entry ("otherwise, answers might arrive late for hostname not on the   *)
(* list any more", dns_compare_name).                                         *)
AnswersMatch == \A t \in dns.told : t.addr \in {t.name, Zero, Old}

(* How often dns_tmr looks at an entry until it gives up: 1 + 1 + 2 + ...     *)
(* seconds with each server.                                                  *)
SumTo(n) == (n * (n + 1)) \div 2

Left(e) == e.tmr + (SumTo(DNS_MAX_RETRIES - 1) - SumTo(e.retries))
           + (DNS_MAX_SERVERS - 1 - e.numdns) * (1 + SumTo(DNS_MAX_RETRIES - 1))

StillAsking(e, f) == f.state = "asking" /\ f.seqno = e.seqno /\ f.name = e.name

IsAsked(d, name) == \E i \in Entries : d.table[i].state = "asking" /\ d.table[i].name = name

(* The callback for an error asked when no entry was unused, and the answer   *)
(* with the error flushed an entry.                                           *)
FlushedAtOnce ==
  /\ NoTick
  /\ \E i \in Entries : dns.table[i].state = "asking" /\ dns'.table[i].state = "unused"
  /\ \A i \in Entries : dns.table[i].state # "unused"

(* A request ends with its callback and not without, and if no answer comes   *)
(* it ends in time: no retry, other server, other request or late answer      *)
(* makes its wait longer.  And where ERR_INPROGRESS was returned there is a   *)
(* request, but for the case of an error callback with a full table.          *)
RequestsEnd ==
  [][/\ \A i \in Entries :
          LET e == dns.table[i]
              f == dns'.table[i]
              looked == entry = i /\ entry' = i + 1
          IN  e.state = "asking" =>
                \/ StillAsking(e, f) /\ Left(f) = Left(e) - (IF looked THEN 1 ELSE 0)
                \/ /\ ~StillAsking(e, f)
                   /\ \E t \in dns'.told : t.name = e.name
                   /\ looked => Left(e) = 1
     /\ \A name \in dns'.begun : IsAsked(dns', name) \/ FlushedAtOnce]_dnsVars

(* Not so: the callback of a request is called "on success, failure or        *)
(* timeout" (dns_gethostbyname), for which it has to be in the table first.   *)
CallbackComes == \A name \in dns.begun : IsAsked(dns, name)
=============================================================================
