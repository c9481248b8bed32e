----------------------------- MODULE PhysPages ------------------------------
(***************************************************************************)
(* Physical pages: the free lists and the colour tables of page_alloc.c,   *)
(* the anonymous pages and page fetches of phys_mem.c, and the page cache  *)
(* of page_cache.c (src/mem/phys_mem), as the page faults of several       *)
(* processors use them.                                                    *)
(*                                                                         *)
(* There are three mutexes.  The one of phys_mem.c (owner) is held while a *)
(* page is created or fetched, so a section under it is one step except    *)
(* for the search of the free lists, during which freed pages come in: a   *)
(* page is freed under the mutex of page_alloc.c alone, one step for each  *)
(* section.  The page cache is used under owner only.                      *)
(*                                                                         *)
(* A page is its entry in the inverted page table, its address its number  *)
(* less one.  A chain of a hash table is a sequence, the newest entry      *)
(* first.  Pages are present: there is no swap in the repository.  What is *)
(* in a page is left out.  An allocation that finds no page returns 0,     *)
(* which the callers take for the page at address 0; no call begins after  *)
(* that, and the model ends there.                                         *)
(***************************************************************************)
EXTENDS Integers, Sequences, FiniteSets, SequencesExt, CircularList

CONSTANTS
    Pool,               \* the pages that are handed to phys_page_insert
    NumColors,          \* num_page_colors
    Id,                 \* what rand() may return
    InodePage,          \* pages of files
    Proc,               \* processors
    Nobody,
    MaxCount            \* bound: calls begin while no colour has a greater count

ASSUME PoolAssumption == Pool \subseteq Nat \ {0, 1} /\ IsFiniteSet(Pool)
ASSUME ColorAssumption == NumColors \in Nat \ {0} /\ MaxCount \in Nat
ASSUME InodeAssumption == InodePage # {}
ASSUME NobodyAssumption == Nobody \notin Proc

PageZero == 1
Page == Pool \cup {PageZero}
Color == 0 .. NumColors - 1
page_color(n) == (n - 1) % NumColors
Table == {"spc", "obj"} \* the colour tables of an address space and an object

VARIABLES
    boot,               \* pages still to be inserted
    links, free_pages, page_count,
    ct,                 \* the colour tables: ordered list, index in it, count
    owner,              \* who holds the mutex of phys_mem.c
    anon,               \* the chain of anonymous pages
    cached,             \* the chain of the page cache
    inode_page,         \* what a page of the cache is a copy of
    given,              \* how many callers have been given an id
    copies, copied,     \* pages and ids of copies, which no table has
    short,              \* whether an allocation has failed
    pc, arg,            \* the call of each processor
    at,                 \* i of phys_page_alloc
    hand,               \* the page it has
    stocked             \* whether there was a free page when its search began

lists == <<links, free_pages, page_count>>
tables == <<anon, cached, inode_page>>
ghosts == <<given, copies, copied, short>>
local == <<arg, at, hand, stocked>>
vars == <<boot, lists, ct, owner, tables, ghosts, pc, local>>

Init ==
    /\ boot = Pool
    /\ links = [next |-> [n \in Page |-> NoNode], last |-> [n \in Page |-> NoNode]]
    /\ free_pages = [c \in Color |-> NoNode]
    /\ page_count = [c \in Color |-> 0]
    /\ ct = [t \in Table |-> [list |-> [i \in 1 .. NumColors |-> i - 1],
                              index |-> [c \in Color |-> c + 1],
                              count |-> [c \in Color |-> 0]]]
    /\ owner = Nobody
    /\ anon = <<>> /\ cached = <<>>
    /\ inode_page = [n \in Page |-> CHOOSE k \in InodePage : TRUE]
    /\ given = [id \in Id |-> 0] /\ copies = {} /\ copied = {} /\ short = FALSE
    /\ pc = [p \in Proc |-> "idle"]
    /\ arg = [p \in Proc |-> [op |-> "none"]]
    /\ at = [p \in Proc |-> 1]
    /\ hand = [p \in Proc |-> NoNode]
    /\ stocked = [p \in Proc |-> FALSE]

Goto(p, there) == pc' = [pc EXCEPT ![p] = there]

-----------------------------------------------------------------------------
(* change_color_count for num = 1.  The colour sinks from its place as     *)
(* long as a colour below it has a smaller count.                          *)
SmallerChild_bug(t, i) == 2 * i

SmallerChild(t, i) ==
    IF 2 * i < NumColors /\ t.count[t.list[2 * i + 1]] < t.count[t.list[2 * i]]
      THEN 2 * i + 1 ELSE 2 * i

Sinks(t, c, i) ==
    2 * i <= NumColors /\ t.count[t.list[SmallerChild(t, i)]] < t.count[c]

change_color_count(tab, c) ==
    LET t == [tab EXCEPT !.count[c] = @ + 1]
        way[i \in 1 .. NumColors] ==
          {i} \cup (IF Sinks(t, c, i) THEN way[SmallerChild(t, i)] ELSE {})
        hole == way[t.index[c]]
        list == [i \in 1 .. NumColors |->
                   IF i \notin hole THEN t.list[i]
                   ELSE IF Sinks(t, c, i) THEN t.list[SmallerChild(t, i)] ELSE c]
    IN  [t EXCEPT !.list = list,
                  !.index = [d \in Color |->
                     IF \E i \in hole : list[i] = d THEN CHOOSE i \in hole : list[i] = d
                                                    ELSE t.index[d]]]

Count(tabs, c) == ct' = [t \in Table |-> IF t \in tabs THEN change_color_count(ct[t], c) ELSE ct[t]]

-----------------------------------------------------------------------------
(* phys_page_insert, one round.                                            *)
phys_page_insert(n) ==
    LET c == page_color(n)
    IN  /\ links' = ClistInsert(links, free_pages[c], n)
        /\ free_pages' = [free_pages EXCEPT ![c] = n]
        /\ page_count' = [page_count EXCEPT ![c] = @ + 1]

(* The section of phys_page_alloc and kern_page_alloc that takes a page.   *)
TakePage_bug(p, c) ==       \* the count is left as it is
    /\ page_count[c] # 0
    /\ LET rest == ClistDelete(links, free_pages[c])
       IN  links' = rest.links /\ free_pages' = [free_pages EXCEPT ![c] = rest.list]
    /\ UNCHANGED page_count
    /\ hand' = [hand EXCEPT ![p] = free_pages[c]]
    /\ Goto(p, "got")

TakePage(p, c) ==
    /\ page_count[c] # 0
    /\ page_count' = [page_count EXCEPT ![c] = @ - 1]
    /\ LET rest == ClistDelete(links, free_pages[c])
       IN  links' = rest.links /\ free_pages' = [free_pages EXCEPT ![c] = rest.list]
    /\ hand' = [hand EXCEPT ![p] = free_pages[c]]
    /\ Goto(p, "got")

NoPage(p) ==
    /\ hand' = [hand EXCEPT ![p] = PageZero]
    /\ short' = TRUE
    /\ Goto(p, "got")
    /\ UNCHANGED lists

(* phys_page_alloc: "If the vm object is shared, then the object's table   *)
(* is used to decide on the color.  Otherwise the address space's is used."*)
phys_page_alloc(p) ==
    LET c == ct[IF arg[p].shared THEN "obj" ELSE "spc"].list[at[p]]
    IN  /\ pc[p] = "scan"
        /\ \/ at[p] > NumColors /\ NoPage(p) /\ UNCHANGED at
           \/ /\ at[p] <= NumColors
              /\ \/ TakePage(p, c) /\ UNCHANGED <<at, short>>
                 \/ /\ page_count[c] = 0
                    /\ at' = [at EXCEPT ![p] = @ + 1]
                    /\ UNCHANGED <<lists, hand, pc, short>>
        /\ UNCHANGED <<boot, ct, owner, tables, given, copies, copied, arg, stocked>>

kern_page_alloc(p) ==
    LET c == ct["obj"].list[1]
    IN  /\ pc[p] = "kern"
        /\ \/ TakePage(p, c) /\ UNCHANGED short
           \/ page_count[c] = 0 /\ NoPage(p)
        /\ UNCHANGED <<boot, ct, owner, tables, given, copies, copied, arg, at, stocked>>

Search_bug(p) ==            \* the loop starts at the second colour
    /\ at' = [at EXCEPT ![p] = 2]
    /\ stocked' = [stocked EXCEPT ![p] = \E c \in Color : page_count[c] # 0]
    /\ Goto(p, "scan")

Search(p) ==
    /\ at' = [at EXCEPT ![p] = 1]
    /\ stocked' = [stocked EXCEPT ![p] = \E c \in Color : page_count[c] # 0]
    /\ Goto(p, "scan")

-----------------------------------------------------------------------------
(* The calls, up to mutex_lock.  A caller uses ids that it was given.  A   *)
(* page created from a page of a file (PSRC_INODE) differs from a new one  *)
(* (PSRC_NULL) in what is written to it.                                   *)
Open == boot = {} /\ ~short /\ \A t \in Table, c \in Color : ct[t].count[c] <= MaxCount

Begin(p, there, a) ==
    /\ Open /\ pc[p] = "idle"
    /\ Goto(p, there)
    /\ arg' = [arg EXCEPT ![p] = a]
    /\ UNCHANGED <<boot, lists, ct, owner, tables, copies, copied, short, at, hand, stocked>>

anon_page_create(p, type, shared, id) ==
    /\ Begin(p, "create", [op |-> type, shared |-> shared, id |-> id])
    /\ UNCHANGED given

fetch_inode_page(p, k, shared) ==
    Begin(p, "fetch", [op |-> "PSRC_INODE", key |-> k, shared |-> shared]) /\ UNCHANGED given

fetch_anon_page(p, id) ==
    /\ given[id] > 0
    /\ Begin(p, "fetch", [op |-> "PSRC_ANON", id |-> id])
    /\ UNCHANGED given

anon_page_free(p, id) ==
    /\ given[id] > 0
    /\ Begin(p, "free", [op |-> "free", id |-> id])
    /\ given' = [given EXCEPT ![id] = @ - 1]

-----------------------------------------------------------------------------
mutex_lock(p) == owner = Nobody /\ owner' = p

Return(p) ==
    /\ Goto(p, "idle")
    /\ arg' = [arg EXCEPT ![p] = [op |-> "none"]]
    /\ at' = [at EXCEPT ![p] = 1]
    /\ hand' = [hand EXCEPT ![p] = NoNode]
    /\ stocked' = [stocked EXCEPT ![p] = FALSE]

(* The hash tables: an entry goes to the front of its chain, and the first *)
(* that has the key is found.                                              *)
hash_table_insert(chain, entry) == <<entry>> \o chain

hash_table_delete(chain, i) == RemoveAt(chain, i)

Entries(id) == {i \in DOMAIN anon : anon[i].id = id}

anon_page_lookup(id) == CHOOSE i \in Entries(id) : \A j \in Entries(id) : i <= j

page_cache_lookup(k) == \E n \in ToSet(cached) : inode_page[n] = k

page_cache_insert(n, k) ==
    /\ inode_page' = [inode_page EXCEPT ![n] = k]
    /\ cached' = hash_table_insert(cached, n)

(* anon_page_create: "we want a unique identifier".                        *)
AnotherId(p) ==
    /\ pc[p] = "create" /\ owner = Nobody
    /\ Entries(arg[p].id) # {}
    /\ \E id \in Id : arg' = [arg EXCEPT ![p].id = id]
    /\ UNCHANGED <<boot, lists, ct, owner, tables, ghosts, pc, at, hand, stocked>>

CreateLock_bug(p) ==        \* the id is taken as it comes
    /\ pc[p] = "create"
    /\ mutex_lock(p)
    /\ IF arg[p].op = "PSRC_KERN" THEN Goto(p, "kern") /\ UNCHANGED <<at, stocked>> ELSE Search(p)
    /\ UNCHANGED <<boot, lists, ct, tables, ghosts, arg, hand>>

CreateLock(p) ==
    /\ pc[p] = "create"
    /\ mutex_lock(p)
    /\ Entries(arg[p].id) = {}
    /\ IF arg[p].op = "PSRC_KERN" THEN Goto(p, "kern") /\ UNCHANGED <<at, stocked>> ELSE Search(p)
    /\ UNCHANGED <<boot, lists, ct, tables, ghosts, arg, hand>>

(* The rest of anon_page_create.  get_anon_page counts the page in the     *)
(* object's table only, and kern_page_alloc one that it found.  The entry  *)
(* of a copy (PSRC_ANON) is not put into the table.                        *)
CreateEnd_bug(p) ==         \* the count of the colour goes down
    LET n == hand[p]
    IN  /\ pc[p] = "got" /\ "id" \in DOMAIN arg[p]
        /\ ct' = [ct EXCEPT !["obj"].count[page_color(n)] = @ - 1]
        /\ anon' = hash_table_insert(anon, [id |-> arg[p].id, page |-> n])
        /\ given' = [given EXCEPT ![arg[p].id] = @ + 1]
        /\ owner' = Nobody
        /\ Return(p)
        /\ UNCHANGED <<boot, lists, cached, inode_page, short, copies, copied>>

CreateEnd(p) ==
    LET n == hand[p]
    IN  /\ pc[p] = "got" /\ "id" \in DOMAIN arg[p]
        /\ IF arg[p].op = "PSRC_KERN" /\ n = PageZero THEN UNCHANGED ct
                                                      ELSE Count({"obj"}, page_color(n))
        /\ IF arg[p].op = "PSRC_ANON"
             THEN /\ copies' = copies \cup {n} /\ copied' = copied \cup {arg[p].id}
                  /\ UNCHANGED anon
             ELSE /\ anon' = hash_table_insert(anon, [id |-> arg[p].id, page |-> n])
                  /\ UNCHANGED <<copies, copied>>
        /\ given' = [given EXCEPT ![arg[p].id] = @ + 1]
        /\ owner' = Nobody
        /\ Return(p)
        /\ UNCHANGED <<boot, lists, cached, inode_page, short>>

(* phys_page_fetch of a page of a file that is in the cache; of one that   *)
(* is not, which is read while the mutex is held; of an anonymous page.    *)
FetchHit(p) ==
    /\ pc[p] = "fetch" /\ owner = Nobody
    /\ arg[p].op = "PSRC_INODE"
    /\ \E n \in ToSet(cached) : inode_page[n] = arg[p].key /\ Count({"spc"}, page_color(n))
    /\ Return(p)
    /\ UNCHANGED <<boot, lists, owner, tables, ghosts>>

FetchMiss_bug(p) ==         \* the page is read without the mutex
    /\ pc[p] = "fetch" /\ owner = Nobody
    /\ arg[p].op = "PSRC_INODE"
    /\ ~page_cache_lookup(arg[p].key)
    /\ Search(p)
    /\ UNCHANGED <<boot, lists, ct, owner, tables, ghosts, arg, hand>>

FetchMiss(p) ==
    /\ pc[p] = "fetch" /\ mutex_lock(p)
    /\ arg[p].op = "PSRC_INODE"
    /\ ~page_cache_lookup(arg[p].key)
    /\ Search(p)
    /\ UNCHANGED <<boot, lists, ct, tables, ghosts, arg, hand>>

FetchEnd(p) ==
    LET n == hand[p]
    IN  /\ pc[p] = "got" /\ "key" \in DOMAIN arg[p]
        /\ Count({"spc", "obj"}, page_color(n))
        /\ page_cache_insert(n, arg[p].key)
        /\ owner' = Nobody
        /\ Return(p)
        /\ UNCHANGED <<boot, lists, anon, ghosts>>

FetchAnon(p) ==             \* what is returned for an unknown id is undefined
    /\ pc[p] = "fetch" /\ owner = Nobody
    /\ arg[p].op = "PSRC_ANON"
    /\ IF Entries(arg[p].id) = {} THEN UNCHANGED ct
       ELSE Count({"spc"}, page_color(anon[anon_page_lookup(arg[p].id)].page))
    /\ Return(p)
    /\ UNCHANGED <<boot, lists, owner, tables, ghosts>>

(* anon_page_free: the entry is deleted under the mutex and the page put   *)
(* back without it.  For an id that is not in the table the function       *)
(* returns with the mutex held.                                            *)
FreeEntry_bug(p) ==         \* the entry is looked up and stays
    /\ pc[p] = "free" /\ owner = Nobody
    /\ Entries(arg[p].id) # {}
    /\ hand' = [hand EXCEPT ![p] = anon[anon_page_lookup(arg[p].id)].page]
    /\ Goto(p, "insert")
    /\ UNCHANGED <<boot, lists, ct, owner, tables, ghosts, arg, at, stocked>>

FreeEntry(p) ==
    /\ pc[p] = "free" /\ owner = Nobody
    /\ Entries(arg[p].id) # {}
    /\ LET i == anon_page_lookup(arg[p].id)
       IN  /\ hand' = [hand EXCEPT ![p] = anon[i].page]
           /\ anon' = hash_table_delete(anon, i)
    /\ Goto(p, "insert")
    /\ UNCHANGED <<boot, lists, ct, owner, cached, inode_page, ghosts, arg, at, stocked>>

FreeUnknown(p) ==
    /\ pc[p] = "free" /\ mutex_lock(p)
    /\ Entries(arg[p].id) = {}
    /\ Return(p)
    /\ UNCHANGED <<boot, lists, ct, tables, ghosts>>

FreePage(p) ==
    /\ pc[p] = "insert"
    /\ phys_page_insert(hand[p])
    /\ Return(p)
    /\ UNCHANGED <<boot, ct, owner, tables, ghosts>>

Boot ==
    /\ \E n \in boot :
         /\ \A m \in boot : n <= m
         /\ phys_page_insert(n)
         /\ boot' = boot \ {n}
    /\ UNCHANGED <<ct, owner, tables, ghosts, pc, local>>

-----------------------------------------------------------------------------
Call(p) ==
    \/ \E shared \in BOOLEAN :
         \/ \E id \in Id : anon_page_create(p, "PSRC_NULL", shared, id)
         \/ \E id, source \in Id :
              given[source] > 0 /\ anon_page_create(p, "PSRC_ANON", shared, id)
         \/ \E k \in InodePage : fetch_inode_page(p, k, shared)
    \/ \E id \in Id : anon_page_create(p, "PSRC_KERN", FALSE, id)
    \/ \E id \in Id : fetch_anon_page(p, id) \/ anon_page_free(p, id)

Step(p) ==
    \/ AnotherId(p) \/ CreateLock(p) \/ CreateEnd(p)
    \/ FetchHit(p) \/ FetchMiss(p) \/ FetchEnd(p) \/ FetchAnon(p)
    \/ FreeEntry(p) \/ FreeUnknown(p) \/ FreePage(p)
    \/ phys_page_alloc(p) \/ kern_page_alloc(p)

Next == Boot \/ \E p \in Proc : Call(p) \/ Step(p)

Spec == Init /\ [][Next]_vars

-----------------------------------------------------------------------------
(* Types: counts do not run below zero, and no search past the colours.    *)
TypeOK ==
    /\ boot \subseteq Pool
    /\ links \in [next: [Page -> Page \cup {NoNode}], last: [Page -> Page \cup {NoNode}]]
    /\ free_pages \in [Color -> Page \cup {NoNode}]
    /\ page_count \in [Color -> Nat]
    /\ ct \in [Table -> [list: [1 .. NumColors -> Color], index: [Color -> 1 .. NumColors],
                         count: [Color -> Nat]]]
    /\ owner \in Proc \cup {Nobody}
    /\ anon \in Seq([id: Id, page: Page \cup {NoNode}])
    /\ cached \in Seq(Page \cup {NoNode})
    /\ inode_page \in [Page -> InodePage]
    /\ given \in [Id -> Nat] /\ short \in BOOLEAN
    /\ copies \subseteq Page \cup {NoNode} /\ copied \subseteq Id
    /\ pc \in [Proc -> {"idle", "create", "fetch", "free", "scan", "kern", "got", "insert"}]
    /\ at \in [Proc -> 1 .. NumColors + 1]
    /\ hand \in [Proc -> Page \cup {NoNode}]
    /\ stocked \in [Proc -> BOOLEAN]

(* The nodes of the circular list that n is in.                            *)
Ring(next, n) ==
    LET walk[k \in 0 .. Cardinality(Page)] ==
          IF k = 0 THEN {n} ELSE walk[k - 1] \cup {next[m] : m \in walk[k - 1]}
    IN  IF n = NoNode THEN {} ELSE walk[Cardinality(Page)]

FreeList(c) == Ring(links.next, free_pages[c])

FreePages == UNION {FreeList(c) : c \in Color}

(* The free lists and the counts agree, whichever pages come back while    *)
(* others are taken: the list of a colour is a ring of page_count pages of *)
(* that colour.  phys_page_alloc takes the head of a list for a page when  *)
(* the count says so.  Once an allocation has failed the page at address 0 *)
(* may be given back, by as many callers as took it.                       *)
PageListsSound ==
    ~short =>
      \A c \in Color :
        /\ Cardinality(FreeList(c)) = page_count[c]
        /\ \A n \in FreeList(c) :
             /\ page_color(n) = c
             /\ links.next[n] \in FreeList(c) /\ links.last[links.next[n]] = n

(* Where a page of the pool is.                                            *)
Places(n) ==
    Cardinality({x \in {"free"} : n \in FreePages})
      + Cardinality({x \in {"boot"} : n \in boot})
      + Cardinality({x \in {"copy"} : n \in copies})
      + Cardinality({i \in DOMAIN anon : anon[i].page = n})
      + Cardinality({i \in DOMAIN cached : cached[i] = n})
      + Cardinality({p \in Proc : hand[p] = n})

(* No page of the pool is ever used for two things, or lost, except that   *)
(* the page of a copy is nobody's: each page is free, an anonymous page,   *)
(* in the page cache, or in the hands of one call, until an allocation has *)
(* failed.                                                                 *)
PagesAccounted == ~short => \A n \in Pool : Places(n) = 1

(* Two faults on the same page of a file get the same physical page: the   *)
(* mutex is held from the look into the cache to the insertion, while the  *)
(* page is read.                                                           *)
OneCopyCached ==
    ~short => \A i, j \in DOMAIN cached : inode_page[cached[i]] = inode_page[cached[j]] => i = j

(* "we want a unique identifier": an id is given to one caller at a time,  *)
(* although the mutex is let go between the tries and an entry is freed in *)
(* two sections.  The only ids of which this is not true are those of      *)
(* copies: anon_page_create does not enter them in the table, and the next *)
(* caller whose rand() returns one is given it too.                        *)
IdsUnique == \A id \in Id \ copied : given[id] <= 1

(* The colour tables stay heaps: the list is an order of the colours, the  *)
(* index is its inverse, and no colour is above one that is used less, so  *)
(* that the search begins with a least used colour.                        *)
ColorHeap ==
    \A t \in Table :
      /\ \A c \in Color : ct[t].list[ct[t].index[c]] = c
      /\ \A i \in 2 .. NumColors : ct[t].count[ct[t].list[i \div 2]] <= ct[t].count[ct[t].list[i]]

(* "keep going until we have it!": phys_page_alloc lets go of its mutex    *)
(* between two colours, but a search has come to its end only if there was *)
(* no free page when it began; pages come in meanwhile, and nobody else    *)
(* takes one.                                                              *)
FailsOnlyWhenEmpty ==
    \A p \in Proc : pc[p] = "scan" /\ at[p] > NumColors => ~stocked[p]
=============================================================================
