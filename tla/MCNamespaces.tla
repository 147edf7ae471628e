---------------------------- MODULE MCNamespaces ----------------------------
(* Two DIMMs in one interleave set and one alone, pages of two units and
   lines of three: blocks of two units take three, storage is aligned to six
   and app direct to two and four. *)
EXTENDS Namespaces, TLC

CONSTANTS c1, c2

MCClients == {c1, c2}
MCDimms == {1, 2, 3}
MCSets == {1, 2}
MCDimmsOf == 1 :> {1, 2} @@ 2 :> {3}
MCSetSize == 1 :> 12 @@ 2 :> 6
MCStorageSize == [d \in MCDimms |-> IF d = 1 THEN 12 ELSE 6]
MCEncrypted == {3}
MCEraseCapable == {1, 2, 3}

Ns(type, place, count, name) == [type |-> type, place |-> place, count |-> count, name |-> name, on |-> TRUE]
Upto4(s) == [i \in 1..4 |-> IF i <= Len(s) THEN s[i] ELSE NoNs]
MCStarts == {Upto4(s) : s \in {
  <<>>,
  <<Ns("app direct", 1, 8, 2)>>,
  <<Ns("app direct", 1, 4, 1), Ns("app direct", 2, 4, 3)>>,
  <<Ns("app direct", 2, 4, 1), Ns("storage", 3, 2, 2)>>}}

Creation(by, type, count, secure, prompt, rename) ==
  [NoAsk EXCEPT !.by = by, !.type = type, !.count = count, !.given = count # 0, !.encryption = secure,
                !.erase = secure, !.prompt = prompt, !.rename = rename]
MCCreates ==
  {Creation(by, type, count, FALSE, FALSE, FALSE) : by \in {"cli", "cim"}, type \in {"app direct", "storage"}, count \in {4, 5}}
    \cup {Creation("cli", type, 1, FALSE, FALSE, FALSE) : type \in {"app direct", "storage"}}
    \cup {Creation("cli", "app direct", 0, FALSE, TRUE, FALSE), Creation("cli", "storage", 0, FALSE, TRUE, TRUE),
          Creation("cli", "app direct", 4, TRUE, TRUE, FALSE), Creation("cim", "storage", 2, TRUE, FALSE, TRUE)}

Change(by, count, rename, on, prompt) ==
  [NoAsk EXCEPT !.by = by, !.count = count, !.given = count # 0, !.rename = rename, !.on = on, !.prompt = prompt]
MCChanges ==
  {Change("cli", 2, TRUE, "keep", FALSE), Change("cli", 5, TRUE, "off", FALSE)}
    \cup {Change("cli", 5, FALSE, "keep", TRUE), Change("cim", 6, TRUE, "keep", FALSE), Change("cim", 2, FALSE, "keep", FALSE)}

Anyone == Permutations(MCClients)
=============================================================================
