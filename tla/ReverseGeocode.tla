---------------------------- MODULE ReverseGeocode ----------------------------
(***************************************************************************)
(* The contestation report of M7: every GPS point of the period with its   *)
(* address.  M7ReverseGeocodeService looks the addresses up in the local   *)
(* Nominatim tables, keeps what it found in a cache of the process, and    *)
(* lets a second call for a coordinate wait for the first, except when the *)
(* point names its city, which overrides the one of the tables.            *)
(***************************************************************************)
EXTENDS Naturals, Sequences, FiniteSets

CONSTANTS
  Callers,      \* bound: requests for a report
  Coords,       \* coordinates, as normalised to six decimals
  Conhecidas,   \* the coordinates for which the tables have a street or a suburb
  Cidades,      \* cities that M7 may name
  Lote,         \* M7_REV_GEOCODE_CONCURRENCY
  MaxPontos,    \* bound: points of a report
  MaxFalhas     \* bound: lookups that fail

VARIABLES
  cache,     \* reverseGeocodeCache
  inFlight,  \* reverseGeocodeInFlight: the request whose promise it holds
  falhou,    \* the coordinates of which a query failed (history)
  relatorio, \* of every request: its state and its points
  chamada    \* the lookup of a coordinate for a request

vars == <<cache, inFlight, falhou, relatorio, chamada>>

\* Nobody is no request; SemCidade is where M7 names none; Tabela is the city that
\* the tables tell.
Nobody == "nobody"
SemCidade == "sem cidade"
Tabela == "tabela"

\* An address: none yet, the coordinates themselves, or one with a city and perhaps
\* a house number.
Nada == [tipo |-> "nada", cidade |-> SemCidade, numero |-> FALSE]
Coordenadas == [tipo |-> "coordenadas", cidade |-> SemCidade, numero |-> FALSE]
Rua(cidade, numero) == [tipo |-> "rua", cidade |-> cidade, numero |-> numero]

Fora == [estado |-> "fora", cidade |-> SemCidade, de |-> Nobody, endereco |-> Nada]

Pontos == UNION {[1..n -> [key : Coords, cidade : Cidades \cup {SemCidade}]] : n \in 1..MaxPontos}

Init ==
  /\ cache = [k \in Coords |-> Nada]
  /\ inFlight = [k \in Coords |-> Nobody]
  /\ falhou = {}
  /\ relatorio = [c \in Callers |-> [estado |-> "novo", pontos |-> <<>>]]
  /\ chamada = [c \in Callers |-> [k \in Coords |-> Fora]]

\* montarPontosContestacao: a coordinate is looked up once, with the city of the
\* first point that has it.
Primeiros(ps) == {i \in DOMAIN ps : \A j \in 1..i - 1 : ps[j].key # ps[i].key}

-----------------------------------------------------------------------------
(* The report *)

\* gerarPdfContestacao: the period has at most six days, five between its ends, and
\* M7 knows the vehicle and gives its points.
Start(c, ps, dias) ==
  /\ relatorio[c].estado = "novo"
  /\ dias - 1 <= 5
  /\ relatorio' = [relatorio EXCEPT ![c] = [estado |-> "lote", pontos |-> ps]]
  /\ UNCHANGED <<cache, inFlight, falhou, chamada>>

\* A longer period, an unknown vehicle, M7 fails.
Refuse(c) ==
  /\ relatorio[c].estado = "novo"
  /\ relatorio' = [relatorio EXCEPT ![c].estado = "erro"]
  /\ UNCHANGED <<cache, inFlight, falhou, chamada>>

Feita(c, k) == chamada[c][k].estado = "pronta"

Respond(c) ==
  /\ relatorio[c].estado = "lote"
  /\ \A p \in {relatorio[c].pontos[i] : i \in DOMAIN relatorio[c].pontos} : Feita(c, p.key)
  /\ relatorio' = [relatorio EXCEPT ![c].estado = "respondido"]
  /\ UNCHANGED <<cache, inFlight, falhou, chamada>>

-----------------------------------------------------------------------------
(* reverseGeocodeCoordenada *)

\* reverseGeocodeEmLote: a lot starts when the one before it is done.
NoLote(c, i) ==
  LET is == Primeiros(relatorio[c].pontos)
      lote(j) == Cardinality({h \in is : h < j}) \div Lote
  IN  /\ i \in is
      /\ \A j \in is : lote(j) < lote(i) => Feita(c, relatorio[c].pontos[j].key)

\* Mutant: what is in the cache is taken for any point.
CallCached(c, i) ==
  LET p == relatorio[c].pontos[i]
      call(r) == chamada' = [chamada EXCEPT ![c][p.key] = r]
  IN
  /\ relatorio[c].estado = "lote" /\ NoLote(c, i)
  /\ chamada[c][p.key] = Fora
  /\ IF cache[p.key] # Nada
     THEN call([Fora EXCEPT !.estado = "pronta", !.endereco = cache[p.key], !.cidade = p.cidade])
          /\ UNCHANGED inFlight
     ELSE call([Fora EXCEPT !.estado = "ruas", !.cidade = p.cidade])
          /\ inFlight' = [inFlight EXCEPT ![p.key] = c]
  /\ UNCHANGED <<cache, falhou, relatorio>>

\* A point without a city takes the cache, or waits for a call under way; one with a
\* city is looked up, and later calls wait for it.
Call(c, i) ==
  LET p == relatorio[c].pontos[i]
      call(r) == chamada' = [chamada EXCEPT ![c][p.key] = r]
  IN
  /\ relatorio[c].estado = "lote" /\ NoLote(c, i)
  /\ chamada[c][p.key] = Fora
  /\ \/ /\ p.cidade = SemCidade /\ cache[p.key] # Nada
        /\ call([Fora EXCEPT !.estado = "pronta", !.endereco = cache[p.key]])
        /\ UNCHANGED inFlight
     \/ /\ p.cidade = SemCidade /\ cache[p.key] = Nada /\ inFlight[p.key] # Nobody
        /\ call([Fora EXCEPT !.estado = "espera", !.de = inFlight[p.key]])
        /\ UNCHANGED inFlight
     \/ /\ p.cidade = SemCidade => cache[p.key] = Nada /\ inFlight[p.key] = Nobody
        /\ call([Fora EXCEPT !.estado = "ruas", !.cidade = p.cidade])
        /\ inFlight' = [inFlight EXCEPT ![p.key] = c]
  /\ UNCHANGED <<cache, falhou, relatorio>>

\* What the call found goes to the cache, and the entry in flight is deleted, be it
\* this call's or a later one's.
Resolve(c, k, endereco) ==
  /\ cache' = [cache EXCEPT ![k] = endereco]
  /\ inFlight' = [inFlight EXCEPT ![k] = Nobody]
  /\ chamada' = [chamada EXCEPT ![c][k] = [@ EXCEPT !.estado = "pronta", !.endereco = endereco]]

\* Street, suburb and city, by three queries; one that fails reads like no row.
\* Without a street and a suburb the coordinates are the address.
Ruas(c, k, ok) ==
  /\ chamada[c][k].estado = "ruas"
  /\ ok \/ Cardinality(falhou) < MaxFalhas
  /\ falhou' = IF ok THEN falhou ELSE falhou \cup {k}
  /\ IF ok /\ k \in Conhecidas
     THEN /\ chamada' = [chamada EXCEPT ![c][k].estado = "numero"]
          /\ UNCHANGED <<cache, inFlight>>
     ELSE Resolve(c, k, Coordenadas)
  /\ UNCHANGED relatorio

\* The house number is left out where the query fails or finds none.
Numero(c, k, numero) ==
  /\ chamada[c][k].estado = "numero"
  /\ LET cidade == chamada[c][k].cidade
     IN Resolve(c, k, Rua(IF cidade = SemCidade THEN Tabela ELSE cidade, numero))
  /\ UNCHANGED <<falhou, relatorio>>

\* The call waited for gives its address.
Receive(c, k) ==
  /\ chamada[c][k].estado = "espera"
  /\ Feita(chamada[c][k].de, k)
  /\ LET endereco == chamada[chamada[c][k].de][k].endereco
     IN chamada' = [chamada EXCEPT ![c][k] = [@ EXCEPT !.estado = "pronta", !.endereco = endereco]]
  /\ UNCHANGED <<cache, inFlight, falhou, relatorio>>

Next ==
  \/ \E c \in Callers, ps \in Pontos, d \in {6, 7} : Start(c, ps, d)
  \/ \E c \in Callers : Refuse(c)
  \/ \E c \in Callers : \E i \in DOMAIN relatorio[c].pontos : Call(c, i)
  \/ \E c \in Callers, k \in Coords, ok \in BOOLEAN : Ruas(c, k, ok)
  \/ \E c \in Callers, k \in Coords, n \in BOOLEAN : Numero(c, k, n)
  \/ \E c \in Callers, k \in Coords : Receive(c, k)
  \/ \E c \in Callers : Respond(c)

Spec == Init /\ [][Next]_vars

-----------------------------------------------------------------------------
(* Properties *)

\* The report tells every point an address of its own coordinate: in the city that
\* M7 named for it; and coordinates instead of a street only where the tables know
\* none or a query for that coordinate failed, for whatever request it was.
AddressIsOfThePoint ==
  \A c \in Callers :
    relatorio[c].estado = "respondido" =>
      \A i \in Primeiros(relatorio[c].pontos) :
        LET p == relatorio[c].pontos[i]
            e == chamada[c][p.key].endereco
        IN  /\ e.tipo = "rua" => p.cidade \in {e.cidade, SemCidade}
            /\ e.tipo = "coordenadas" => p.key \notin Conhecidas \ falhou
            /\ e # Nada

-----------------------------------------------------------------------------
(* The inductive invariant behind it.                                      *)

Enderecos == [tipo : {"nada", "coordenadas", "rua"},
              cidade : Cidades \cup {SemCidade, Tabela}, numero : BOOLEAN]
Chamadas  == [estado : {"fora", "ruas", "numero", "espera", "pronta"},
              cidade : Cidades \cup {SemCidade},
              de : Callers \cup {Nobody}, endereco : Enderecos]
Relatorios == [estado : {"novo", "lote", "erro", "respondido"}, pontos : Pontos \cup {<<>>}]

TypeOK ==
  /\ cache \in [Coords -> Enderecos]
  /\ inFlight \in [Coords -> Callers \cup {Nobody}]
  /\ falhou \in SUBSET Coords
  /\ relatorio \in [Callers -> Relatorios]
  /\ chamada \in [Callers -> [Coords -> Chamadas]]

\* Coordinates stand for an address only where there is none to be had.
Justo(k, endereco) == endereco.tipo = "coordenadas" => k \notin Conhecidas \ falhou

CacheOK == \A k \in Coords : Justo(k, cache[k])

\* A lookup is that of the first point of its report that has the coordinate, with the
\* city of this point; one that waits has none, and waits for a request.
ChamadaOK(c, k, chamado) ==
  /\ chamado # Fora =>
       \E i \in Primeiros(relatorio[c].pontos) :
         /\ relatorio[c].pontos[i].key = k
         /\ relatorio[c].pontos[i].cidade = chamado.cidade
  /\ chamado.estado = "espera" => chamado.de \in Callers /\ chamado.cidade = SemCidade
  /\ chamado.estado = "pronta" =>
       /\ chamado.endereco # Nada
       /\ Justo(k, chamado.endereco)
       /\ chamado.endereco.tipo = "rua"
            => chamado.cidade \in {chamado.endereco.cidade, SemCidade}

ChamadasOK == \A c \in Callers, k \in Coords : ChamadaOK(c, k, chamada[c][k])

RelatoriosOK ==
  \A c \in Callers :
    /\ relatorio[c].estado = "novo" => relatorio[c].pontos = <<>>
    /\ relatorio[c].estado = "respondido" =>
         \A i \in DOMAIN relatorio[c].pontos : Feita(c, relatorio[c].pontos[i].key)

Inductive == TypeOK /\ CacheOK /\ ChamadasOK /\ RelatoriosOK
====
