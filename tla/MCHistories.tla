------------------------------ MODULE MCHistories ------------------------------
(***************************************************************************)
(* Instances of the histories of the three providers and of the report     *)
(* with addresses.  A behaviour is one request of a history, which pedido  *)
(* names, or the requests for reports ("contestacao"): they share no       *)
(* state, and nothing is lost by not interleaving them.                    *)
(***************************************************************************)
EXTENDS Integers, TLC

CONSTANTS
  MaxPontos, MaxRota, MaxTrajetos, Gaps, Midnight,
  MaxPosicoes, MaxRegistros, Meianoite,
  DiasSoftruck, Concorrencia, MaxFeatures,
  Callers, Coords, Conhecidas, Cidades, Lote, PontosContestacao, MaxFalhas,
  c1, c2, k1, k2, rio

\* The points of M7 come one after the other, and in a period they do not cover the
\* 2000 km above which the odometer is not believed; a period of Softruck has a day.
ASSUME HistoriesAssumption ==
  /\ Gaps \subseteq Nat \ {0} /\ Midnight \in Nat
  /\ MaxPontos \in Nat /\ 21 * MaxPontos <= 200000
  /\ Meianoite \in Nat \ {0}
  /\ DiasSoftruck \in Nat \ {0}

VARIABLES pedido, entrada, estado, resposta, cache, inFlight, falhou, relatorio, chamada

M7       == INSTANCE M7History
Logica   == INSTANCE LogicaHistory
Softruck == INSTANCE SoftruckHistory WITH Dias <- DiasSoftruck
Geocode  == INSTANCE ReverseGeocode WITH MaxPontos <- PontosContestacao

historyVars == <<pedido, entrada, estado, resposta>>
geocodeVars == <<cache, inFlight, falhou, relatorio, chamada>>
MCvars      == <<pedido, entrada, estado, resposta,
                 cache, inFlight, falhou, relatorio, chamada>>

MCInit ==
  /\ Geocode!Init
  /\ \/ M7!Init
     \/ Logica!Init
     \/ Softruck!Init
     \/ pedido = "contestacao" /\ entrada = <<>> /\ estado = "aberto" /\ resposta = <<>>

OfHistory == pedido # "contestacao" /\ UNCHANGED geocodeVars
OfReport  == pedido = "contestacao" /\ UNCHANGED historyVars

MCNext ==
  \/ OfHistory /\ \E g \in Gaps, i, m, o \in BOOLEAN : M7!Ponto(g, i, m, o)
  \/ OfHistory /\ \E g \in {3, 6}, d \in {0, 1} : M7!PontoDaRota(g, d)
  \/ OfHistory /\ \E t \in {"VIAGEM", "PARADO"}, m \in {40, 41}, d \in {0, 7}, e \in BOOLEAN :
       M7!Trajeto(t, m, d, e)
  \/ OfHistory /\ \E b \in BOOLEAN : M7!Answer(b)
  \/ OfHistory /\ M7!AnswerError
  \/ OfHistory /\ \E v \in {0, 30}, d \in {-1, 0, 1} : Logica!Posicao(v, d, TRUE)
  \/ OfHistory /\ Logica!Posicao(0, 1, FALSE)
  \/ OfHistory /\ \E p \in BOOLEAN, ts \in {Logica!None, 1, 2}, pos \in {0, 1},
        ig \in {"", "LIGADA", "DESLIGADA"} : Logica!Registro(p, ts, pos, ig)
  \/ OfHistory /\ \E b \in BOOLEAN, ps \in {{}, {1}} : Logica!Answer(b, ps)
  \/ OfHistory /\ \E ps \in {{}, {1}} : Logica!AnswerFallback(ps)
  \/ OfHistory /\ Logica!AnswerPdf
  \/ OfHistory /\ Logica!AnswerError
  \/ OfHistory /\ \E d \in 1..DiasSoftruck : \E a \in Softruck!Answers(d) :
       Softruck!ByKeys(d, a)
  \/ OfHistory /\ \E d \in 1..DiasSoftruck, ok \in BOOLEAN : Softruck!Geom(d, ok)
  \/ OfHistory /\ Softruck!Answer
  \/ OfHistory /\ Softruck!AnswerError
  \/ OfHistory /\ \E p \in {-2, 1, 3, 6} : Softruck!Ponto(p)
  \/ OfHistory /\ \E g \in {150, 301}, tag \in {"panic", "sos", "accelerometer", "idle"} :
       Softruck!Alarme(g, 40, tag, "vibration", "")
  \/ OfHistory /\ \E b \in BOOLEAN : Softruck!AnswerGeom(b)
  \/ OfReport /\ \E c \in Callers, ps \in Geocode!Pontos, d \in {6, 7} : Geocode!Start(c, ps, d)
  \/ OfReport /\ \E c \in Callers : Geocode!Refuse(c)
  \/ OfReport /\ \E c \in Callers : \E i \in DOMAIN relatorio[c].pontos : Geocode!Call(c, i)
  \/ OfReport /\ \E c \in Callers, k \in Coords, ok \in BOOLEAN : Geocode!Ruas(c, k, ok)
  \/ OfReport /\ \E c \in Callers, k \in Coords, n \in BOOLEAN : Geocode!Numero(c, k, n)
  \/ OfReport /\ \E c \in Callers, k \in Coords : Geocode!Receive(c, k)
  \/ OfReport /\ \E c \in Callers : Geocode!Respond(c)

MCSpec == MCInit /\ [][MCNext]_MCvars

\* M7History: the trips of the second PDF are what the vehicle drove.
TripsAreDrives == M7!TripsAreDrives

\* LogicaHistory: the trips are the drives, none lost and none made up.
DrivesAreTrips == Logica!DrivesAreTrips

\* LogicaHistory: the points drawn of a trip make up its distance, on its day.
MapTellsTheTrip == Logica!MapTellsTheTrip

\* LogicaHistory: the timeline of the PDF is in order and carries the ignition on.
TimelineCarriesIgnition == Logica!TimelineCarriesIgnition

\* SoftruckHistory and M7History: the summary, the map and the PDF of a period tell
\* the same trips.
ViewsTellTheSameTrips == Softruck!ViewsTellTheSameTrips /\ M7!SummaryWithinPdf

\* SoftruckHistory: alarms are told once and none is lost.
AlarmsAreToldOnce == Softruck!AlarmsAreToldOnce

\* M7History and SoftruckHistory: the route drawn keeps by the points of the vehicle.
RoutesKeepTheTrack == M7!RouteKeepsTrack /\ Softruck!RouteStaysByTheTrack

\* ReverseGeocode: every point of the report has an address of its own coordinate.
AddressIsOfThePoint == Geocode!AddressIsOfThePoint
=============================================================================
