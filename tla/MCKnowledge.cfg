\* Two transactions at a time, of two statements each.
CONSTANTS
  cand = cand  rel = rel  astray = astray
  v1 = v1  v2 = v2  v3 = v3  rival = rival
  here = here  also = also  foreign = foreign
  mine = mine  other = other
  Txns = {t1, t2}
  Drafts = {cand, rel, astray}
  Published = {v1, v2, v3, rival}
  Parts = {here, also, foreign}
  Project <- MCProject
  Ends <- MCEnds
  Misplaced = {astray}
  Edition <- MCEdition
  InitialOwners = {cand, v1, v2}
  InitialCites <- MCCites
  TxnBound = 2
  StatementBound = 2
SPECIFICATION Spec
INVARIANTS EveryOwnerCited EvidenceStaysHome NothingDangles HistoryIsAChain OwnWorkNeverWaits
CHECK_DEADLOCK FALSE
