CONSTANTS
  Rows <- OneColumnOff
  Drifts <- DriftsOfOneOrAll
SPECIFICATION Spec
INVARIANTS HeldIsServed NullsAreToldApart FirmsOutliveDrift
