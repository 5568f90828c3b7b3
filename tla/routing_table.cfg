SPECIFICATION Spec
CONSTANTS
    Bits = 5
    Self <- MCSelf
    Contact <- MCContact
    KValue = 3
    MaxEntries = 2
INVARIANT TypeOK
INVARIANT MostRecentStay
INVARIANT SearchesFillUp
INVARIANT SelfSearchIsExact
INVARIANT StoresWhatItShould
