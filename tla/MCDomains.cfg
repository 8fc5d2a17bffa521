\* The installation with one player: danne, who is not listed, and ann are
\* promoted, drafted, expelled, ...; Standard can be removed and made again.
SPECIFICATION Spec
CONSTANTS
  Players = {"ann"}
  NewDomains = {}
  Handled = {"danne", "ann"}
  Asked = {"Standard"}
  Limits = {2}
  DOMAIN_MAX = 2
  Titles <- MCTitles
INVARIANTS TypeOK MembersAgree NoCrowding ApplicantsAreFree
PROPERTIES OfficesDriftByDraft
\* when no arch is left and nobody may do anything, the tables stay as they are
CHECK_DEADLOCK FALSE
