SPECIFICATION LedgerSpec
CONSTANTS
 Books <- AllBooks
 BookType <- AllBookTypes
 BookCurrency <- AllBookCurrencies
 Backing <- AllBackings
 FeeBook <- AllFeeBooks
 SystemBooks <- KeptBooks
 LedgerIds = {1,2,3}
 MaxOwn = 1
 Requests <- FewRequests
INVARIANTS FeesFollowMovement
CHECK_DEADLOCK FALSE
